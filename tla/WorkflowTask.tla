---------------------------- MODULE WorkflowTask -----------------------------
(***************************************************************************)
(* The life of one workflow Task in a process that executes it inline:     *)
(* the persisted file, the asyncio runner and its branch tasks, the retry  *)
(* timer, the control operations (run, retry, skip, stop, delete), crashes,*)
(* graceful restarts and start-up recovery.                                *)
(*                                                                         *)
(* A step of the model is what runs between two suspension points of the   *)
(* event loop, together with the save that ends it: the code takes the     *)
(* snapshot of a save on the loop, so a crash before the file is replaced  *)
(* is a crash before the step.                                             *)
(*                                                                         *)
(* Every launch of the runner (run_task) works on its own WorkflowTask     *)
(* object, loaded from the file.  mem[r] is the object of launch r; a      *)
(* branch task that outlives its runner keeps using it.                    *)
(***************************************************************************)
EXTENDS FailurePolicy

CONSTANTS
  Branch,      \* node sequences of the execution plan
  BranchOf,    \* the branch of each node
  Pos,         \* position of each node in its branch
  StageOf,     \* the plan step of each branch
  LastStage,   \* number of plan steps
  Gateway,     \* the steps that are parallel gateways
  Approval,    \* nodes of type approval
  MaxRuns,     \* bound: launches of the runner
  MaxExits,    \* bound: crashes and graceful restarts
  MaxRequests  \* bound: retry and skip requests clients send

Stage == 1..LastStage
Runs  == 1..MaxRuns

Branches(s) == {b \in Branch : StageOf[b] = s}
Nodes(b)    == {n \in Node : BranchOf[n] = b}

ASSUME PlanAssumption ==
  /\ LastStage \in Nat \ {0}
  /\ BranchOf \in [Node -> Branch]
  /\ Pos \in [Node -> Nat]
  /\ \A m, n \in Node : BranchOf[m] = BranchOf[n] /\ Pos[m] = Pos[n] => m = n
  /\ StageOf \in [Branch -> Stage]
  /\ Gateway \subseteq Stage
  \* A step that is no gateway runs one node inside the runner itself.
  /\ \A s \in Stage \ Gateway :
       \E n \in Node : Branches(s) = {BranchOf[n]} /\ Nodes(BranchOf[n]) = {n}
  \* Approvals start their sequence (NodeSequence has the other positions).
  /\ Approval \subseteq Node
  /\ \A n \in Approval : \A m \in Nodes(BranchOf[n]) : Pos[n] <= Pos[m]

ASSUME BoundAssumption ==
  MaxRuns \in Nat \ {0} /\ MaxExits \in Nat /\ MaxRequests \in Nat

TaskStatus == {"pending", "running", "retry_waiting", "resume_pending",
               "completed", "failed", "stopped"}
Terminal    == {"completed", "failed", "stopped"}
Recoverable == {"running", "retry_waiting", "resume_pending"}
Task        == [st: TaskStatus, ns: [Node -> NodeState]]

Outcome      == {"completed", "failed", "retry_waiting"}
Active       == {"ready", "exec", "waiting"}
WorkerStatus == {"idle"} \cup Active \cup Outcome
RunnerStatus == {"none", "starting", "stage", "merging", "finalizing", "releasing"}
LockHolder   == {"free", "handoff", "stop", "delete", "exit"}
Mishap       == {"none", "refused", "derailed"}
Request      == [op: {"retry", "skip"}, n: Node, k: Nat]

VARIABLES
  file,       \* does the Task file exist
  disk,       \* its content (the last one, once deleted)
  up,         \* the process is running
  run,        \* number of launches so far; the latest is the current one
  mem,        \* the in-memory Task object of each launch
  worker,     \* the branch tasks of each launch
  runner,     \* where the current runner coroutine is
  stage,      \* the plan step it is at
  swallowed,  \* a cancellation was consumed as the result of a branch
  timer,      \* the retry timer is armed
  lock,       \* who holds the task control lock across a suspension
  request,    \* client requests in flight
  execs,      \* history: plugin executions begun, per node
  allowance,  \* history: executions the failure policy allows, per node
  mishap,     \* history: what befell the latest launch outside its nodes
  accepted,   \* history: observed failures (node, attempt) acted upon
  acts,       \* history: number of accepted requests
  exits, sent \* counters the bounds apply to

saved   == <<file, disk>>
engine  == <<run, mem, worker, runner, stage, swallowed>>
clients == <<request, accepted, acts, sent>>
history == <<execs, allowance, mishap>>
vars    == <<saved, up, engine, timer, lock, clients, history, exits>>

\* create_task: nodes the chosen scheme disables are skipped from the start.
NewTask(disabled) ==
  [st |-> "pending",
   ns |-> [n \in Node |-> IF n \in disabled THEN FailureSkip(NewNode) ELSE NewNode]]

Init ==
  /\ file = TRUE
  /\ \E disabled \in SUBSET Node : disk = NewTask(disabled)
  /\ up = TRUE
  /\ run = 0
  /\ mem = [r \in Runs |-> disk]
  /\ worker = [r \in Runs |-> [b \in Branch |-> "idle"]]
  /\ runner = "none"
  /\ stage = 1
  /\ swallowed = FALSE
  /\ timer = FALSE
  /\ lock = "free"
  /\ request = {}
  /\ execs = [n \in Node |-> 0]
  /\ allowance = [n \in Node |-> RetryBudget(n) + 1]
  /\ mishap = "none"
  /\ accepted = {}
  /\ acts = 0
  /\ exits = 0
  /\ sent = 0

-----------------------------------------------------------------------------
(***************************************************************************)
(* Branch tasks: _execute_node_sequence.  The node a sequence is at is its *)
(* first one that is not done.                                             *)
(***************************************************************************)
AtNode(r, n) ==
  /\ ~Done(mem[r].ns[n])
  /\ \A m \in Nodes(BranchOf[n]) : Pos[m] < Pos[n] => Done(mem[r].ns[m])

\* The engine's save: the file becomes the object in memory, whoever owns it.
Save(task) == file' = TRUE /\ disk' = task

SetNode(r, n, s) ==
  /\ mem' = [mem EXCEPT ![r].ns[n] = s]
  /\ Save(mem'[r])

SetWorker(r, b, w) == worker' = [worker EXCEPT ![r][b] = w]

At(r, n, w) ==
  /\ up
  /\ lock # "handoff"
  /\ worker[r][BranchOf[n]] = w
  /\ AtNode(r, n)

\* waiting_approval is not among the statuses the sequence refuses to enter.
Startable(s) == s.st \in {"pending", "waiting_approval"}

Bug_StartWithoutCheckpoint(r, n) ==
  /\ At(r, n, "ready")
  /\ Startable(mem[r].ns[n])
  /\ mem' = [mem EXCEPT ![r].ns[n] = BeginAttempt(@)]
  /\ SetWorker(r, BranchOf[n], "exec")
  /\ execs' = [execs EXCEPT ![n] = @ + 1]
  /\ UNCHANGED <<saved, up, run, runner, stage, swallowed, timer, lock, clients, allowance, mishap, exits>>

\* begin_node_attempt, the checkpoint, then plugin.execute.
StartNode(r, n) ==
  /\ At(r, n, "ready")
  /\ Startable(mem[r].ns[n])
  /\ SetNode(r, n, BeginAttempt(mem[r].ns[n]))
  /\ SetWorker(r, BranchOf[n], "exec")
  /\ execs' = [execs EXCEPT ![n] = @ + 1]
  /\ UNCHANGED <<up, run, runner, stage, swallowed, timer, lock, clients, allowance, mishap, exits>>

\* A node some earlier launch left failed, running or waiting for its retry
\* stops the sequence; nothing is saved.
Blocked(r, n) ==
  /\ At(r, n, "ready")
  /\ ~Startable(mem[r].ns[n])
  /\ SetWorker(r, BranchOf[n],
       IF mem[r].ns[n].st = "retry_waiting" THEN "retry_waiting" ELSE "failed")
  /\ UNCHANGED <<saved, up, run, mem, runner, stage, swallowed, timer, lock, clients, history, exits>>

FinishBranch(r, b) ==
  /\ up /\ lock # "handoff"
  /\ worker[r][b] = "ready"
  /\ \A n \in Nodes(b) : Done(mem[r].ns[n])
  /\ SetWorker(r, b, "completed")
  /\ UNCHANGED <<saved, up, run, mem, runner, stage, swallowed, timer, lock, clients, history, exits>>

EndNode(r, n, from, s, w) ==
  /\ At(r, n, from)
  /\ SetNode(r, n, s)
  /\ SetWorker(r, BranchOf[n], w)
  /\ UNCHANGED <<up, run, runner, stage, swallowed, timer, lock, clients, history, exits>>

Succeeded(s) == [s EXCEPT !.st = "completed"]
Failed(s)    == [s EXCEPT !.st = "failed"]

Bug_SkipStillFails(r, n, from) ==
  LET s == AfterFailure(n, Failed(mem[r].ns[n]))
  IN  EndNode(r, n, from, s,
              IF s.st = "retry_waiting" THEN "retry_waiting" ELSE "failed")

\* The node failed: the failure policy decides what is saved and whether the
\* sequence goes on.
FailNode(r, n, from) ==
  LET s == AfterFailure(n, Failed(mem[r].ns[n]))
  IN  EndNode(r, n, from, s,
              CASE s.st = "retry_waiting" -> "retry_waiting"
                [] s.st = "skipped"       -> "ready"
                [] OTHER                  -> "failed")

NodeSucceeds(r, n) ==
  n \notin Approval /\ EndNode(r, n, "exec", Succeeded(mem[r].ns[n]), "ready")

NodeFails(r, n) == n \notin Approval /\ FailNode(r, n, "exec")

\* nodes/approval.py: the waiter is registered before waiting_approval is saved.
AwaitApproval(r, n) ==
  /\ n \in Approval
  /\ EndNode(r, n, "exec", [mem[r].ns[n] EXCEPT !.st = "waiting_approval"], "waiting")

Approve(r, n) == EndNode(r, n, "waiting", Succeeded(mem[r].ns[n]), "ready")

\* Nobody answered in 24 hours, or the request could not be delivered.
ApprovalFails(r, n) == FailNode(r, n, "waiting")

\* A rejected approval at the head of its sequence fails, without the policy.
Reject(r, n) == EndNode(r, n, "waiting", Failed(mem[r].ns[n]), "failed")

Work ==
  \/ \E r \in Runs, n \in Node :
       \/ StartNode(r, n) \/ Blocked(r, n)
       \/ NodeSucceeds(r, n) \/ NodeFails(r, n)
       \/ AwaitApproval(r, n) \/ ApprovalFails(r, n)
  \/ \E r \in Runs, b \in Branch : FinishBranch(r, b)

-----------------------------------------------------------------------------
(***************************************************************************)
(* The runner: _run_task_coroutine, execute_task, _execute_plan_segment.   *)
(***************************************************************************)
LoopRuns == up /\ lock # "handoff"

Bug_LaunchAnyStatus ==
  /\ run < MaxRuns
  /\ runner = "none"
  /\ file
  /\ run' = run + 1
  /\ Save([disk EXCEPT !.st = "running"])
  /\ mem' = [mem EXCEPT ![run + 1] = disk']
  /\ runner' = "starting"
  /\ stage' = 1
  /\ mishap' = "none"
  /\ UNCHANGED <<up, worker, swallowed, timer, request, accepted, acts, execs, allowance, exits>>

\* run_task on a task that may start: save running, create the coroutine.
Launch ==
  /\ run < MaxRuns
  /\ runner = "none"
  /\ file /\ disk.st \in {"pending", "resume_pending"}
  /\ run' = run + 1
  /\ Save([disk EXCEPT !.st = "running"])
  /\ mem' = [mem EXCEPT ![run + 1] = disk']
  /\ runner' = "starting"
  /\ stage' = 1
  /\ mishap' = "none"
  /\ UNCHANGED <<up, worker, swallowed, timer, request, accepted, acts, execs, allowance, exits>>

\* The API call; run_task does not take the task control lock.
RunTask == LoopRuns /\ Launch /\ UNCHANGED <<lock, sent>>

\* retry_node, skip_node, the timer and recovery call run_task right after
\* saving resume_pending: only a crash can come in between.
HandOff == up /\ lock = "handoff" /\ lock' = "free" /\ Launch /\ UNCHANGED sent

\* run_task may refuse them (a task taken over by a main session that is not
\* loaded): its callers log that, and resume_pending stays in the file.
Refused ==
  /\ up /\ lock = "handoff"
  /\ lock' = "free"
  /\ mishap' = "refused"
  /\ UNCHANGED <<saved, up, engine, timer, clients, execs, allowance, exits>>

\* The coroutine fails before the plan is entered: the main session has gone
\* meanwhile, or the workflow's session cannot be made.
StartFails ==
  /\ LoopRuns
  /\ runner = "starting"
  /\ mem' = [mem EXCEPT ![run].st = "failed"]
  /\ Save(mem'[run])
  /\ runner' = "releasing"
  /\ mishap' = "derailed"
  /\ UNCHANGED <<up, run, worker, stage, swallowed, timer, lock, clients, execs, allowance, exits>>

EnterStage(s) ==
  /\ stage' = s
  /\ runner' = "stage"
  /\ worker' = [worker EXCEPT ![run] =
                  [b \in Branch |-> IF StageOf[b] = s THEN "ready" ELSE @[b]]]

StartRunner ==
  /\ LoopRuns
  /\ runner = "starting"
  /\ EnterStage(1)
  /\ UNCHANGED <<saved, up, run, mem, swallowed, timer, lock, clients, history, exits>>

\* execute_task leaves the plan; the artifacts are saved before the result is.
EndPlan(outcome) ==
  /\ mem' = [mem EXCEPT ![run].st = outcome]
  /\ runner' = "finalizing"
  /\ UNCHANGED <<stage, worker>>

Bug_NextStageOffByOne ==
  IF stage > LastStage THEN EndPlan("completed")
                       ELSE EnterStage(stage + 1) /\ UNCHANGED mem

NextStage ==
  IF stage = LastStage THEN EndPlan("completed")
                       ELSE EnterStage(stage + 1) /\ UNCHANGED mem

\* The plan fails between two steps: no branch of a gateway applies, or what
\* the engine does there raises.  No node has failed.
PlanFails ==
  /\ LoopRuns
  /\ \/ runner \in {"starting", "merging"}
     \/ /\ runner = "stage" /\ stage \notin Gateway
        /\ \A b \in Branches(stage) : worker[run][b] = "completed"
  /\ EndPlan("failed")
  /\ mishap' = "derailed"
  /\ UNCHANGED <<saved, up, run, swallowed, timer, lock, clients, execs, allowance, exits>>

Joined(S) == {worker[run][b] : b \in S}

Bug_FirstResultOnly(S) ==
  /\ S # {} /\ S \subseteq Branches(stage)
  /\ Joined(S) \subseteq Outcome

\* as_completed hands out one result per branch; a cancellation swallowed by
\* the loop counts as one of them, so one branch is not waited for.
Collected(S) ==
  /\ IF swallowed THEN \E late \in Branches(stage) : S = Branches(stage) \ {late}
                  ELSE S = Branches(stage)
  /\ Joined(S) \subseteq Outcome

Bug_FailureIgnored(outs) ==
  IF "retry_waiting" \in outs THEN "retry_waiting" ELSE "completed"

Bug_FailedFirst(outs) ==
  IF "failed" \in outs THEN "failed"
  ELSE IF "retry_waiting" \in outs THEN "retry_waiting" ELSE "completed"

StageOutcome(outs) ==
  IF "retry_waiting" \in outs THEN "retry_waiting"
  ELSE IF "failed" \in outs THEN "failed" ELSE "completed"

FinishStage ==
  /\ LoopRuns
  /\ runner = "stage"
  /\ \E S \in SUBSET Branches(stage) :
       /\ Collected(S)
       /\ LET outcome == StageOutcome(Joined(S) \cup
                                      (IF swallowed THEN {"failed"} ELSE {}))
          IN  \/ outcome # "completed" /\ EndPlan(outcome)
              \/ /\ outcome = "completed" /\ stage \in Gateway
                 /\ runner' = "merging" /\ UNCHANGED <<stage, mem, worker>>
              \/ outcome = "completed" /\ stage \notin Gateway /\ NextStage
  /\ swallowed' = FALSE
  /\ UNCHANGED <<saved, up, run, timer, lock, clients, history, exits>>

\* _merge_branch_summaries saves when some branch produced a summary.
Merge ==
  /\ LoopRuns
  /\ runner = "merging"
  /\ NextStage
  /\ UNCHANGED saved \/ Save(mem[run])
  /\ UNCHANGED <<up, run, swallowed, timer, lock, clients, history, exits>>

WaitingNodes(task) == {n \in Node : task.ns[n].st = "retry_waiting"}

Bug_PersistForgetsTimer ==
  /\ LoopRuns
  /\ runner = "finalizing"
  /\ Save(mem[run])
  /\ runner' = IF mem[run].st \in Terminal THEN "releasing" ELSE "none"
  /\ UNCHANGED <<up, run, mem, worker, stage, swallowed, timer, lock, clients, history, exits>>

\* _persist_execution_result, then for retry_waiting the finally block.
Persist ==
  /\ LoopRuns
  /\ runner = "finalizing"
  /\ Save(mem[run])
  /\ runner' = IF mem[run].st \in Terminal THEN "releasing" ELSE "none"
  /\ timer' = IF mem[run].st = "retry_waiting"
              THEN WaitingNodes(mem[run]) # {} ELSE timer
  /\ UNCHANGED <<up, run, mem, worker, stage, swallowed, lock, clients, history, exits>>

Release ==
  /\ LoopRuns
  /\ runner = "releasing"
  /\ runner' = "none"
  /\ UNCHANGED <<saved, up, run, mem, worker, stage, swallowed, timer, lock, clients, history, exits>>

-----------------------------------------------------------------------------
(***************************************************************************)
(* The retry timer: _retry_timer_worker and _activate_due_retries.  Any    *)
(* non-empty set of waiting nodes may be due; with none due the timer is   *)
(* re-armed, a stuttering step.  Whoever takes the task elsewhere cancels  *)
(* the timer first, so one that fires under a running task or one that no  *)
(* longer waits, which the code ignores, does not occur (ArmedForARetry of *)
(* WorkflowTaskOutcome).                                                   *)
(***************************************************************************)
\* Saving a resume and starting the runner are two saves.
SaveResume(ns) ==
  /\ run < MaxRuns
  /\ Save([st |-> "resume_pending", ns |-> ns])
  /\ lock' = "handoff"

Activated(task, due) ==
  [n \in Node |-> IF n \in due THEN ActivateRetry(task.ns[n]) ELSE task.ns[n]]

TimerActivates ==
  /\ up /\ timer /\ lock = "free" /\ runner = "none"
  /\ file /\ disk.st = "retry_waiting"
  /\ \E due \in SUBSET WaitingNodes(disk) :
       due # {} /\ SaveResume(Activated(disk, due))
  /\ timer' = FALSE
  /\ UNCHANGED <<up, engine, clients, history, exits>>

-----------------------------------------------------------------------------
(***************************************************************************)
(* Client requests.  A client reads the detail of a failed node and later  *)
(* sends the attempt number it saw (expected_attempt_count).               *)
(***************************************************************************)
SendRequest ==
  /\ up /\ sent < MaxRequests
  /\ file /\ disk.st \in {"failed", "retry_waiting"}
  /\ \E n \in Node, op \in {"retry", "skip"} :
       /\ Controllable(disk.ns[n])
       /\ request' = request \cup {[op |-> op, n |-> n, k |-> disk.ns[n].att]}
  /\ sent' = sent + 1
  /\ UNCHANGED <<saved, up, engine, timer, lock, accepted, acts, history, exits>>

Bug_ValidateWithoutCAS(q) ==
  /\ file /\ disk.st \in {"failed", "retry_waiting"}
  /\ runner = "none"
  /\ Controllable(disk.ns[q.n])

Bug_ValidateAnyNode(q) ==
  /\ file /\ disk.st \in {"failed", "retry_waiting"}
  /\ runner = "none"
  /\ disk.ns[q.n].att = q.k

\* _validate_node_control.
Valid(q) ==
  /\ file /\ disk.st \in {"failed", "retry_waiting"}
  /\ runner = "none"
  /\ Controllable(disk.ns[q.n])
  /\ disk.ns[q.n].att = q.k

Accept(q, s) ==
  /\ up /\ lock = "free" /\ q \in request /\ Valid(q)
  /\ timer' = FALSE
  /\ SaveResume([disk.ns EXCEPT ![q.n] = s])
  /\ request' = request \ {q}
  /\ accepted' = accepted \cup {<<q.n, q.k>>}
  /\ acts' = acts + 1
  /\ UNCHANGED <<up, engine, execs, mishap, exits, sent>>

RetryNode(q) ==
  /\ q.op = "retry"
  /\ Accept(q, ManualRetry(Failed(disk.ns[q.n])))
  /\ allowance' = [allowance EXCEPT ![q.n] = @ + RetryBudget(q.n) + 1]

SkipNode(q) ==
  /\ q.op = "skip"
  /\ Accept(q, FailureSkip(Failed(disk.ns[q.n])))
  /\ UNCHANGED allowance

RejectRequest(q) ==
  /\ up /\ lock = "free" /\ q \in request /\ ~Valid(q)
  /\ request' = request \ {q}
  /\ UNCHANGED <<saved, up, engine, timer, lock, accepted, acts, history, exits, sent>>

-----------------------------------------------------------------------------
(***************************************************************************)
(* Stopping: stop_task, _delete_task_for_main_session and the graceful     *)
(* shutdown of the process all cancel the runner and wait for it.          *)
(***************************************************************************)
\* CancelledError reaches _run_task_coroutine, which saves stopped; a
\* coroutine cancelled before its first step saves nothing.  During a gateway
\* step it is raised inside the as_completed loop, which records it as the
\* outcome of one branch and goes on.
InStageTask(b) == runner = "stage" /\ StageOf[b] = stage

CancelRunner ==
  \/ /\ \/ runner \in {"starting", "merging", "finalizing"}
        \/ runner = "stage" /\ stage \notin Gateway
     /\ mem' = [mem EXCEPT ![run].st = "stopped"]
     /\ Save(mem'[run])
     /\ runner' = "none"
     /\ worker' = [worker EXCEPT ![run] =
                     [b \in Branch |-> IF InStageTask(b) THEN "idle" ELSE @[b]]]
     /\ UNCHANGED <<run, stage, swallowed>>
  \/ /\ runner = "stage" /\ stage \in Gateway
     /\ swallowed' = TRUE
     /\ UNCHANGED <<saved, run, mem, worker, runner, stage>>
  \/ /\ runner \in {"starting", "releasing"}
     /\ runner' = "none"
     /\ UNCHANGED <<saved, run, mem, worker, stage, swallowed>>

CancelFor(holder) ==
  /\ up /\ lock = "free" /\ runner # "none"
  /\ CancelRunner
  /\ lock' = holder
  /\ UNCHANGED <<up, clients, history, exits>>

StopTask   == CancelFor("stop") /\ timer' = FALSE
DeleteTask == CancelFor("delete") /\ timer' = FALSE

MarkStopped == Save([disk EXCEPT !.st = "stopped"])

\* stop_task resumes once the runner is gone.
StopReturns ==
  /\ up /\ lock = "stop" /\ runner = "none"
  /\ IF file /\ disk.st \notin Terminal THEN MarkStopped ELSE UNCHANGED saved
  /\ lock' = "free"
  /\ UNCHANGED <<up, engine, timer, clients, history, exits>>

\* stop_task without a runner.
StopIdleTask ==
  /\ up /\ lock = "free" /\ runner = "none" /\ file
  /\ \/ /\ disk.st = "pending"
        /\ file' = FALSE /\ UNCHANGED <<disk, timer>>
     \/ /\ disk.st \in Recoverable
        /\ MarkStopped /\ timer' = FALSE
  /\ UNCHANGED <<up, engine, lock, clients, history, exits>>

DeleteIdleTask ==
  /\ up /\ lock = "free" /\ runner = "none" /\ file
  /\ file' = FALSE /\ timer' = FALSE
  /\ UNCHANGED <<disk, up, engine, lock, clients, history, exits>>

DeleteReturns ==
  /\ up /\ lock = "delete" /\ runner = "none"
  /\ file' = FALSE /\ lock' = "free"
  /\ UNCHANGED <<disk, up, engine, timer, clients, history, exits>>

-----------------------------------------------------------------------------
(***************************************************************************)
(* Process exit and start-up recovery.                                     *)
(***************************************************************************)
ProcessGone ==
  /\ up' = FALSE
  /\ runner' = "none" /\ swallowed' = FALSE /\ timer' = FALSE /\ lock' = "free"
  /\ worker' = [r \in Runs |-> [b \in Branch |-> "idle"]]
  /\ request' = {}

Crash ==
  /\ up /\ exits < MaxExits /\ run < MaxRuns
  /\ ProcessGone
  /\ exits' = exits + 1
  /\ UNCHANGED <<saved, run, mem, stage, accepted, acts, sent, history>>

\* shutdown_running_tasks: cancel and reap; then the timers, then the exit.
Shutdown ==
  /\ exits < MaxExits /\ run < MaxRuns
  /\ CancelFor("exit") /\ UNCHANGED timer

ShutdownIdle ==
  /\ up /\ exits < MaxExits /\ run < MaxRuns
  /\ lock \in {"free", "exit"} /\ runner = "none"
  /\ ProcessGone
  /\ exits' = exits + 1
  /\ UNCHANGED <<saved, run, mem, stage, accepted, acts, sent, history>>

Recovered == [n \in Node |-> RecoverNode(n, disk.ns[n])]

PendingResume(ns) ==
  \E n \in Node : ns[n].st = "pending" /\ ns[n].trig \in ResumeTriggers

Bug_ResumeOnlyIfStatusSays(ns) == disk.st = "resume_pending"

\* A resume that was saved but maybe not started takes precedence over the
\* failures and waits of sibling branches.
ResumeRequested(ns) == disk.st = "resume_pending" \/ PendingResume(ns)

Found(ns, st) == \E n \in Node : ns[n].st = st

\* recover_workflow_tasks / _recover_task at start-up, before requests are served.
RecoverTask ==
  LET ns == Recovered IN
  \/ /\ ~file \/ disk.st \notin Recoverable
     /\ UNCHANGED <<saved, timer, lock>>
  \/ /\ file /\ disk.st \in Recoverable
     /\ ~ResumeRequested(ns) /\ Found(ns, "retry_waiting")
     /\ Save([st |-> "retry_waiting", ns |-> ns])
     /\ timer' = TRUE /\ UNCHANGED lock
  \/ /\ file /\ disk.st \in Recoverable
     /\ ~ResumeRequested(ns) /\ ~Found(ns, "retry_waiting") /\ Found(ns, "failed")
     /\ Save([st |-> "failed", ns |-> ns])
     /\ UNCHANGED <<timer, lock>>
  \/ /\ file /\ disk.st \in Recoverable
     /\ ResumeRequested(ns) \/ (~Found(ns, "retry_waiting") /\ ~Found(ns, "failed"))
     /\ SaveResume(ns)
     /\ UNCHANGED timer

\* A reissued approval is one execution more than the failure policy counts.
Restart ==
  /\ ~up
  /\ up' = TRUE
  /\ RecoverTask
  /\ allowance' = [n \in Node |->
       IF file /\ disk.st \in Recoverable /\ disk.ns[n].st = "waiting_approval"
       THEN allowance[n] + 1 ELSE allowance[n]]
  /\ UNCHANGED <<engine, clients, execs, mishap, exits>>

-----------------------------------------------------------------------------
\* What the process does by itself once it is up, and its restart.
System ==
  \/ Work
  \/ StartRunner \/ FinishStage \/ Merge \/ Persist \/ Release \/ HandOff
  \/ TimerActivates
  \/ Restart

\* What people decide, and what fails outside the nodes.
Environment ==
  \/ RunTask
  \/ \E r \in Runs, n \in Node : Approve(r, n) \/ Reject(r, n)
  \/ SendRequest
  \/ \E q \in request : RetryNode(q) \/ SkipNode(q) \/ RejectRequest(q)
  \/ Refused \/ StartFails \/ PlanFails
  \/ Crash

Cancellation ==
  \/ StopTask \/ StopIdleTask \/ StopReturns
  \/ DeleteTask \/ DeleteIdleTask \/ DeleteReturns
  \/ Shutdown \/ ShutdownIdle

Next == System \/ Environment \/ Cancellation

Spec == Init /\ [][Next]_vars

\* Without stop, delete and graceful restart, every ready callback of the
\* event loop runs, plugins return, approvals time out after 24 hours and a
\* dead process is started again.
Uncancelled == System \/ Environment
UncancelledSpec == Init /\ [][Uncancelled]_vars
FairSpec == UncancelledSpec /\ WF_vars(System)

-----------------------------------------------------------------------------
(***************************************************************************)
(* Properties.                                                             *)
(***************************************************************************)
\* Every variable holds a value of its type.
TypeOK ==
  /\ file \in BOOLEAN /\ disk \in Task /\ up \in BOOLEAN
  /\ run \in 0..MaxRuns
  /\ mem \in [Runs -> Task]
  /\ worker \in [Runs -> [Branch -> WorkerStatus]]
  /\ runner \in RunnerStatus /\ stage \in Stage /\ swallowed \in BOOLEAN
  /\ timer \in BOOLEAN /\ lock \in LockHolder
  /\ request \subseteq Request
  /\ execs \in [Node -> Nat] /\ allowance \in [Node -> Nat] /\ mishap \in Mishap
  /\ accepted \subseteq Node \X Nat
  /\ acts \in Nat /\ exits \in Nat /\ sent \in Nat

AtRest == up /\ file /\ runner = "none" /\ lock = "free"

\* A branch task that outlives the runner that started it.
Orphan == \E r \in Runs, b \in Branch :
            worker[r][b] \in Active /\ ~(r = run /\ runner = "stage" /\ StageOf[b] = stage)

\* Every execution of a plugin is preceded by the checkpoint that counts it,
\* through crashes, retries and recovery: attempt_count on disk never lags
\* the side effects.
AttemptsAccounted == \A n \in Node : disk.ns[n].att = execs[n]

\* A node is executed once, plus its automatic retries, for its first failure
\* chain and for every manual retry; a crash mid-attempt consumes the budget
\* like a failure does and an approval reissued by recovery counts once.
RetryBudgetHolds == \A n \in Node : execs[n] <= allowance[n]

\* A node waiting for its automatic retry is never forgotten: while the task
\* is at rest and was not stopped, its status says retry_waiting and the
\* timer is armed.  A parallel sibling that failed does not hide it.  Only a
\* launch that was refused, or failed outside the nodes, leaves it behind.
NoLostRetry ==
  AtRest /\ mishap = "none" /\ disk.st # "stopped" /\ WaitingNodes(disk) # {}
    => disk.st = "retry_waiting" /\ timer

\* A failed task that is at rest can be repaired: no node is left mid-attempt
\* and, unless its last launch failed outside the nodes, some node is failed,
\* so that retry and skip apply to it.
FailedIsRepairable ==
  AtRest /\ disk.st = "failed" =>
    /\ mishap = "derailed" \/ Found(disk.ns, "failed")
    /\ ~Found(disk.ns, "running") /\ ~Found(disk.ns, "waiting_approval")

\* Checkpoints are final: no retry, recovery or concurrent branch ever makes
\* a completed or skipped node anything else.
DoneIsFinal ==
  [][\A n \in Node : Done(disk.ns[n]) => disk.ns[n]' = disk.ns[n]]_vars

\* While a runner works, what it believes of the nodes is what the file says,
\* so a crash at any moment loses nothing it acted on; and no branch task of
\* an earlier launch is still there to overwrite it.
Checkpointed == ~Orphan /\ (runner # "none" => mem[run].ns = disk.ns)

\* A stopped task stays stopped and a deleted file stays deleted, unless a
\* branch task that the cancellation did not reach still writes.
EndedStaysEnded ==
  [][~Orphan => /\ ~file => ~file'
                /\ disk.st = "stopped" => disk' = disk]_vars

\* delete_tasks_for_main_session: a deleted task is never written back.
DeletedStaysDeleted == [][~file => ~file']_vars

\* Two clients that saw the same failure cannot both act on it: a request is
\* accepted at most once per node and attempt.
OneActionPerFailure == [][acts' # acts => accepted' # accepted]_vars

\* README: a restart of the process does not end a running task; what the
\* exit leaves on disk can be recovered.
RestartContinues ==
  [][lock # "exit" /\ lock' = "exit" /\ disk.st = "running"
       => disk'.st \in Recoverable]_vars

\* A resume that was saved and then refused; a client's run_task or the next
\* start of the process takes it up.
Parked == AtRest /\ disk.st = "resume_pending" /\ mishap = "refused"

\* Every started task comes to an end, whatever fails and whenever the
\* process dies, unless run_task refuses to resume it.
Settles == (file /\ disk.st \in Recoverable) ~> (disk.st \in Terminal \/ Parked)

\* An accepted manual retry or skip is carried out although the process dies
\* between the two saves that start it and although a sibling has failed.
\* Only a launch that was refused, or failed outside the nodes, does not.
Unanswered == {q \in accepted : execs[q[1]] <= q[2] /\ disk.ns[q[1]].st # "skipped"}
AcceptedIsHonoured == []<>(Unanswered = {} \/ mishap # "none")

\* The life cycle the task detail promises, see TaskLifecycle.
Settled == {n \in Node : Done(disk.ns[n])}
Lifecycle == INSTANCE TaskLifecycle WITH
  status <- IF file THEN disk.st ELSE "deleted", settled <- Settled
RefinesLifecycle == Lifecycle!Spec
=============================================================================
