------------------------- MODULE WorkflowTaskSafety -------------------------
(***************************************************************************)
(* Safety of WorkflowTask for every plan, retry budget and bound: under    *)
(* crashes and recovery, and for plans without parallel gateways also      *)
(* under stop, delete and graceful restart.  (With both, a swallowed       *)
(* cancellation leaves a branch task behind; see ~Orphan in the model.)    *)
(*                                                                         *)
(* First what holds through cancellation too: its types.                   *)
(***************************************************************************)
EXTENDS WorkflowTask, FailurePolicyProofs

-----------------------------------------------------------------------------
(***************************************************************************)
(* Updates of a Task.                                                      *)
(***************************************************************************)
\* A new status, or new node states, make a Task of a Task.
LEMMA TaskUpdates ==
  ASSUME NEW t \in Task
  PROVE  /\ t.st \in TaskStatus /\ t.ns \in [Node -> NodeState]
         /\ \A v \in TaskStatus :
              /\ [t EXCEPT !.st = v] \in Task
              /\ [t EXCEPT !.st = v].st = v /\ [t EXCEPT !.st = v].ns = t.ns
         /\ \A n \in Node, s \in NodeState :
              /\ [t EXCEPT !.ns[n] = s] \in Task
              /\ [t EXCEPT !.ns[n] = s].st = t.st
              /\ [t EXCEPT !.ns[n] = s].ns = [t.ns EXCEPT ![n] = s]
BY DEF Task

\* Saving a node state puts the same Task into the object and into the file.
LEMMA SetNodeFacts ==
  ASSUME mem \in [Runs -> Task], NEW r \in Runs, NEW n \in Node, NEW s \in NodeState,
         SetNode(r, n, s)
  PROVE  /\ mem' \in [Runs -> Task] /\ disk' \in Task /\ file' = TRUE
         /\ mem' = [mem EXCEPT ![r] = disk']
         /\ disk'.st = mem[r].st
         /\ disk'.ns[n] = s /\ \A m \in Node \ {n} : disk'.ns[m] = mem[r].ns[m]
<1>1. mem[r] \in Task
  OBVIOUS
<1> DEFINE t == [mem[r] EXCEPT !.ns[n] = s]
<1>2. t \in Task /\ t.st = mem[r].st /\ t.ns = [mem[r].ns EXCEPT ![n] = s]
  BY <1>1, TaskUpdates
<1>3. mem' = [mem EXCEPT ![r] = t]
  BY DEF SetNode
<1>5. t.ns[n] = s /\ \A m \in Node \ {n} : t.ns[m] = mem[r].ns[m]
  BY <1>1, <1>2 DEF Task
<1> HIDE DEF t
<1>4. disk' = t /\ file' = TRUE
  BY <1>3 DEF SetNode, Save
<1> QED
  BY <1>2, <1>3, <1>4, <1>5

\* Changing the status of one object leaves every other object alone.
LEMMA SetStatusFacts ==
  ASSUME mem \in [Runs -> Task], NEW r \in Runs, NEW v \in TaskStatus,
         mem' = [mem EXCEPT ![r].st = v]
  PROVE  /\ mem' \in [Runs -> Task]
         /\ mem'[r].st = v /\ mem'[r].ns = mem[r].ns
         /\ \A q \in Runs : q # r => mem'[q] = mem[q]
<1>1. mem[r] \in Task
  OBVIOUS
<1> DEFINE t == [mem[r] EXCEPT !.st = v]
<1>2. t \in Task /\ t.st = v /\ t.ns = mem[r].ns
  BY <1>1, TaskUpdates
<1>3. mem' = [mem EXCEPT ![r] = t]
  OBVIOUS
<1> HIDE DEF t
<1> QED
  BY <1>2, <1>3

-----------------------------------------------------------------------------
(***************************************************************************)
(* Type correctness.  The invariant needs one fact more than the types: a  *)
(* runner exists only once a launch has given it a Task object.            *)
(***************************************************************************)
Launched == runner # "none" => run \in Runs

TypeInv == TypeOK /\ Launched

USE DEF Runs

LEMMA InitTypeInv == Init => TypeInv
<1> SUFFICES ASSUME Init PROVE TypeInv
  OBVIOUS
<1>1. disk \in Task
  <2>1. PICK disabled \in SUBSET Node : disk = NewTask(disabled)
    BY DEF Init
  <2>2. NewNode \in NodeState /\ "skipped" \in NodeStatus
    BY DEF NewNode, NodeState, NodeStatus, Trigger
  <2>3. FailureSkip(NewNode) \in NodeState
    BY <2>2, StatusFacts DEF FailureSkip
  <2> QED
    BY <2>1, <2>2, <2>3 DEF NewTask, Task, TaskStatus
<1>2. allowance \in [Node -> Nat]
  <2>1. \A n \in Node : RetryBudget(n) + 1 \in Nat
    BY PolicyAssumption DEF RetryBudget, MAX_AUTO_RETRY_COUNT
  <2> QED
    BY <2>1 DEF Init
<1>3. stage \in Stage
  BY PlanAssumption DEF Init, Stage
<1>4. mem \in [Runs -> Task] /\ worker \in [Runs -> [Branch -> WorkerStatus]]
  BY <1>1 DEF Init, WorkerStatus
<1>5. execs \in [Node -> Nat] /\ run \in 0..MaxRuns
  BY BoundAssumption DEF Init
<1> QED
  BY <1>1, <1>2, <1>3, <1>4, <1>5
  DEF Init, TypeInv, TypeOK, Launched, RunnerStatus, LockHolder, Mishap

\* SetNode and SetWorker keep the types whatever worker performs them.
LEMMA WorkerStepType ==
  ASSUME TypeInv, NEW r \in Runs, NEW n \in Node, NEW s \in NodeState,
         NEW w \in WorkerStatus,
         SetNode(r, n, s), SetWorker(r, BranchOf[n], w),
         UNCHANGED <<up, run, runner, stage, swallowed, timer, lock, clients, exits, allowance, mishap>>,
         execs' \in [Node -> Nat]
  PROVE  TypeInv'
<1>1. mem' \in [Runs -> Task] /\ disk' \in Task /\ file' = TRUE
  BY SetNodeFacts DEF TypeInv, TypeOK
<1>2. worker' \in [Runs -> [Branch -> WorkerStatus]]
  BY DEF SetWorker, TypeInv, TypeOK
<1> QED
  BY <1>1, <1>2 DEF TypeInv, TypeOK, Launched, clients

\* Every step of a branch task keeps the types.
LEMMA WorkType ==
  ASSUME TypeInv, Work \/ \E r \in Runs, n \in Node : Approve(r, n) \/ Reject(r, n)
  PROVE  TypeInv'
<1>1. \A r \in Runs, n \in Node : mem[r] \in Task /\ mem[r].ns[n] \in NodeState
  BY DEF TypeInv, TypeOK, Task
<1>2. {"ready", "exec", "waiting", "completed", "failed", "retry_waiting"} \subseteq WorkerStatus
  BY DEF WorkerStatus, Active, Outcome
<1>3. {"completed", "failed", "waiting_approval"} \subseteq NodeStatus
  BY DEF NodeStatus
<1>4. ASSUME NEW r \in Runs, NEW n \in Node, StartNode(r, n)
      PROVE  TypeInv'
  <2>1. execs' \in [Node -> Nat]
    BY <1>4 DEF StartNode, TypeInv, TypeOK
  <2> QED
    BY <1>4, <1>1, <1>2, <2>1, BeginAttemptFacts, WorkerStepType DEF StartNode
<1>5. ASSUME NEW r \in Runs, NEW n \in Node, Blocked(r, n)
      PROVE  TypeInv'
  <2>1. worker' \in [Runs -> [Branch -> WorkerStatus]]
    BY <1>5, <1>2 DEF Blocked, SetWorker, TypeInv, TypeOK
  <2> QED
    BY <1>5, <2>1 DEF Blocked, TypeInv, TypeOK, Launched, saved, clients, history
<1>6. ASSUME NEW r \in Runs, NEW b \in Branch, FinishBranch(r, b)
      PROVE  TypeInv'
  <2>1. worker' \in [Runs -> [Branch -> WorkerStatus]]
    BY <1>6, <1>2 DEF FinishBranch, SetWorker, TypeInv, TypeOK
  <2> QED
    BY <1>6, <2>1 DEF FinishBranch, TypeInv, TypeOK, Launched, saved, clients, history
<1>7. ASSUME NEW r \in Runs, NEW n \in Node, NEW from, NEW s \in NodeState,
             NEW w \in WorkerStatus, EndNode(r, n, from, s, w)
      PROVE  TypeInv'
  BY <1>7, WorkerStepType DEF EndNode, history, TypeInv, TypeOK
<1>8. ASSUME NEW r \in Runs, NEW n \in Node
      PROVE  Succeeded(mem[r].ns[n]) \in NodeState /\ Failed(mem[r].ns[n]) \in NodeState
             /\ [mem[r].ns[n] EXCEPT !.st = "waiting_approval"] \in NodeState
             /\ AfterFailure(n, Failed(mem[r].ns[n])) \in NodeState
  <2>1. /\ Succeeded(mem[r].ns[n]) \in NodeState
        /\ Failed(mem[r].ns[n]) \in NodeState /\ Failed(mem[r].ns[n]).st = "failed"
        /\ [mem[r].ns[n] EXCEPT !.st = "waiting_approval"] \in NodeState
    BY <1>1, <1>3, StatusFacts DEF Succeeded, Failed
  <2> QED
    BY <2>1, AfterFailureFacts
<1>9. ASSUME NEW r \in Runs, NEW n \in Node, NEW from, FailNode(r, n, from)
      PROVE  TypeInv'
  <2> DEFINE s == AfterFailure(n, Failed(mem[r].ns[n]))
             w == CASE s.st = "retry_waiting" -> "retry_waiting"
                    [] s.st = "skipped"       -> "ready"
                    [] OTHER                  -> "failed"
  <2>1. s \in NodeState
    BY <1>8
  <2>2. EndNode(r, n, from, s, w)
    BY <1>9 DEF FailNode
  <2> HIDE DEF s
  <2>3. w \in WorkerStatus
    BY <1>2
  <2> HIDE DEF w
  <2> QED
    BY <2>1, <2>2, <2>3, <1>7
<1>10. ASSUME NEW r \in Runs, NEW n \in Node,
              \/ NodeSucceeds(r, n) \/ NodeFails(r, n) \/ AwaitApproval(r, n)
              \/ ApprovalFails(r, n) \/ Approve(r, n) \/ Reject(r, n)
       PROVE  TypeInv'
  BY <1>10, <1>2, <1>7, <1>8, <1>9
  DEF NodeSucceeds, NodeFails, AwaitApproval, ApprovalFails, Approve, Reject
<1> QED
  BY <1>4, <1>5, <1>6, <1>10 DEF Work

\* Starting the runner keeps the types: the new object is the saved Task.
LEMMA LaunchType ==
  ASSUME TypeInv, Launch, sent' \in Nat, lock' \in LockHolder
  PROVE  TypeInv'
<1>1. disk \in Task /\ run + 1 \in Runs /\ run' = run + 1
  BY BoundAssumption DEF Launch, TypeInv, TypeOK
<1>2. "running" \in TaskStatus /\ 1 \in Stage
  BY PlanAssumption DEF TaskStatus, Stage
<1>3. disk' \in Task /\ file' = TRUE
  BY <1>1, <1>2, TaskUpdates DEF Launch, Save
<1>4. mem' \in [Runs -> Task]
  BY <1>3 DEF Launch, TypeInv, TypeOK
<1> QED
  BY <1>1, <1>2, <1>3, <1>4, BoundAssumption
  DEF Launch, TypeInv, TypeOK, Launched, RunnerStatus, Mishap

\* Leaving the plan sets the outcome of the current object.
LEMMA EndPlanType ==
  ASSUME TypeInv, runner # "none", NEW v \in TaskStatus, EndPlan(v)
  PROVE  mem' \in [Runs -> Task] /\ runner' \in RunnerStatus
         /\ stage' \in Stage /\ worker' \in [Runs -> [Branch -> WorkerStatus]]
<1>1. mem' \in [Runs -> Task]
  BY SetStatusFacts DEF EndPlan, TypeInv, TypeOK, Launched
<1> QED
  BY <1>1 DEF EndPlan, TypeInv, TypeOK, RunnerStatus

\* Entering a step makes its branches ready and leaves the others as they are.
LEMMA EnterStageType ==
  ASSUME TypeInv, NEW s \in Stage, EnterStage(s)
  PROVE  runner' \in RunnerStatus /\ stage' \in Stage
         /\ worker' \in [Runs -> [Branch -> WorkerStatus]]
BY DEF EnterStage, TypeInv, TypeOK, RunnerStatus, WorkerStatus, Active

LEMMA NextStageType ==
  ASSUME TypeInv, runner # "none", NextStage
  PROVE  mem' \in [Runs -> Task] /\ runner' \in RunnerStatus
         /\ stage' \in Stage /\ worker' \in [Runs -> [Branch -> WorkerStatus]]
<1>1. CASE stage = LastStage
  <2>1. "completed" \in TaskStatus
    BY DEF TaskStatus
  <2> QED
    BY <1>1, <2>1, EndPlanType DEF NextStage
<1>2. CASE stage # LastStage
  <2>1. stage + 1 \in Stage
    BY <1>2, PlanAssumption DEF Stage, TypeInv, TypeOK
  <2>2. EnterStage(stage + 1) /\ UNCHANGED mem
    BY <1>2 DEF NextStage
  <2> QED
    BY <2>1, <2>2, EnterStageType DEF TypeInv, TypeOK
<1> QED
  BY <1>1, <1>2

\* A step ends in an outcome of the task, whatever its branches returned.
LEMMA StageOutcomeType ==
  ASSUME NEW outs PROVE StageOutcome(outs) \in Outcome
BY DEF StageOutcome, Outcome

\* Every step of the runner keeps the types.
LEMMA RunnerType ==
  ASSUME TypeInv,
         \/ RunTask \/ HandOff \/ StartRunner \/ FinishStage
         \/ Merge \/ Persist \/ Release \/ Refused \/ StartFails \/ PlanFails
  PROVE  TypeInv'
<1>1. CASE RunTask \/ HandOff
  <2>1. lock' \in LockHolder /\ sent' \in Nat
    BY <1>1 DEF RunTask, HandOff, TypeInv, TypeOK, LockHolder
  <2> QED
    BY <1>1, <2>1, LaunchType DEF RunTask, HandOff
<1>2. CASE StartRunner
  <2>1. 1 \in Stage
    BY PlanAssumption DEF Stage
  <2>2. runner' \in RunnerStatus /\ stage' \in Stage
        /\ worker' \in [Runs -> [Branch -> WorkerStatus]]
    BY <1>2, <2>1, EnterStageType DEF StartRunner
  <2> QED
    BY <1>2, <2>2 DEF StartRunner, TypeInv, TypeOK, Launched, saved, clients, history
<1>3. CASE FinishStage
  <2>1. mem' \in [Runs -> Task] /\ runner' \in RunnerStatus
        /\ stage' \in Stage /\ worker' \in [Runs -> [Branch -> WorkerStatus]]
    <3>1. runner = "stage"
      BY <1>3 DEF FinishStage
    <3>2. PICK v \in Outcome :
            \/ v # "completed" /\ EndPlan(v)
            \/ /\ v = "completed" /\ stage \in Gateway
               /\ runner' = "merging" /\ UNCHANGED <<stage, mem, worker>>
            \/ v = "completed" /\ stage \notin Gateway /\ NextStage
      BY <1>3, StageOutcomeType DEF FinishStage
    <3>3. v \in TaskStatus
      BY DEF Outcome, TaskStatus
    <3>4. CASE EndPlan(v)
      BY <3>1, <3>3, <3>4, EndPlanType
    <3>5. CASE runner' = "merging" /\ UNCHANGED <<stage, mem, worker>>
      BY <3>5 DEF TypeInv, TypeOK, RunnerStatus
    <3>6. CASE NextStage
      BY <3>1, <3>6, NextStageType
    <3> QED
      BY <3>2, <3>4, <3>5, <3>6
  <2> QED
    BY <1>3, <2>1 DEF FinishStage, TypeInv, TypeOK, Launched, saved, clients, history
<1>4. CASE Merge
  <2>1. mem' \in [Runs -> Task] /\ runner' \in RunnerStatus
        /\ stage' \in Stage /\ worker' \in [Runs -> [Branch -> WorkerStatus]]
    BY <1>4, NextStageType DEF Merge
  <2>2. mem[run] \in Task
    BY <1>4 DEF Merge, TypeInv, TypeOK, Launched
  <2>3. disk' \in Task /\ file' \in BOOLEAN
    BY <1>4, <2>2 DEF Merge, Save, saved, TypeInv, TypeOK
  <2> QED
    BY <1>4, <2>1, <2>3 DEF Merge, TypeInv, TypeOK, Launched, clients, history
<1>5. CASE Persist
  <2>1. mem[run] \in Task
    BY <1>5 DEF Persist, TypeInv, TypeOK, Launched
  <2>2. timer' \in BOOLEAN
    BY <1>5 DEF Persist, TypeInv, TypeOK
  <2>3. runner' \in RunnerStatus
    BY <1>5 DEF Persist, RunnerStatus
  <2> QED
    BY <1>5, <2>1, <2>2, <2>3
    DEF Persist, Save, TypeInv, TypeOK, Launched, clients, history
<1>6. CASE Release
  BY <1>6 DEF Release, TypeInv, TypeOK, Launched, RunnerStatus, saved, clients, history
<1>7. CASE Refused
  BY <1>7 DEF Refused, TypeInv, TypeOK, Launched, LockHolder, Mishap, saved, engine, clients
<1>8. CASE StartFails
  <2>1. runner = "starting" /\ run \in Runs /\ "failed" \in TaskStatus
    BY <1>8 DEF StartFails, TaskStatus, TypeInv, Launched
  <2>2. mem' \in [Runs -> Task] /\ mem'[run] \in Task
    BY <1>8, <2>1, SetStatusFacts DEF StartFails, TypeInv, TypeOK
  <2> QED
    BY <1>8, <2>1, <2>2
    DEF StartFails, Save, TypeInv, TypeOK, Launched, RunnerStatus, Mishap, clients
<1>9. CASE PlanFails
  <2>1. runner # "none" /\ "failed" \in TaskStatus /\ EndPlan("failed")
    BY <1>9 DEF PlanFails, TaskStatus
  <2>2. /\ mem' \in [Runs -> Task] /\ runner' \in RunnerStatus
        /\ stage' \in Stage /\ worker' \in [Runs -> [Branch -> WorkerStatus]]
    BY <2>1, EndPlanType
  <2> QED
    BY <1>9, <2>1, <2>2 DEF PlanFails, TypeInv, TypeOK, Launched, Mishap, saved, clients
<1> QED
  BY <1>1, <1>2, <1>3, <1>4, <1>5, <1>6, <1>7, <1>8, <1>9

\* Saving a resume keeps the types.
LEMMA SaveResumeType ==
  ASSUME NEW ns \in [Node -> NodeState], SaveResume(ns)
  PROVE  disk' \in Task /\ file' = TRUE /\ lock' \in LockHolder
BY DEF SaveResume, Save, Task, TaskStatus, LockHolder

\* So do the timer and the requests of clients.
LEMMA ControlType ==
  ASSUME TypeInv,
         \/ TimerActivates \/ SendRequest
         \/ \E q \in request : RetryNode(q) \/ SkipNode(q) \/ RejectRequest(q)
  PROVE  TypeInv'
<1>1. disk.ns \in [Node -> NodeState] /\ \A n \in Node : disk.ns[n] \in NodeState
  BY DEF TypeInv, TypeOK, Task
<1>2. CASE TimerActivates
  <2>1. PICK due \in SUBSET WaitingNodes(disk) : SaveResume(Activated(disk, due))
    BY <1>2 DEF TimerActivates
  <2>2. \A n \in Node : ActivateRetry(disk.ns[n]) \in NodeState
    <3>1. "pending" \in NodeStatus
      BY DEF NodeStatus
    <3> QED
      BY <1>1, <3>1, StatusFacts DEF ActivateRetry
  <2>3. Activated(disk, due) \in [Node -> NodeState]
    BY <1>1, <2>2 DEF Activated
  <2>4. disk' \in Task /\ file' = TRUE /\ lock' \in LockHolder
    BY <2>1, <2>3, SaveResumeType
  <2> QED
    BY <1>2, <2>4 DEF TimerActivates, TypeInv, TypeOK, Launched, engine, clients, history
<1>4. CASE SendRequest
  <2>1. request' \subseteq Request
    BY <1>1, <1>4 DEF SendRequest, Request, NodeState, TypeInv, TypeOK
  <2> QED
    BY <1>4, <2>1 DEF SendRequest, TypeInv, TypeOK, Launched, saved, engine, history
<1>5. ASSUME NEW q \in request, NEW s \in NodeState, Accept(q, s),
             allowance' \in [Node -> Nat]
      PROVE  TypeInv'
  <2>1. q.n \in Node /\ q.k \in Nat
    BY DEF Request, TypeInv, TypeOK
  <2>2. [disk.ns EXCEPT ![q.n] = s] \in [Node -> NodeState]
    BY <1>1
  <2>3. disk' \in Task /\ file' = TRUE /\ lock' \in LockHolder
    BY <1>5, <2>2, SaveResumeType DEF Accept
  <2>4. <<q.n, q.k>> \in Node \X Nat
    BY <2>1
  <2>5. accepted' \subseteq Node \X Nat
    BY <1>5, <2>4 DEF Accept, TypeInv, TypeOK
  <2>6. request' \subseteq Request /\ acts' \in Nat
    BY <1>5 DEF Accept, TypeInv, TypeOK
  <2> QED
    BY <1>5, <2>3, <2>5, <2>6 DEF Accept, TypeInv, TypeOK, Launched, engine
<1>6. ASSUME NEW q \in request
      PROVE  ManualRetry(Failed(disk.ns[q.n])) \in NodeState
             /\ FailureSkip(Failed(disk.ns[q.n])) \in NodeState
  <2>1. q.n \in Node /\ "failed" \in NodeStatus /\ "skipped" \in NodeStatus
    BY DEF Request, NodeStatus, TypeInv, TypeOK
  <2>2. Failed(disk.ns[q.n]) \in NodeState
    BY <1>1, <2>1, StatusFacts DEF Failed
  <2> QED
    BY <2>1, <2>2, ManualRetryFacts, StatusFacts DEF FailureSkip
<1>7. ASSUME NEW q \in request, RetryNode(q)
      PROVE  TypeInv'
  <2>1. q.n \in Node /\ RetryBudget(q.n) \in Nat
    BY PolicyAssumption DEF RetryBudget, MAX_AUTO_RETRY_COUNT, Request, TypeInv, TypeOK
  <2>2. allowance' \in [Node -> Nat]
    <3>1. allowance[q.n] + RetryBudget(q.n) + 1 \in Nat
      BY <2>1 DEF TypeInv, TypeOK
    <3> HIDE DEF RetryBudget
    <3> QED
      BY <1>7, <2>1, <3>1 DEF RetryNode, TypeInv, TypeOK
  <2> QED
    BY <1>5, <1>6, <1>7, <2>2 DEF RetryNode
<1>8. ASSUME NEW q \in request, SkipNode(q)
      PROVE  TypeInv'
  <2>1. allowance' \in [Node -> Nat]
    BY <1>8 DEF SkipNode, TypeInv, TypeOK
  <2> QED
    BY <1>5, <1>6, <1>8, <2>1 DEF SkipNode
<1>9. ASSUME NEW q \in request, RejectRequest(q)
      PROVE  TypeInv'
  BY <1>9 DEF RejectRequest, TypeInv, TypeOK, Launched, saved, engine, history
<1> QED
  BY <1>2, <1>4, <1>7, <1>8, <1>9

\* Cancelling the runner keeps the types.
LEMMA CancelRunnerType ==
  ASSUME TypeInv, runner # "none", CancelRunner
  PROVE  /\ mem' \in [Runs -> Task] /\ disk' \in Task /\ file' \in BOOLEAN
         /\ worker' \in [Runs -> [Branch -> WorkerStatus]]
         /\ runner' \in RunnerStatus /\ swallowed' \in BOOLEAN
         /\ run' = run /\ stage' = stage
         /\ runner' # "none" => run' \in Runs
<1>1. run \in Runs /\ mem \in [Runs -> Task]
  BY DEF TypeInv, TypeOK, Launched
<1>2. "stopped" \in TaskStatus
  BY DEF TaskStatus
<1>3. CASE mem' = [mem EXCEPT ![run].st = "stopped"] /\ Save(mem'[run]) /\ runner' = "none"
           /\ worker' = [worker EXCEPT ![run] =
                           [b \in Branch |-> IF InStageTask(b) THEN "idle" ELSE @[b]]]
           /\ UNCHANGED <<run, stage, swallowed>>
  <2>1. mem' \in [Runs -> Task]
    BY <1>1, <1>2, <1>3, SetStatusFacts
  <2>2. disk' \in Task /\ file' = TRUE
    BY <1>1, <1>3, <2>1 DEF Save
  <2>3. worker' \in [Runs -> [Branch -> WorkerStatus]]
    BY <1>3 DEF TypeInv, TypeOK, WorkerStatus
  <2> QED
    BY <1>3, <2>1, <2>2, <2>3 DEF TypeInv, TypeOK, RunnerStatus
<1>4. CASE \/ /\ swallowed' = TRUE
              /\ UNCHANGED <<saved, run, mem, worker, runner, stage>>
           \/ /\ runner' = "none"
              /\ UNCHANGED <<saved, run, mem, worker, stage, swallowed>>
  BY <1>1, <1>4 DEF TypeInv, TypeOK, RunnerStatus, saved
<1> QED
  BY <1>3, <1>4 DEF CancelRunner

\* Stop, delete and graceful restart keep the types.
LEMMA CancellationType ==
  ASSUME TypeInv, Cancellation
  PROVE  TypeInv'
<1>1. ASSUME NEW holder \in LockHolder, CancelFor(holder), timer' \in BOOLEAN
      PROVE  TypeInv'
  BY <1>1, CancelRunnerType DEF CancelFor, TypeInv, TypeOK, Launched, clients, history
<1>2. CASE StopTask \/ DeleteTask \/ Shutdown
  <2>1. {"stop", "delete", "exit"} \subseteq LockHolder
    BY DEF LockHolder
  <2>2. timer' \in BOOLEAN
    BY <1>2 DEF StopTask, DeleteTask, Shutdown, TypeInv, TypeOK
  <2> QED
    BY <1>1, <1>2, <2>1, <2>2 DEF StopTask, DeleteTask, Shutdown
<1>3. MarkStopped => disk' \in Task /\ file' = TRUE
  <2>1. "stopped" \in TaskStatus
    BY DEF TaskStatus
  <2> QED
    BY <2>1, TaskUpdates DEF MarkStopped, Save, TypeInv, TypeOK
<1>4. CASE StopReturns
  <2>1. disk' \in Task /\ file' \in BOOLEAN
    BY <1>3, <1>4 DEF StopReturns, saved, TypeInv, TypeOK
  <2> QED
    BY <1>4, <2>1 DEF StopReturns, TypeInv, TypeOK, Launched, LockHolder, engine, clients, history
<1>5. CASE StopIdleTask
  <2>1. disk' \in Task /\ file' \in BOOLEAN /\ timer' \in BOOLEAN
    BY <1>3, <1>5 DEF StopIdleTask, TypeInv, TypeOK
  <2> QED
    BY <1>5, <2>1 DEF StopIdleTask, TypeInv, TypeOK, Launched, engine, clients, history
<1>6. CASE DeleteIdleTask
  BY <1>6 DEF DeleteIdleTask, TypeInv, TypeOK, Launched, engine, clients, history
<1>7. CASE DeleteReturns
  BY <1>7 DEF DeleteReturns, TypeInv, TypeOK, Launched, LockHolder, engine, clients, history
<1>8. CASE ShutdownIdle
  <2>1. worker' \in [Runs -> [Branch -> WorkerStatus]] /\ exits' \in Nat
    BY <1>8 DEF ShutdownIdle, ProcessGone, WorkerStatus, TypeInv, TypeOK
  <2> QED
    BY <1>8, <2>1 DEF ShutdownIdle, ProcessGone, TypeInv, TypeOK, Launched, LockHolder,
                     RunnerStatus, saved, history
<1> QED
  BY <1>2, <1>4, <1>5, <1>6, <1>7, <1>8 DEF Cancellation

\* A crash and the recovery that follows it keep the types.
LEMMA RestartType ==
  ASSUME TypeInv, Crash \/ Restart
  PROVE  TypeInv'
<1>1. CASE Crash
  <2>1. worker' \in [Runs -> [Branch -> WorkerStatus]] /\ exits' \in Nat
    BY <1>1 DEF Crash, ProcessGone, WorkerStatus, TypeInv, TypeOK
  <2> QED
    BY <1>1, <2>1 DEF Crash, ProcessGone, TypeInv, TypeOK, Launched, LockHolder,
                     RunnerStatus, saved, history
<1>2. CASE Restart
  <2>1. Recovered \in [Node -> NodeState]
    BY RecoverNodeFacts DEF Recovered, TypeInv, TypeOK, Task
  <2>2. \A v \in TaskStatus : [st |-> v, ns |-> Recovered] \in Task
    BY <2>1 DEF Task
  <2>3. disk' \in Task /\ file' \in BOOLEAN /\ timer' \in BOOLEAN /\ lock' \in LockHolder
    <3>1. RecoverTask
      BY <1>2 DEF Restart
    <3>2. CASE UNCHANGED <<saved, timer, lock>>
      BY <3>2 DEF saved, TypeInv, TypeOK
    <3>3. CASE Save([st |-> "retry_waiting", ns |-> Recovered]) /\ timer' = TRUE /\ UNCHANGED lock
      BY <3>3, <2>2 DEF Save, TaskStatus, TypeInv, TypeOK
    <3>4. CASE Save([st |-> "failed", ns |-> Recovered]) /\ UNCHANGED <<timer, lock>>
      BY <3>4, <2>2 DEF Save, TaskStatus, TypeInv, TypeOK
    <3>5. CASE SaveResume(Recovered) /\ UNCHANGED timer
      BY <3>5, <2>1, SaveResumeType DEF TypeInv, TypeOK
    <3> QED
      BY <3>1, <3>2, <3>3, <3>4, <3>5 DEF RecoverTask
  <2>4. allowance' \in [Node -> Nat]
    BY <1>2 DEF Restart, TypeInv, TypeOK
  <2> QED
    BY <1>2, <2>3, <2>4 DEF Restart, TypeInv, TypeOK, Launched, engine, clients
<1> QED
  BY <1>1, <1>2

\* One step of the whole system.
LEMMA NextTypeInv == TypeInv /\ [Next]_vars => TypeInv'
<1> SUFFICES ASSUME TypeInv, [Next]_vars PROVE TypeInv'
  OBVIOUS
<1>1. CASE UNCHANGED vars
  BY <1>1 DEF vars, saved, engine, clients, history, TypeInv, TypeOK, Launched
<1>2. CASE System
  BY <1>2, WorkType, RunnerType, ControlType, RestartType DEF System
<1>3. CASE Environment
  BY <1>3, WorkType, RunnerType, ControlType, RestartType DEF Environment
<1>4. CASE Cancellation
  BY <1>4, CancellationType
<1> QED
  BY <1>1, <1>2, <1>3, <1>4 DEF Next

\* For every plan, budget and bound, through cancellation, crashes and
\* recovery, the Task file, the objects in memory and the control state of the
\* process hold values of their types, and a runner has an object to work on.
THEOREM TypeCorrect == Spec => [](TypeOK /\ Launched)
<1>1. Init => TypeInv
  BY InitTypeInv
<1>2. TypeInv /\ [Next]_vars => TypeInv'
  BY NextTypeInv
<1> QED
  BY <1>1, <1>2, PTL DEF Spec, TypeInv

-----------------------------------------------------------------------------

\* The steps these results are about.
SafeNext == Uncancelled \/ (Gateway = {} /\ Cancellation)

-----------------------------------------------------------------------------
(***************************************************************************)
(* The inductive invariant.                                                *)
(***************************************************************************)
\* Where the process is: who works, on which object, under which status.
Owned ==
  \A r \in Runs, b \in Branch :
    worker[r][b] \in Active => r = run /\ runner = "stage" /\ StageOf[b] = stage

Mirror == runner # "none" => file /\ mem[run].ns = disk.ns

Announced ==
  /\ runner \in {"starting", "stage", "merging"} => mem[run].st = "running"
  /\ runner \in {"starting", "stage", "merging", "finalizing"} => disk.st = "running"

Control ==
  /\ ~swallowed
  /\ ~up => runner = "none"
  /\ Owned /\ Mirror /\ Announced

\* A node mid-attempt has a branch task at it, unless the process died in the
\* attempt, or the task ended with it.
Busy      == {"exec", "waiting"}
MidStatus == {"running", "waiting_approval"}

Attended ==
  \A n \in Node :
    /\ runner = "stage" /\ worker[run][BranchOf[n]] \in Busy /\ AtNode(run, n) =>
         disk.ns[n].st = (IF worker[run][BranchOf[n]] = "exec"
                          THEN "running" ELSE "waiting_approval")
    /\ disk.ns[n].st \in MidStatus =>
         \/ runner = "stage" /\ worker[run][BranchOf[n]] \in Busy /\ AtNode(run, n)
         \/ ~up /\ disk.st \in Recoverable
         \/ disk.st = "stopped"
         \/ ~file

\* What the file says of a node against the history of its executions: what is
\* still owed, an attempt that will come (Owed) and the retries of the budget,
\* fits the allowance; an accepted request named an attempt that is over.
Owed(s) == IF s.st \in {"pending", "retry_waiting"} THEN 1 ELSE 0

Attempted == {"running", "waiting_approval", "failed", "retry_waiting"}

Balanced(n, s, executed, allowed, acted) ==
  /\ s.att = executed
  /\ s.st \in MidStatus => s.att >= 1
  /\ s.auto <= RetryBudget(n)
  /\ executed + (RetryBudget(n) - s.auto) + Owed(s) <= allowed
  /\ \A x \in acted : x[1] = n =>
       x[2] <= s.att /\ (s.st \in Attempted => x[2] < s.att)

Ledger == \A n \in Node : Balanced(n, disk.ns[n], execs[n], allowance[n], accepted)

SafeInv == TypeInv /\ Control /\ Attended /\ Ledger

-----------------------------------------------------------------------------
(***************************************************************************)
(* Steps of branch tasks.                                                  *)
(***************************************************************************)
\* What the end of an attempt makes of the node state and of the branch task.
Ending(n, old, from, s, w) ==
  \/ from \in Busy /\ s = Succeeded(old) /\ w = "ready"
  \/ /\ from \in Busy /\ s = AfterFailure(n, Failed(old))
     /\ w \in {"retry_waiting", "ready", "failed"} /\ (w # "ready" => s.st = w)
  \/ from = "exec" /\ s = [old EXCEPT !.st = "waiting_approval"] /\ w = "waiting"
  \/ from = "waiting" /\ s = Failed(old) /\ w = "failed"

WorkOrAnswer == Work \/ \E r \in Runs, n \in Node : Approve(r, n) \/ Reject(r, n)

\* A branch task starts a node, ends one, or only leaves its sequence.
LEMMA WorkForms ==
  ASSUME TypeInv, WorkOrAnswer
  PROVE  \/ \E r \in Runs, n \in Node : StartNode(r, n) \/ Blocked(r, n)
         \/ \E r \in Runs, b \in Branch : FinishBranch(r, b)
         \/ \E r \in Runs, n \in Node : \E from, s, w :
              EndNode(r, n, from, s, w) /\ Ending(n, mem[r].ns[n], from, s, w)
<1>1. ASSUME NEW r \in Runs, NEW n \in Node, NEW from \in Busy, FailNode(r, n, from)
      PROVE  \E s, w : EndNode(r, n, from, s, w) /\ Ending(n, mem[r].ns[n], from, s, w)
  <2>0. mem[r].ns[n] \in NodeState /\ "failed" \in NodeStatus
    BY DEF TypeInv, TypeOK, Task, NodeStatus
  <2> DEFINE s == AfterFailure(n, Failed(mem[r].ns[n]))
             w == CASE s.st = "retry_waiting" -> "retry_waiting"
                    [] s.st = "skipped"       -> "ready"
                    [] OTHER                  -> "failed"
  <2>1. EndNode(r, n, from, s, w)
    BY <1>1 DEF FailNode
  <2>2. w \in {"retry_waiting", "ready", "failed"} /\ (w # "ready" => s.st = w)
    <3>1. Failed(mem[r].ns[n]) \in NodeState /\ Failed(mem[r].ns[n]).st = "failed"
      BY <2>0, StatusFacts DEF Failed
    <3>2. s.st \in {"retry_waiting", "skipped", "failed"}
      BY <3>1, AfterFailureFacts
    <3> QED
      BY <3>2
  <2>3. Ending(n, mem[r].ns[n], from, s, w)
    BY <2>2 DEF Ending
  <2> QED
    BY <2>1, <2>3
<1>2. "exec" \in Busy /\ "waiting" \in Busy
  BY DEF Busy
<1>3. ASSUME NEW r \in Runs, NEW n \in Node,
             \/ NodeSucceeds(r, n) \/ NodeFails(r, n) \/ AwaitApproval(r, n)
             \/ ApprovalFails(r, n) \/ Approve(r, n) \/ Reject(r, n)
      PROVE  \E from, s, w :
               EndNode(r, n, from, s, w) /\ Ending(n, mem[r].ns[n], from, s, w)
  <2>1. CASE NodeFails(r, n) \/ ApprovalFails(r, n)
    BY <2>1, <1>1, <1>2 DEF NodeFails, ApprovalFails
  <2>2. CASE NodeSucceeds(r, n)
    BY <2>2, <1>2 DEF NodeSucceeds, Ending
  <2>3. CASE AwaitApproval(r, n)
    BY <2>3 DEF AwaitApproval, Ending
  <2>4. CASE Approve(r, n)
    BY <2>4, <1>2 DEF Approve, Ending
  <2>5. CASE Reject(r, n)
    BY <2>5 DEF Reject, Ending
  <2> QED
    BY <1>3, <2>1, <2>2, <2>3, <2>4, <2>5
<1> QED
  BY <1>3 DEF WorkOrAnswer, Work

\* A node has one position: two nodes a branch is at are the same node.
LEMMA OneAtATime ==
  ASSUME NEW r, NEW m \in Node, NEW n \in Node,
         BranchOf[m] = BranchOf[n], AtNode(r, m), AtNode(r, n)
  PROVE  m = n
<1>1. Pos[m] \in Nat /\ Pos[n] \in Nat
  BY PlanAssumption
<1>2. ~(Pos[m] < Pos[n]) /\ ~(Pos[n] < Pos[m])
  BY DEF AtNode, Nodes
<1> QED
  BY <1>1, <1>2, PlanAssumption

\* Only the branch tasks of the current step of the current launch are at work,
\* so what they save is what the runner knows.
LEMMA NodeSaved ==
  ASSUME TypeInv, Control, NEW r \in Runs, NEW n \in Node, NEW s \in NodeState,
         NEW w \in WorkerStatus, worker[r][BranchOf[n]] \in Active,
         SetNode(r, n, s), SetWorker(r, BranchOf[n], w),
         UNCHANGED <<up, run, runner, stage, swallowed>>
  PROVE  /\ Control'
         /\ r = run /\ runner = "stage" /\ StageOf[BranchOf[n]] = stage
         /\ mem[run].ns = disk.ns
         /\ disk'.ns[n] = s /\ \A m \in Node \ {n} : disk'.ns[m] = disk.ns[m]
         /\ mem'[run].ns = disk'.ns /\ disk'.st = "running" /\ file' = TRUE
<1>1. BranchOf[n] \in Branch
  BY PlanAssumption
<1>2. r = run /\ runner = "stage" /\ StageOf[BranchOf[n]] = stage
  BY <1>1 DEF Control, Owned
<1>3. mem[run].ns = disk.ns /\ mem[run].st = "running"
  BY <1>2 DEF Control, Mirror, Announced
<1>0. mem \in [Runs -> Task]
  BY DEF TypeInv, TypeOK
<1>4. /\ mem' = [mem EXCEPT ![r] = disk'] /\ file' = TRUE
      /\ disk'.st = mem[r].st /\ disk'.ns[n] = s
      /\ \A m \in Node \ {n} : disk'.ns[m] = mem[r].ns[m]
  BY <1>0, SetNodeFacts
<1>5. mem'[run] = disk'
  BY <1>0, <1>2, <1>4
<1>6. Owned'
  BY <1>2 DEF Control, Owned, SetWorker, TypeInv, TypeOK
<1>7. Mirror' /\ Announced'
  BY <1>2, <1>3, <1>4, <1>5 DEF Mirror, Announced
<1> QED
  BY <1>2, <1>3, <1>4, <1>5, <1>6, <1>7 DEF Control

-----------------------------------------------------------------------------
(***************************************************************************)
(* Steps of the runner.                                                    *)
(***************************************************************************)
Nobody == \A r \in Runs, b \in Branch : worker[r][b] \notin Active

\* Outside a plan step no branch task is at work.
LEMMA NobodyOutsideStage == Owned /\ runner # "stage" => Nobody
BY DEF Owned, Nobody

\* A step is left when every branch task of it has returned: nobody is at work.
LEMMA StageDone ==
  ASSUME Control, runner = "stage", NEW S \in SUBSET Branches(stage), Collected(S)
  PROVE  Nobody
<1>1. S = Branches(stage) /\ Joined(S) \subseteq Outcome
  BY DEF Control, Collected
<1>2. \A b \in Branch : StageOf[b] = stage => worker[run][b] \in Outcome
  BY <1>1 DEF Joined, Branches
<1>3. Outcome \cap Active = {}
  BY DEF Outcome, Active
<1> QED
  BY <1>2, <1>3 DEF Control, Owned, Nobody

LEMMA EnterStageControl ==
  ASSUME TypeInv, run \in Runs, Nobody, NEW s \in Stage, EnterStage(s), run' = run
  PROVE  Owned' /\ runner' = "stage"
<1>1. \A b \in Branch : worker'[run][b] \in Active => StageOf[b] = s
  BY DEF EnterStage, Nobody, TypeInv, TypeOK
<1>2. \A r \in Runs, b \in Branch : r # run => worker'[r][b] = worker[r][b]
  BY DEF EnterStage, TypeInv, TypeOK
<1> QED
  BY <1>1, <1>2 DEF EnterStage, Nobody, Owned

\* The outcome of the plan changes the status of the object, nothing else.
LEMMA EndPlanControl ==
  ASSUME TypeInv, run \in Runs, Nobody, NEW v \in TaskStatus, EndPlan(v), run' = run
  PROVE  Owned' /\ runner' = "finalizing" /\ mem'[run].ns = mem[run].ns
<1>1. mem'[run].ns = mem[run].ns
  BY SetStatusFacts DEF EndPlan, TypeInv, TypeOK
<1> QED
  BY <1>1 DEF EndPlan, Nobody, Owned

LEMMA NextStageControl ==
  ASSUME TypeInv, run \in Runs, Nobody, NextStage, run' = run
  PROVE  /\ Owned' /\ mem'[run].ns = mem[run].ns
         /\ runner' = "finalizing" \/ (runner' = "stage" /\ mem' = mem)
<1>1. CASE stage = LastStage
  <2>1. "completed" \in TaskStatus
    BY DEF TaskStatus
  <2> QED
    BY <1>1, <2>1, EndPlanControl DEF NextStage
<1>2. CASE stage # LastStage
  <2>1. stage + 1 \in Stage
    BY <1>2, PlanAssumption DEF Stage, TypeInv, TypeOK
  <2> QED
    BY <1>2, <2>1, EnterStageControl DEF NextStage
<1> QED
  BY <1>1, <1>2

RunnerStep ==
  \/ RunTask \/ HandOff \/ StartRunner \/ FinishStage \/ Merge \/ Persist \/ Release
  \/ Refused \/ StartFails \/ PlanFails

\* The plan fails between two steps only, when nobody is at work.
LEMMA PlanFailsIdle == Owned /\ PlanFails => Nobody
<1> SUFFICES ASSUME Owned, PlanFails PROVE Nobody
  OBVIOUS
<1>1. CASE runner # "stage"
  BY <1>1, NobodyOutsideStage
<1>2. CASE \A b \in Branches(stage) : worker[run][b] = "completed"
  BY <1>2 DEF Owned, Nobody, Branches, Active
<1> QED
  BY <1>1, <1>2 DEF PlanFails

\* The runner announces what it does and saves only what the file says already.
LEMMA RunnerControl ==
  ASSUME TypeInv, Control, RunnerStep
  PROVE  /\ Control' /\ disk'.ns = disk.ns
<1>1. mem \in [Runs -> Task] /\ disk \in Task
  BY DEF TypeInv, TypeOK
<1>2. runner # "none" => run \in Runs /\ mem[run].ns = disk.ns /\ file
  BY DEF TypeInv, Launched, Control, Mirror
<1>3. runner # "stage" => Nobody
  BY NobodyOutsideStage DEF Control
<1>4. CASE RunTask \/ HandOff
  <2>1. Launch /\ up
    BY <1>4 DEF RunTask, HandOff, LoopRuns
  <2>2. run' = run + 1 /\ run + 1 \in Runs /\ runner = "none" /\ runner' = "starting"
    BY <2>1, BoundAssumption DEF Launch, TypeInv, TypeOK
  <2>3. disk'.st = "running" /\ disk'.ns = disk.ns /\ file'
    <3>1. "running" \in TaskStatus
      BY DEF TaskStatus
    <3> QED
      BY <2>1, <3>1, <1>1, TaskUpdates DEF Launch, Save
  <2>4. mem'[run'] = disk'
    BY <2>1, <2>2, <1>1 DEF Launch
  <2>5. Owned'
    BY <2>1, <2>2, <1>3 DEF Launch, Nobody, Owned
  <2> QED
    BY <2>1, <2>2, <2>3, <2>4, <2>5 DEF Launch, Control, Mirror, Announced
<1>5. CASE StartRunner
  <2>1. 1 \in Stage /\ runner = "starting" /\ EnterStage(1)
    BY <1>5, PlanAssumption DEF StartRunner, Stage
  <2>2. Owned' /\ runner' = "stage"
    BY <1>2, <1>3, <1>5, <2>1, EnterStageControl DEF StartRunner
  <2> QED
    BY <1>2, <1>5, <2>1, <2>2 DEF StartRunner, Control, Mirror, Announced, saved
<1>6. CASE FinishStage
  <2>1. runner = "stage" /\ UNCHANGED <<saved, up, run>> /\ swallowed' = FALSE
    BY <1>6 DEF FinishStage
  <2>2. Nobody
    BY <1>6, StageDone DEF FinishStage
  <2>3. PICK v \in Outcome :
          \/ v # "completed" /\ EndPlan(v)
          \/ /\ v = "completed" /\ stage \in Gateway
             /\ runner' = "merging" /\ UNCHANGED <<stage, mem, worker>>
          \/ v = "completed" /\ stage \notin Gateway /\ NextStage
    BY <1>6, StageOutcomeType DEF FinishStage
  <2>4. v \in TaskStatus
    BY DEF Outcome, TaskStatus
  <2>5. /\ Owned' /\ mem'[run].ns = mem[run].ns
        /\ runner' = "finalizing" \/ (runner' \in {"stage", "merging"} /\ mem' = mem)
    <3>1. CASE EndPlan(v)
      BY <3>1, <1>2, <2>1, <2>2, <2>4, EndPlanControl
    <3>2. CASE runner' = "merging" /\ UNCHANGED <<stage, mem, worker>>
      BY <3>2, <2>1, <2>2 DEF Nobody, Owned
    <3>3. CASE NextStage
      BY <3>3, <1>2, <2>1, <2>2, NextStageControl
    <3> QED
      BY <2>3, <3>1, <3>2, <3>3
  <2> QED
    BY <1>2, <2>1, <2>5 DEF Control, Mirror, Announced, saved
<1>7. CASE Merge
  <2>1. runner = "merging" /\ UNCHANGED <<up, run, swallowed>> /\ NextStage
    BY <1>7 DEF Merge
  <2>2. /\ Owned' /\ mem'[run].ns = mem[run].ns
        /\ runner' = "finalizing" \/ (runner' = "stage" /\ mem' = mem)
    BY <1>2, <1>3, <2>1, NextStageControl
  <2>3. disk'.ns = disk.ns /\ disk'.st = "running" /\ file'
    <3>1. mem[run].st = "running" /\ disk.st = "running"
      BY <2>1 DEF Control, Announced
    <3>2. CASE UNCHANGED saved
      BY <1>2, <2>1, <3>1, <3>2 DEF saved
    <3>3. CASE Save(mem[run])
      BY <1>2, <2>1, <3>1, <3>3 DEF Save
    <3> QED
      BY <1>7, <3>2, <3>3 DEF Merge
  <2> QED
    BY <1>2, <2>1, <2>2, <2>3 DEF Control, Mirror, Announced
<1>8. CASE Persist
  <2>1. /\ runner = "finalizing" /\ runner' \in {"none", "releasing"} /\ disk' = mem[run]
        /\ file' /\ UNCHANGED <<up, run, mem, worker, stage, swallowed>>
    BY <1>8 DEF Persist, Save
  <2>2. Owned'
    BY <1>3, <2>1 DEF Nobody, Owned
  <2> QED
    BY <1>2, <2>1, <2>2 DEF Control, Mirror, Announced
<1>9. CASE Release
  <2>1. Owned'
    BY <1>3, <1>9 DEF Release, Nobody, Owned
  <2> QED
    BY <1>9, <2>1 DEF Release, Control, Mirror, Announced, saved
<1>10. CASE Refused
  BY <1>10 DEF Refused, Control, Owned, Mirror, Announced, saved, engine
<1>11. CASE StartFails
  <2>1. /\ runner = "starting" /\ runner' = "releasing" /\ "failed" \in TaskStatus
        /\ UNCHANGED <<up, run, worker, stage, swallowed>>
    BY <1>11 DEF StartFails, TaskStatus
  <2>2. mem'[run].ns = mem[run].ns
    BY <1>1, <1>2, <1>11, <2>1, SetStatusFacts DEF StartFails
  <2>3. file' /\ disk' = mem'[run]
    BY <1>11 DEF StartFails, Save
  <2>4. Owned'
    BY <1>3, <2>1 DEF Nobody, Owned
  <2> QED
    BY <1>2, <2>1, <2>2, <2>3, <2>4 DEF Control, Mirror, Announced
<1>12. CASE PlanFails
  <2>1. /\ runner \in {"starting", "stage", "merging"} /\ EndPlan("failed") /\ Nobody
        /\ "failed" \in TaskStatus /\ UNCHANGED <<saved, up, run, swallowed>>
    BY <1>12, PlanFailsIdle DEF PlanFails, TaskStatus, Control
  <2>2. Owned' /\ runner' = "finalizing" /\ mem'[run].ns = mem[run].ns
    BY <1>2, <2>1, EndPlanControl
  <2> QED
    BY <1>2, <2>1, <2>2 DEF Control, Mirror, Announced, saved
<1> QED
  BY <1>4, <1>5, <1>6, <1>7, <1>8, <1>9, <1>10, <1>11, <1>12 DEF RunnerStep

-----------------------------------------------------------------------------
(***************************************************************************)
(* Steps between launches: timer, requests, exits and cancellation.        *)
(***************************************************************************)
ClientStep == SendRequest \/ \E q \in request : RetryNode(q) \/ SkipNode(q) \/ RejectRequest(q)

\* Without a runner, whatever is saved cannot contradict one.
LEMMA IdleControl ==
  ASSUME Control, runner = "none", UNCHANGED engine
  PROVE  Control'
BY DEF engine, Control, Owned, Mirror, Announced

LEMMA CrashControl ==
  ASSUME TypeInv, Control, ProcessGone
  PROVE  Control'
<1>1. \A r \in Runs, b \in Branch : worker'[r][b] = "idle"
  BY DEF ProcessGone
<1> QED
  BY <1>1 DEF ProcessGone, Control, Owned, Mirror, Announced, Active

LEMMA BetweenControl ==
  ASSUME TypeInv, Control, TimerActivates \/ ClientStep \/ Restart \/ Crash
  PROVE  Control'
<1>1. CASE UNCHANGED <<up, saved, engine>>
  BY <1>1 DEF saved, engine, Control, Owned, Mirror, Announced
<1>2. CASE SendRequest \/ \E q \in request : RejectRequest(q)
  BY <1>1, <1>2 DEF SendRequest, RejectRequest
<1>3. CASE TimerActivates \/ \E q \in request : RetryNode(q) \/ SkipNode(q)
  <2>1. runner = "none" /\ UNCHANGED engine
    BY <1>3 DEF TimerActivates, RetryNode, SkipNode, Accept, Valid
  <2> QED
    BY <2>1, IdleControl
<1>4. CASE Restart
  <2>1. runner = "none" /\ UNCHANGED engine
    BY <1>4 DEF Restart, Control
  <2> QED
    BY <2>1, IdleControl
<1>5. CASE Crash
  BY <1>5, CrashControl DEF Crash
<1> QED
  BY <1>2, <1>3, <1>4, <1>5 DEF ClientStep

\* A runner without gateways that is cancelled is gone, and so is the branch
\* task it was executing; it saved stopped or nothing.
LEMMA CancelledRunner ==
  ASSUME TypeInv, Control, Gateway = {}, runner # "none", CancelRunner
  PROVE  /\ runner' = "none" /\ ~swallowed' /\ Nobody'
         /\ run' = run /\ stage' = stage /\ disk'.ns = disk.ns
         /\ \/ disk'.st = "stopped"
            \/ UNCHANGED saved /\ runner # "stage"
<1>1. run \in Runs /\ mem[run].ns = disk.ns /\ mem \in [Runs -> Task] /\ stage \notin Gateway
  BY DEF TypeInv, TypeOK, Launched, Control, Mirror
<1>2. CASE /\ mem' = [mem EXCEPT ![run].st = "stopped"] /\ Save(mem'[run]) /\ runner' = "none"
           /\ worker' = [worker EXCEPT ![run] =
                           [b \in Branch |-> IF InStageTask(b) THEN "idle" ELSE @[b]]]
           /\ UNCHANGED <<run, stage, swallowed>>
  <2>1. "stopped" \in TaskStatus
    BY DEF TaskStatus
  <2>2. disk'.ns = disk.ns /\ disk'.st = "stopped"
    BY <1>1, <1>2, <2>1, SetStatusFacts DEF Save
  <2>3. \A r \in Runs, b \in Branch : r # run => worker'[r][b] = worker[r][b]
    BY <1>2 DEF TypeInv, TypeOK
  <2>4. \A b \in Branch : worker'[run][b] = IF InStageTask(b) THEN "idle" ELSE worker[run][b]
    BY <1>1, <1>2 DEF TypeInv, TypeOK
  <2>5. Nobody'
    BY <2>3, <2>4 DEF Nobody, Control, Owned, InStageTask, Active
  <2> QED
    BY <1>2, <2>2, <2>5 DEF Control
<1>3. CASE runner \in {"starting", "releasing"} /\ runner' = "none"
           /\ UNCHANGED <<saved, run, mem, worker, stage, swallowed>>
  <2>1. Nobody
    BY <1>3, NobodyOutsideStage DEF Control
  <2> QED
    BY <1>3, <2>1 DEF Nobody, Control, saved
<1> QED
  BY <1>1, <1>2, <1>3 DEF CancelRunner

\* Stop, delete and graceful restart leave no runner and no branch task behind,
\* whatever they save of the status.
LEMMA CancellationControl ==
  ASSUME TypeInv, Control, Gateway = {}, Cancellation
  PROVE  /\ Control' /\ runner' = "none" /\ disk'.ns = disk.ns
         /\ \/ disk'.st = "stopped" \/ ~file'
            \/ UNCHANGED saved /\ runner # "stage" /\ up
<1>1. ASSUME NEW holder, CancelFor(holder)
      PROVE  /\ Control' /\ runner' = "none" /\ disk'.ns = disk.ns
             /\ \/ disk'.st = "stopped"
                \/ UNCHANGED saved /\ runner # "stage" /\ up
  <2>1. /\ runner' = "none" /\ ~swallowed' /\ Nobody' /\ disk'.ns = disk.ns
        /\ \/ disk'.st = "stopped"
           \/ UNCHANGED saved /\ runner # "stage"
    BY <1>1, CancelledRunner DEF CancelFor
  <2>2. Owned'
    BY <2>1 DEF Owned, Nobody
  <2> QED
    BY <1>1, <2>1, <2>2 DEF CancelFor, Control, Mirror, Announced
<1>2. CASE StopTask \/ DeleteTask \/ Shutdown
  BY <1>1, <1>2 DEF StopTask, DeleteTask, Shutdown
<1>3. MarkStopped => disk'.ns = disk.ns /\ disk'.st = "stopped"
  <2>1. "stopped" \in TaskStatus /\ disk \in Task
    BY DEF TaskStatus, TypeInv, TypeOK
  <2> QED
    BY <2>1, TaskUpdates DEF MarkStopped, Save
<1>4. CASE StopReturns \/ StopIdleTask \/ DeleteIdleTask \/ DeleteReturns
  <2>1. runner = "none" /\ UNCHANGED engine /\ up
    BY <1>4 DEF StopReturns, StopIdleTask, DeleteIdleTask, DeleteReturns
  <2>2. Control' /\ runner' = "none"
    BY <2>1, IdleControl DEF engine
  <2>3. MarkStopped \/ UNCHANGED saved \/ (file' = FALSE /\ UNCHANGED disk)
    BY <1>4 DEF StopReturns, StopIdleTask, DeleteIdleTask, DeleteReturns
  <2> QED
    BY <1>3, <2>1, <2>2, <2>3 DEF saved
<1>5. CASE ShutdownIdle
  <2>1. ProcessGone /\ runner = "none" /\ up /\ UNCHANGED saved
    BY <1>5 DEF ShutdownIdle
  <2>2. Control' /\ runner' = "none"
    BY <2>1, CrashControl DEF ProcessGone
  <2> QED
    BY <2>1, <2>2 DEF saved
<1> QED
  BY <1>2, <1>4, <1>5 DEF Cancellation

-----------------------------------------------------------------------------
(***************************************************************************)
(* Nodes mid-attempt are attended.                                         *)
(***************************************************************************)
NoMid == \A n \in Node : disk.ns[n].st \notin MidStatus

Idle == runner = "stage" => Nobody

LEMMA NoMidWhenIdle ==
  ASSUME TypeInv, Attended, up, file, disk.st # "stopped", Idle
  PROVE  NoMid
<1>1. \A n \in Node : BranchOf[n] \in Branch
  BY PlanAssumption
<1>2. Busy \subseteq Active
  BY DEF Busy, Active
<1>3. runner = "stage" => run \in Runs
  BY DEF TypeInv, Launched
<1> QED
  BY <1>1, <1>2, <1>3 DEF NoMid, Idle, Nobody, Attended

\* Entering a step leaves every branch task before its first node.
LEMMA EnterStageReady ==
  ASSUME TypeInv, run \in Runs, Nobody, NEW s, EnterStage(s)
  PROVE  \A b \in Branch : worker'[run][b] \notin Busy
<1>1. Busy \subseteq Active /\ "ready" \notin Busy
  BY DEF Busy, Active
<1> QED
  BY <1>1 DEF EnterStage, Nobody, TypeInv, TypeOK

NotBusy == runner = "stage" => \A b \in Branch : worker[run][b] \notin Busy

LEMMA NextStageReady ==
  ASSUME TypeInv, run \in Runs, Nobody, NextStage, run' = run
  PROVE  NotBusy'
<1>1. CASE stage = LastStage
  BY <1>1 DEF NextStage, EndPlan, NotBusy
<1>2. CASE stage # LastStage
  BY <1>2, EnterStageReady DEF NextStage, NotBusy
<1> QED
  BY <1>1, <1>2

LEMMA QuietAttended == NoMid' /\ NotBusy' => Attended'
<1>1. \A n \in Node : BranchOf[n] \in Branch
  BY PlanAssumption
<1> QED
  BY <1>1 DEF NoMid, NotBusy, Attended

\* No step of the runner changes a node; none is mid-attempt when it works.
LEMMA RunnerAttended ==
  ASSUME TypeInv, Control, Attended, RunnerStep
  PROVE  Attended'
<1>1. disk'.ns = disk.ns
  BY RunnerControl
<1>2. NoMid => NoMid'
  BY <1>1 DEF NoMid
<1>3. runner # "none" => run \in Runs /\ up /\ file
  BY DEF TypeInv, Launched, Control, Mirror
<1>4. runner # "stage" => Nobody
  BY NobodyOutsideStage DEF Control
<1>5. ASSUME runner \in {"starting", "stage", "merging", "finalizing"}, Nobody
      PROVE  NoMid
  BY <1>3, <1>5, NoMidWhenIdle DEF Idle, Control, Announced
<1>6. CASE RunTask \/ HandOff
  <2>1. up /\ file /\ disk.st # "stopped" /\ runner = "none" /\ runner' = "starting"
    BY <1>6 DEF RunTask, HandOff, LoopRuns, Launch
  <2> QED
    BY <1>2, <1>4, <2>1, NoMidWhenIdle, QuietAttended DEF Idle, NotBusy
<1>7. CASE StartRunner
  <2>1. runner = "starting" /\ EnterStage(1) /\ run' = run
    BY <1>7 DEF StartRunner
  <2>2. NotBusy'
    BY <1>3, <1>4, <2>1, EnterStageReady DEF NotBusy
  <2> QED
    BY <1>2, <1>4, <1>5, <2>1, <2>2, QuietAttended
<1>8. CASE FinishStage
  <2>1. runner = "stage" /\ run' = run
    BY <1>8 DEF FinishStage
  <2>2. Nobody
    BY <1>8, StageDone DEF FinishStage
  <2>3. PICK v :
          \/ v # "completed" /\ EndPlan(v)
          \/ /\ v = "completed" /\ stage \in Gateway
             /\ runner' = "merging" /\ UNCHANGED <<stage, mem, worker>>
          \/ v = "completed" /\ stage \notin Gateway /\ NextStage
    BY <1>8 DEF FinishStage
  <2>4. NotBusy'
    <3>1. CASE EndPlan(v) \/ runner' = "merging"
      BY <3>1 DEF EndPlan, NotBusy
    <3>2. CASE NextStage
      BY <3>2, <1>3, <2>1, <2>2, NextStageReady
    <3> QED
      BY <2>3, <3>1, <3>2
  <2> QED
    BY <1>2, <1>5, <2>1, <2>2, <2>4, QuietAttended
<1>9. CASE Merge
  <2>1. runner = "merging" /\ run' = run /\ NextStage
    BY <1>9 DEF Merge
  <2>2. NotBusy'
    BY <1>3, <1>4, <2>1, NextStageReady
  <2> QED
    BY <1>2, <1>4, <1>5, <2>1, <2>2, QuietAttended
<1>10. CASE Persist
  <2>1. runner = "finalizing" /\ runner' # "stage"
    BY <1>10 DEF Persist
  <2> QED
    BY <1>2, <1>4, <1>5, <2>1, QuietAttended DEF NotBusy
<1>11. CASE Release
  BY <1>11 DEF Release, saved, Attended
<1>12. CASE Refused
  BY <1>12 DEF Refused, saved, engine, Attended, AtNode
<1>13. CASE StartFails
  <2>1. runner = "starting" /\ runner' # "stage"
    BY <1>13 DEF StartFails
  <2> QED
    BY <1>2, <1>4, <1>5, <2>1, QuietAttended DEF NotBusy
<1>14. CASE PlanFails
  <2>1. runner \in {"starting", "stage", "merging"} /\ runner' # "stage" /\ Nobody
    BY <1>14, PlanFailsIdle DEF PlanFails, EndPlan, Control
  <2> QED
    BY <1>2, <1>5, <2>1, QuietAttended DEF NotBusy
<1> QED
  BY <1>6, <1>7, <1>8, <1>9, <1>10, <1>11, <1>12, <1>13, <1>14 DEF RunnerStep

\* A step of a branch task at node n concerns no other node: in its branch no
\* other is mid-attempt, and other branches do not see it.
LEMMA NodeAttended ==
  ASSUME TypeInv, Control, Attended, NEW r \in Runs, NEW n \in Node,
         NEW s \in NodeState, NEW w \in WorkerStatus,
         up, worker[r][BranchOf[n]] \in Active, AtNode(r, n),
         SetNode(r, n, s), SetWorker(r, BranchOf[n], w),
         UNCHANGED <<up, run, runner, stage, swallowed>>,
         w \in Busy => s.st = (IF w = "exec" THEN "running" ELSE "waiting_approval"),
         s.st \in MidStatus => w \in Busy
  PROVE  Attended'
<1>1. /\ r = run /\ runner = "stage" /\ mem[run].ns = disk.ns
      /\ disk'.ns[n] = s /\ \A m \in Node \ {n} : disk'.ns[m] = disk.ns[m]
      /\ mem'[run].ns = disk'.ns
  BY NodeSaved
<1>2. \A m \in Node : BranchOf[m] \in Branch
  BY PlanAssumption
<1>3. \A b \in Branch : worker'[run][b] = IF b = BranchOf[n] THEN w ELSE worker[run][b]
  BY <1>1 DEF SetWorker, TypeInv, TypeOK
<1>4. disk.st = "running" /\ file
  BY <1>1 DEF Control, Announced, Mirror
<1>5. ASSUME NEW m \in Node, BranchOf[m] # BranchOf[n]
      PROVE  AtNode(run, m)' <=> AtNode(run, m)
  BY <1>1, <1>5 DEF AtNode, Nodes
<1>6. s.st \in MidStatus => ~Done(s)
  BY DEF MidStatus, Done
<1>7. ~Done(s) => AtNode(run, n)'
  BY <1>1 DEF AtNode, Nodes
<1>8. ASSUME NEW m \in Node, m # n, BranchOf[m] = BranchOf[n]
      PROVE  disk'.ns[m].st \notin MidStatus /\ (w \in Busy => ~AtNode(run, m)')
  <2>1. ~AtNode(run, m)
    BY <1>1, <1>8, OneAtATime
  <2>2. disk.ns[m].st \notin MidStatus
    BY <2>1, <1>4 DEF Attended
  <2>3. ASSUME w \in Busy, AtNode(run, m)'
        PROVE  FALSE
    <3>1. AtNode(run, n)'
      BY <2>3, <1>6, <1>7 DEF Busy, MidStatus
    <3>2. \A x, y \in Node : Pos[x] \in Nat /\ Pos[y] \in Nat
      BY PlanAssumption
    <3>3. ~(Pos[m] < Pos[n]) /\ ~(Pos[n] < Pos[m])
      BY <3>1, <2>3, <1>8, <1>1 DEF AtNode, Nodes
    <3> QED
      BY <3>2, <3>3, <1>8, PlanAssumption
  <2> QED
    BY <1>1, <1>8, <2>2, <2>3
<1>9. \A m \in Node :
        /\ worker'[run][BranchOf[m]] \in Busy /\ AtNode(run, m)' =>
             disk'.ns[m].st = (IF worker'[run][BranchOf[m]] = "exec"
                               THEN "running" ELSE "waiting_approval")
        /\ disk'.ns[m].st \in MidStatus =>
             worker'[run][BranchOf[m]] \in Busy /\ AtNode(run, m)'
  <2> TAKE m \in Node
  <2>1. CASE m = n
    BY <2>1, <1>1, <1>2, <1>3, <1>6, <1>7
  <2>2. CASE m # n /\ BranchOf[m] = BranchOf[n]
    BY <2>2, <1>2, <1>3, <1>8
  <2>3. CASE BranchOf[m] # BranchOf[n]
    BY <2>3, <1>1, <1>2, <1>3, <1>4, <1>5 DEF Attended
  <2> QED
    BY <2>1, <2>2, <2>3
<1> QED
  BY <1>1, <1>9 DEF Attended

-----------------------------------------------------------------------------
(***************************************************************************)
(* The balance of one node under each transition of the failure policy.    *)
(***************************************************************************)
LEMMA BudgetNat == ASSUME NEW n \in Node PROVE RetryBudget(n) \in Nat
BY PolicyAssumption DEF RetryBudget, MAX_AUTO_RETRY_COUNT

\* An attempt that was owed is executed.
LEMMA StartBalanced ==
  ASSUME NEW n \in Node, NEW s \in NodeState, NEW e \in Nat, NEW a \in Nat, NEW acted,
         acted \subseteq Node \X Nat,
         s.st = "pending", Balanced(n, s, e, a, acted)
  PROVE  Balanced(n, BeginAttempt(s), e + 1, a, acted)
<1>1. RetryBudget(n) \in Nat /\ s.att \in Nat /\ s.auto \in Nat
  BY BudgetNat DEF NodeState
<1>2. \A x \in acted : x[2] \in Nat
  OBVIOUS
<1> HIDE DEF RetryBudget
<1> QED
  BY <1>1, <1>2, BeginAttemptFacts DEF Balanced, Owed, MidStatus

\* An attempt ends: what is owed afterwards was part of the budget.
LEMMA EndBalanced ==
  ASSUME NEW n \in Node, NEW s \in NodeState, NEW e \in Nat, NEW a \in Nat, NEW acted,
         acted \subseteq Node \X Nat,
         s.st \in MidStatus, Balanced(n, s, e, a, acted),
         NEW from, NEW t, NEW w, Ending(n, s, from, t, w)
  PROVE  /\ t \in NodeState /\ w \in WorkerStatus /\ Balanced(n, t, e, a, acted)
         /\ w \in Busy => t.st = (IF w = "exec" THEN "running" ELSE "waiting_approval")
         /\ t.st \in MidStatus => w \in Busy
<1>1. RetryBudget(n) \in Nat /\ s.att \in Nat /\ s.auto \in Nat
  BY BudgetNat DEF NodeState
<1>2. \A x \in acted : x[1] = n => x[2] < s.att
  BY DEF Balanced, MidStatus, Attempted
<1>3. \A v \in NodeStatus : LET u == [s EXCEPT !.st = v] IN
        u \in NodeState /\ u.st = v /\ u.att = s.att /\ u.auto = s.auto
  BY StatusFacts
<1>4. {"completed", "failed", "waiting_approval"} \subseteq NodeStatus
  BY DEF NodeStatus
<1>5. {"ready", "retry_waiting", "failed", "waiting"} \subseteq WorkerStatus
  BY DEF WorkerStatus, Active, Outcome
<1>6. \A x \in acted : x[2] \in Nat
  OBVIOUS
<1> HIDE DEF RetryBudget
<1>7. CASE from \in Busy /\ t = Succeeded(s) /\ w = "ready"
  <2>1. t \in NodeState /\ t.st = "completed" /\ t.att = s.att /\ t.auto = s.auto
    BY <1>3, <1>4, <1>7 DEF Succeeded
  <2> QED
    BY <1>1, <1>2, <1>5, <1>7, <2>1 DEF Balanced, Owed, MidStatus, Attempted, Busy
<1>8. CASE /\ from \in Busy /\ t = AfterFailure(n, Failed(s))
           /\ w \in {"retry_waiting", "ready", "failed"}
  <2>1. Failed(s) \in NodeState /\ Failed(s).st = "failed"
        /\ Failed(s).att = s.att /\ Failed(s).auto = s.auto
    BY <1>3, <1>4 DEF Failed
  <2>2. /\ t \in NodeState /\ t.att = s.att
        /\ t.st \in {"retry_waiting", "skipped", "failed"}
        /\ t.st = "retry_waiting" => s.auto < RetryBudget(n) /\ t.auto = s.auto + 1
        /\ t.st # "retry_waiting" => t.auto = s.auto
    BY <1>8, <2>1, AfterFailureFacts
  <2>3. w \in WorkerStatus /\ w \notin Busy /\ t.st \notin MidStatus
    BY <1>5, <1>8, <2>2 DEF Busy, MidStatus
  <2>4. Balanced(n, t, e, a, acted)
    <3>1. CASE t.st = "retry_waiting"
      BY <1>1, <1>2, <1>6, <2>2, <3>1 DEF Balanced, Owed, MidStatus, Attempted
    <3>2. CASE t.st # "retry_waiting"
      BY <1>1, <1>2, <1>6, <2>2, <3>2 DEF Balanced, Owed, MidStatus, Attempted
    <3> QED
      BY <3>1, <3>2
  <2> QED
    BY <2>2, <2>3, <2>4
<1>9. CASE \/ from = "exec" /\ t = [s EXCEPT !.st = "waiting_approval"] /\ w = "waiting"
           \/ from = "waiting" /\ t = Failed(s) /\ w = "failed"
  <2>1. /\ t \in NodeState /\ t.att = s.att /\ t.auto = s.auto
        /\ \/ t.st = "waiting_approval" /\ w = "waiting"
           \/ t.st = "failed" /\ w = "failed"
    <3>1. CASE t = [s EXCEPT !.st = "waiting_approval"] /\ w = "waiting"
      BY <1>3, <1>4, <3>1
    <3>2. CASE t = Failed(s) /\ w = "failed"
      BY <1>3, <1>4, <3>2 DEF Failed
    <3> QED
      BY <1>9, <3>1, <3>2
  <2>2. Owed(t) = 0
    BY <2>1 DEF Owed
  <2>3. Balanced(n, t, e, a, acted)
    BY <1>1, <1>2, <1>6, <2>1, <2>2 DEF Balanced, Owed, MidStatus, Attempted
  <2> QED
    BY <1>5, <2>1, <2>3 DEF MidStatus, Busy
<1> QED
  BY <1>7, <1>8, <1>9 DEF Ending

\* A due retry is still owed.
LEMMA ActivateBalanced ==
  ASSUME NEW n \in Node, NEW s \in NodeState, NEW e \in Nat, NEW a \in Nat, NEW acted,
         acted \subseteq Node \X Nat,
         s.st = "retry_waiting", Balanced(n, s, e, a, acted)
  PROVE  Balanced(n, ActivateRetry(s), e, a, acted)
<1>1. "pending" \in NodeStatus
  BY DEF NodeStatus
<1>2. /\ ActivateRetry(s).st = "pending" /\ ActivateRetry(s).att = s.att
      /\ ActivateRetry(s).auto = s.auto
  BY <1>1, StatusFacts DEF ActivateRetry
<1>3. Owed(ActivateRetry(s)) = Owed(s)
  BY <1>2 DEF Owed
<1> QED
  BY <1>2, <1>3 DEF Balanced, MidStatus, Attempted

\* A request for the attempt the file shows is the first one for it, and a
\* manual retry brings the allowance of a new failure chain.
LEMMA AcceptBalanced ==
  ASSUME NEW n \in Node, NEW s \in NodeState, NEW e \in Nat, NEW a \in Nat, NEW acted,
         acted \subseteq Node \X Nat,
         Controllable(s), Balanced(n, s, e, a, acted)
  PROVE  /\ <<n, s.att>> \notin acted
         /\ Balanced(n, ManualRetry(Failed(s)), e, a + RetryBudget(n) + 1,
                     acted \cup {<<n, s.att>>})
         /\ Balanced(n, FailureSkip(Failed(s)), e, a, acted \cup {<<n, s.att>>})
<1>1. RetryBudget(n) \in Nat /\ s.att \in Nat /\ s.auto \in Nat
  BY BudgetNat DEF NodeState
<1>2. "failed" \in NodeStatus /\ "skipped" \in NodeStatus
  BY DEF NodeStatus
<1>3. Failed(s) \in NodeState /\ Failed(s).att = s.att /\ Failed(s).auto = s.auto
  BY <1>2, StatusFacts DEF Failed
<1>4. \A x \in acted : x[1] = n => x[2] < s.att
  BY DEF Balanced, Controllable, Attempted
<1>5. \A x \in acted : x[2] \in Nat
  OBVIOUS
<1>6. \A x \in acted \cup {<<n, s.att>>} : x[1] = n => x[2] <= s.att
  BY <1>1, <1>4, <1>5
<1>7. <<n, s.att>> \notin acted
  BY <1>1, <1>4
<1> HIDE DEF RetryBudget
<1>8. Balanced(n, ManualRetry(Failed(s)), e, a + RetryBudget(n) + 1,
               acted \cup {<<n, s.att>>})
  <2> DEFINE t == ManualRetry(Failed(s))
  <2>1. t.st = "pending" /\ t.att = s.att /\ t.auto = 0
    BY <1>3, ManualRetryFacts
  <2> HIDE DEF t
  <2>2. Owed(t) = 1 /\ t.st \notin Attempted /\ t.st \notin MidStatus
    BY <2>1 DEF Owed, Attempted, MidStatus
  <2>3. e <= a
    BY <1>1 DEF Balanced, Owed
  <2>4. e + (RetryBudget(n) - t.auto) + Owed(t) <= a + RetryBudget(n) + 1
    BY <1>1, <2>1, <2>2, <2>3
  <2>5. Balanced(n, t, e, a + RetryBudget(n) + 1, acted \cup {<<n, s.att>>})
    BY <1>1, <1>6, <2>1, <2>2, <2>4 DEF Balanced
  <2> QED
    BY <2>5 DEF t
<1>9. Balanced(n, FailureSkip(Failed(s)), e, a, acted \cup {<<n, s.att>>})
  <2> DEFINE t == FailureSkip(Failed(s))
  <2>1. t.st = "skipped" /\ t.att = s.att /\ t.auto = s.auto
    BY <1>2, <1>3, StatusFacts DEF FailureSkip
  <2> HIDE DEF t
  <2>2. Owed(t) = 0 /\ t.st \notin Attempted /\ t.st \notin MidStatus
    BY <2>1 DEF Owed, Attempted, MidStatus
  <2>3. Owed(s) \in {0, 1}
    BY DEF Owed
  <2>4. Balanced(n, t, e, a, acted \cup {<<n, s.att>>})
    BY <1>1, <1>6, <2>1, <2>2, <2>3 DEF Balanced
  <2> QED
    BY <2>4 DEF t
<1> QED
  BY <1>7, <1>8, <1>9

\* Recovery charges an interrupted attempt like a failure, and an approval it
\* reissues is allowed once more.
LEMMA RecoverBalanced ==
  ASSUME NEW n \in Node, NEW s \in NodeState, NEW e \in Nat, NEW a \in Nat, NEW acted,
         acted \subseteq Node \X Nat, Balanced(n, s, e, a, acted)
  PROVE  /\ Balanced(n, RecoverNode(n, s), e,
                     IF s.st = "waiting_approval" THEN a + 1 ELSE a, acted)
         /\ RecoverNode(n, s).st \notin MidStatus
<1>1. RetryBudget(n) \in Nat /\ s.att \in Nat /\ s.auto \in Nat
  BY BudgetNat DEF NodeState
<1>2. \A x \in acted : x[2] \in Nat
  OBVIOUS
<1> DEFINE t == RecoverNode(n, s)
<1>3. /\ s.st \notin MidStatus => t = s
      /\ s.att >= 1 => t.att = s.att
      /\ s.st = "running" =>
           /\ t.st \in {"retry_waiting", "skipped", "failed"}
           /\ t.st = "retry_waiting" => s.auto < RetryBudget(n) /\ t.auto = s.auto + 1
           /\ t.st # "retry_waiting" => t.auto = s.auto
      /\ s.st = "waiting_approval" => t.st = "pending" /\ t.auto = s.auto
  BY RecoverNodeFacts DEF MidStatus
<1> HIDE DEF t, RetryBudget
<1>4. s.st \in MidStatus => t.att = s.att /\ \A x \in acted : x[1] = n => x[2] < s.att
  BY <1>3 DEF Balanced, MidStatus, Attempted
<1>5. CASE s.st \notin MidStatus
  BY <1>3, <1>5 DEF t, MidStatus
<1>6. CASE s.st = "running"
  <2>1. s.st \in MidStatus /\ t.st \notin MidStatus
    BY <1>3, <1>6 DEF MidStatus
  <2>2. CASE t.st = "retry_waiting"
    <3>1. Balanced(n, t, e, a, acted)
      BY <1>1, <1>2, <1>3, <1>4, <1>6, <2>1, <2>2 DEF Balanced, Owed
    <3> QED
      BY <1>6, <2>1, <3>1 DEF t
  <2>3. CASE t.st # "retry_waiting"
    <3>1. Owed(t) = 0
      BY <1>3, <1>6, <2>3 DEF Owed
    <3>2. Balanced(n, t, e, a, acted)
      BY <1>1, <1>2, <1>3, <1>4, <1>6, <2>1, <2>3, <3>1 DEF Balanced, Owed
    <3> QED
      BY <1>6, <2>1, <3>2 DEF t
  <2> QED
    BY <2>2, <2>3
<1>7. CASE s.st = "waiting_approval"
  <2>1. s.st \in MidStatus /\ t.st \notin MidStatus /\ t.st \notin Attempted
    BY <1>3, <1>7 DEF MidStatus, Attempted
  <2>2. Owed(s) = 0 /\ Owed(t) = 1
    BY <1>3, <1>7 DEF Owed
  <2>3. Balanced(n, t, e, a + 1, acted)
    BY <1>1, <1>2, <1>3, <1>4, <1>7, <2>1, <2>2 DEF Balanced
  <2> QED
    BY <1>7, <2>1, <2>3 DEF t
<1> QED
  BY <1>5, <1>6, <1>7 DEF MidStatus

-----------------------------------------------------------------------------
(***************************************************************************)
(* Every step keeps the invariant, keeps what is done and accepts an       *)
(* observed failure at most once.                                          *)
(***************************************************************************)
DoneKept == \A n \in Node : Done(disk.ns[n]) => disk.ns[n]' = disk.ns[n]
OnceEach == acts' # acts => accepted' # accepted

\* A step that changes the state of one node keeps the balance of the others.
LEMMA OneNodeLedger ==
  ASSUME Ledger, NEW n \in Node,
         \A m \in Node \ {n} :
           /\ disk'.ns[m] = disk.ns[m] /\ execs'[m] = execs[m]
           /\ allowance'[m] = allowance[m],
         accepted' = accepted,
         Balanced(n, disk'.ns[n], execs'[n], allowance'[n], accepted)
  PROVE  Ledger'
BY DEF Ledger, Balanced

\* The balance reads only the file, the history and what was accepted.
LEMMA SameLedger ==
  ASSUME Ledger, disk'.ns = disk.ns, UNCHANGED <<execs, allowance, accepted>>
  PROVE  Ledger' /\ DoneKept
BY DEF Ledger, Balanced, DoneKept

LEMMA WorkSafe ==
  ASSUME SafeInv, WorkOrAnswer
  PROVE  Control' /\ Attended' /\ Ledger' /\ DoneKept /\ OnceEach
<1>1. TypeInv /\ Control /\ Attended /\ Ledger
  BY DEF SafeInv
<1>2. /\ execs \in [Node -> Nat] /\ allowance \in [Node -> Nat]
      /\ accepted \subseteq Node \X Nat
      /\ \A n \in Node : disk.ns[n] \in NodeState /\ BranchOf[n] \in Branch
  BY <1>1, PlanAssumption DEF TypeInv, TypeOK, Task
<1>3. ASSUME NEW r \in Runs, NEW b \in Branch, worker[r][b] \in Active
      PROVE  r = run /\ runner = "stage" /\ mem[r].ns = disk.ns /\ disk.st = "running" /\ file
  BY <1>1, <1>3 DEF Control, Owned, Mirror, Announced
<1>4. Busy \subseteq Active /\ "ready" \in Active \ Busy
  BY DEF Busy, Active
<1>5. ASSUME NEW r \in Runs, NEW n \in Node, StartNode(r, n)
      PROVE  Control' /\ Attended' /\ Ledger' /\ DoneKept /\ OnceEach
  <2> DEFINE s == BeginAttempt(mem[r].ns[n])
  <2>1. /\ worker[r][BranchOf[n]] = "ready" /\ AtNode(r, n) /\ up
        /\ SetNode(r, n, s) /\ SetWorker(r, BranchOf[n], "exec")
        /\ UNCHANGED <<up, run, runner, stage, swallowed>>
        /\ execs' = [execs EXCEPT ![n] = @ + 1]
        /\ UNCHANGED <<allowance, accepted, acts>>
    BY <1>5 DEF StartNode, At, clients
  <2>2. r = run /\ runner = "stage" /\ mem[r].ns = disk.ns /\ disk.st = "running" /\ file
    BY <1>2, <1>3, <1>4, <2>1
  <2>3. disk.ns[n].st \notin MidStatus
    BY <1>1, <1>4, <2>1, <2>2 DEF Attended
  <2>4. disk.ns[n].st = "pending" /\ ~Done(disk.ns[n])
    BY <1>5, <2>2, <2>3 DEF StartNode, Startable, MidStatus, Done
  <2>5. s \in NodeState /\ s.st = "running"
    BY <1>2, <2>2, BeginAttemptFacts
  <2>6. "exec" \in WorkerStatus /\ "exec" \in Busy
    BY DEF WorkerStatus, Active, Busy
  <2>7. Balanced(n, BeginAttempt(disk.ns[n]), execs[n] + 1, allowance[n], accepted)
    BY <1>1, <1>2, <2>4, StartBalanced DEF Ledger
  <2> HIDE DEF s
  <2>8. Control' /\ disk'.ns[n] = s /\ \A m \in Node \ {n} : disk'.ns[m] = disk.ns[m]
    BY <1>1, <1>4, <2>1, <2>5, <2>6, NodeSaved
  <2>9. Attended'
    BY <1>1, <1>4, <2>1, <2>5, <2>6, NodeAttended
  <2>10. Balanced(n, disk'.ns[n], execs'[n], allowance'[n], accepted)
    BY <1>2, <2>1, <2>2, <2>7, <2>8 DEF s
  <2>11. Ledger'
    BY <1>1, <1>2, <2>1, <2>8, <2>10, OneNodeLedger
  <2> QED
    BY <2>1, <2>4, <2>8, <2>9, <2>11 DEF DoneKept, OnceEach
<1>6. ASSUME NEW r \in Runs, NEW b \in Branch, NEW w, w \notin Busy \cup Active,
             worker[r][b] = "ready", SetWorker(r, b, w), up,
             UNCHANGED <<saved, up, run, mem, runner, stage, swallowed, clients, history>>
      PROVE  Control' /\ Attended' /\ Ledger' /\ DoneKept /\ OnceEach
  <2>1. r = run /\ runner = "stage" /\ disk.st = "running" /\ file
    BY <1>3, <1>4, <1>6
  <2>2. \A q \in Runs, x \in Branch :
          worker'[q][x] = IF q = r /\ x = b THEN w ELSE worker[q][x]
    BY <1>1, <1>6 DEF SetWorker, TypeInv, TypeOK
  <2>3. Control'
    BY <1>1, <1>6, <2>2 DEF saved, Control, Owned, Mirror, Announced
  <2>4. \A n \in Node : AtNode(run, n)' <=> AtNode(run, n)
    BY <1>6 DEF AtNode
  <2>5. Attended'
    BY <1>1, <1>2, <1>4, <1>6, <2>1, <2>2, <2>4 DEF saved, Attended
  <2>6. Ledger' /\ DoneKept
    BY <1>1, <1>6, SameLedger DEF saved, clients, history
  <2> QED
    BY <1>6, <2>3, <2>5, <2>6 DEF OnceEach, clients
<1>7. {"completed", "failed", "retry_waiting"} \cap (Busy \cup Active) = {}
  BY DEF Busy, Active
<1>8. ASSUME NEW r \in Runs, NEW n \in Node, Blocked(r, n)
      PROVE  Control' /\ Attended' /\ Ledger' /\ DoneKept /\ OnceEach
  <2>1. PICK w \in {"failed", "retry_waiting"} : SetWorker(r, BranchOf[n], w)
    BY <1>8 DEF Blocked
  <2> QED
    BY <1>2, <1>6, <1>7, <1>8, <2>1 DEF Blocked, At
<1>9. ASSUME NEW r \in Runs, NEW b \in Branch, FinishBranch(r, b)
      PROVE  Control' /\ Attended' /\ Ledger' /\ DoneKept /\ OnceEach
  BY <1>6, <1>7, <1>9 DEF FinishBranch
<1>10. ASSUME NEW r \in Runs, NEW n \in Node, NEW from, NEW s, NEW w,
              EndNode(r, n, from, s, w), Ending(n, mem[r].ns[n], from, s, w)
       PROVE  Control' /\ Attended' /\ Ledger' /\ DoneKept /\ OnceEach
  <2>1. /\ worker[r][BranchOf[n]] = from /\ AtNode(r, n) /\ up
        /\ SetNode(r, n, s) /\ SetWorker(r, BranchOf[n], w)
        /\ UNCHANGED <<up, run, runner, stage, swallowed>>
        /\ UNCHANGED <<execs, allowance, accepted, acts>>
    BY <1>10 DEF EndNode, At, clients, history
  <2>2. from \in Busy
    BY <1>10 DEF Ending, Busy
  <2>3. r = run /\ runner = "stage" /\ mem[r].ns = disk.ns
    BY <1>2, <1>3, <1>4, <2>1, <2>2
  <2>4. disk.ns[n].st \in MidStatus /\ ~Done(disk.ns[n])
    <3>1. disk.ns[n].st = (IF from = "exec" THEN "running" ELSE "waiting_approval")
      BY <1>1, <2>1, <2>2, <2>3 DEF Attended
    <3> QED
      BY <3>1 DEF MidStatus, Done
  <2>5. /\ s \in NodeState /\ w \in WorkerStatus
        /\ Balanced(n, s, execs[n], allowance[n], accepted)
        /\ w \in Busy => s.st = (IF w = "exec" THEN "running" ELSE "waiting_approval")
        /\ s.st \in MidStatus => w \in Busy
    <3>1. execs[n] \in Nat /\ allowance[n] \in Nat /\ disk.ns[n] \in NodeState
      BY <1>2
    <3>2. Balanced(n, disk.ns[n], execs[n], allowance[n], accepted)
      BY <1>1 DEF Ledger
    <3>3. Ending(n, disk.ns[n], from, s, w)
      BY <1>10, <2>3
    <3> QED
      BY <1>2, <2>4, <3>1, <3>2, <3>3, EndBalanced
  <2>6. Control' /\ disk'.ns[n] = s /\ \A m \in Node \ {n} : disk'.ns[m] = disk.ns[m]
    BY <1>1, <1>4, <2>1, <2>2, <2>5, NodeSaved
  <2>7. Attended'
    BY <1>1, <1>4, <2>1, <2>2, <2>5, NodeAttended
  <2>8. Ledger'
    BY <1>1, <2>1, <2>5, <2>6, OneNodeLedger
  <2> QED
    BY <2>1, <2>4, <2>6, <2>7, <2>8 DEF DoneKept, OnceEach
<1> QED
  BY <1>1, <1>5, <1>8, <1>9, <1>10, WorkForms

LEMMA RunnerSafe ==
  ASSUME SafeInv, RunnerStep
  PROVE  Control' /\ Attended' /\ Ledger' /\ DoneKept /\ OnceEach
<1>1. Control' /\ Attended' /\ disk'.ns = disk.ns
  BY RunnerControl, RunnerAttended DEF SafeInv
<1>2. UNCHANGED <<execs, allowance, accepted, acts>>
  BY DEF RunnerStep, RunTask, HandOff, Launch, StartRunner, FinishStage, Merge, Persist,
         Release, Refused, StartFails, PlanFails, clients, history
<1> QED
  BY <1>1, <1>2, SameLedger DEF SafeInv, OnceEach

\* Between launches nodes change only through the retry timer, an accepted
\* request or recovery; none of them is mid-attempt.
LEMMA BetweenSafe ==
  ASSUME SafeInv, TimerActivates \/ ClientStep \/ Restart \/ Crash
  PROVE  Control' /\ Attended' /\ Ledger' /\ DoneKept /\ OnceEach
<1>1. TypeInv /\ Control /\ Attended /\ Ledger
  BY DEF SafeInv
<1>2. /\ execs \in [Node -> Nat] /\ allowance \in [Node -> Nat]
      /\ accepted \subseteq Node \X Nat /\ request \subseteq Request
      /\ \A n \in Node : disk.ns[n] \in NodeState /\ BranchOf[n] \in Branch
  BY <1>1, PlanAssumption DEF TypeInv, TypeOK, Task
<1>3. Control'
  BY <1>1, BetweenControl
<1>4. CASE SendRequest \/ \E q \in request : RejectRequest(q)
  <2>1. UNCHANGED <<saved, up, engine, history, accepted, acts>>
    BY <1>4 DEF SendRequest, RejectRequest, clients
  <2>2. Attended'
    BY <1>1, <2>1 DEF saved, engine, Attended, AtNode
  <2> QED
    BY <1>1, <1>3, <2>1, <2>2, SameLedger DEF saved, history, OnceEach
<1>5. CASE TimerActivates
  <2>1. /\ up /\ file /\ disk.st = "retry_waiting" /\ runner = "none"
        /\ UNCHANGED <<engine, execs, allowance, accepted, acts>>
    BY <1>5 DEF TimerActivates, clients, history
  <2>2. PICK due \in SUBSET WaitingNodes(disk) : disk'.ns = Activated(disk, due)
    BY <1>5 DEF TimerActivates, SaveResume, Save
  <2>3. NoMid
    BY <1>1, <2>1, NoMidWhenIdle DEF Idle
  <2>4. \A n \in Node : n \in due => disk.ns[n].st = "retry_waiting"
    BY DEF WaitingNodes
  <2>5. \A n \in Node : n \notin due => disk'.ns[n] = disk.ns[n]
    BY <2>2 DEF Activated
  <2>6. \A n \in Node : n \in due => disk'.ns[n] = ActivateRetry(disk.ns[n])
    BY <2>2 DEF Activated
  <2>7. \A n \in Node : n \in due => disk'.ns[n].st = "pending"
    <3>1. "pending" \in NodeStatus
      BY DEF NodeStatus
    <3>2. \A s \in NodeState : ActivateRetry(s).st = "pending"
      BY <3>1, StatusFacts DEF ActivateRetry
    <3> QED
      BY <1>2, <2>6, <3>2
  <2>8. Attended'
    <3>1. NoMid'
      BY <2>3, <2>5, <2>7 DEF NoMid, MidStatus
    <3>2. NotBusy'
      BY <2>1 DEF NotBusy, engine
    <3> QED
      BY <3>1, <3>2, QuietAttended
  <2>9. Ledger'
    <3> SUFFICES ASSUME NEW n \in Node
                 PROVE  Balanced(n, disk'.ns[n], execs[n], allowance[n], accepted)
      BY <2>1 DEF Ledger
    <3>1. Balanced(n, disk.ns[n], execs[n], allowance[n], accepted)
      BY <1>1 DEF Ledger
    <3>2. CASE n \in due
      BY <1>2, <2>4, <2>6, <3>1, <3>2, ActivateBalanced
    <3>3. CASE n \notin due
      BY <2>5, <3>1, <3>3
    <3> QED
      BY <3>2, <3>3
  <2>10. DoneKept
    BY <2>4, <2>5 DEF DoneKept, Done
  <2> QED
    BY <1>3, <2>1, <2>8, <2>9, <2>10 DEF OnceEach
<1>6. ASSUME NEW q \in request, RetryNode(q) \/ SkipNode(q)
      PROVE  Attended' /\ Ledger' /\ DoneKept /\ OnceEach
  <2> DEFINE n == q.n
             old == disk.ns[n]
             new == IF RetryNode(q) THEN ManualRetry(Failed(old)) ELSE FailureSkip(Failed(old))
  <2>1. /\ q.n \in Node /\ old \in NodeState /\ allowance[n] \in Nat /\ execs[n] \in Nat
        /\ RetryBudget(n) \in Nat
    BY <1>2, BudgetNat DEF Request
  <2>2. /\ up /\ file /\ disk.st \in {"failed", "retry_waiting"} /\ runner = "none"
        /\ Controllable(old) /\ old.att = q.k
        /\ UNCHANGED <<engine, execs>>
        /\ accepted' = accepted \cup {<<n, old.att>>}
    BY <1>6 DEF RetryNode, SkipNode, Accept, Valid
  <2>3. disk'.ns = [disk.ns EXCEPT ![n] = new]
    <3>1. CASE RetryNode(q)
      BY <3>1 DEF RetryNode, Accept, SaveResume, Save
    <3>2. CASE ~RetryNode(q)
      BY <1>6, <3>2 DEF SkipNode, Accept, SaveResume, Save
    <3> QED
      BY <3>1, <3>2
  <2>4. NoMid
    BY <1>1, <2>2, NoMidWhenIdle DEF Idle
  <2>5. /\ <<n, old.att>> \notin accepted
        /\ Balanced(n, ManualRetry(Failed(old)), execs[n], allowance[n] + RetryBudget(n) + 1,
                    accepted \cup {<<n, old.att>>})
        /\ Balanced(n, FailureSkip(Failed(old)), execs[n], allowance[n],
                    accepted \cup {<<n, old.att>>})
    BY <1>1, <1>2, <2>1, <2>2, AcceptBalanced DEF Ledger
  <2>6. new.st \in {"pending", "skipped"}
    <3>1. "failed" \in NodeStatus /\ "skipped" \in NodeStatus
      BY DEF NodeStatus
    <3>2. Failed(old) \in NodeState
      BY <2>1, <3>1, StatusFacts DEF Failed
    <3> QED
      BY <3>1, <3>2, ManualRetryFacts, StatusFacts DEF FailureSkip
  <2>7. /\ \A m \in Node : m # n => allowance'[m] = allowance[m]
        /\ allowance'[n] = IF RetryNode(q) THEN allowance[n] + RetryBudget(n) + 1
                                           ELSE allowance[n]
    <3>1. CASE RetryNode(q)
      <4>1. allowance' = [allowance EXCEPT ![q.n] = @ + RetryBudget(q.n) + 1]
        BY <3>1 DEF RetryNode
      <4> HIDE DEF RetryBudget
      <4> QED
        BY <1>2, <2>1, <3>1, <4>1
    <3>2. CASE ~RetryNode(q)
      BY <1>6, <3>2 DEF SkipNode
    <3> QED
      BY <3>1, <3>2
  <2> HIDE DEF new
  <2>8. disk'.ns[n] = new /\ \A m \in Node : m # n => disk'.ns[m] = disk.ns[m]
    BY <1>1, <2>1, <2>3 DEF TypeInv, TypeOK, Task
  <2>9. Attended'
    <3>1. NoMid'
      BY <2>4, <2>6, <2>8 DEF NoMid, MidStatus
    <3>2. NotBusy'
      BY <2>2 DEF NotBusy, engine
    <3> QED
      BY <3>1, <3>2, QuietAttended
  <2>10. Balanced(n, disk'.ns[n], execs'[n], allowance'[n], accepted')
    BY <2>2, <2>5, <2>7, <2>8 DEF new
  <2>11. ASSUME NEW m \in Node, m # n
         PROVE  Balanced(m, disk'.ns[m], execs'[m], allowance'[m], accepted')
    <3>1. Balanced(m, disk.ns[m], execs[m], allowance[m], accepted)
      BY <1>1 DEF Ledger
    <3>2. \A x \in accepted' : x[1] = m => x \in accepted
      BY <2>2, <2>11
    <3> QED
      BY <2>2, <2>7, <2>8, <2>11, <3>1, <3>2 DEF Balanced
  <2>12. Ledger'
    BY <2>10, <2>11 DEF Ledger
  <2>13. DoneKept
    BY <2>2, <2>8 DEF DoneKept, Done, Controllable
  <2> QED
    BY <2>2, <2>5, <2>9, <2>12, <2>13 DEF OnceEach
<1>7. CASE Restart
  <2>1. /\ ~up /\ runner = "none" /\ up' /\ RecoverTask
        /\ UNCHANGED <<engine, execs, accepted, acts>>
        /\ allowance' = [n \in Node |->
             IF file /\ disk.st \in Recoverable /\ disk.ns[n].st = "waiting_approval"
             THEN allowance[n] + 1 ELSE allowance[n]]
    BY <1>1, <1>7 DEF Restart, clients, Control
  <2>2. runner' = "none"
    BY <2>1 DEF engine
  <2>3. CASE file /\ disk.st \in Recoverable
    <3>1. disk'.ns = Recovered
      BY <2>1, <2>3 DEF RecoverTask, SaveResume, Save
    <3>2. ASSUME NEW n \in Node
          PROVE  /\ Balanced(n, disk'.ns[n], execs'[n], allowance'[n], accepted')
                 /\ disk'.ns[n].st \notin MidStatus
      <4>1. disk'.ns[n] = RecoverNode(n, disk.ns[n])
        BY <3>1 DEF Recovered
      <4>2. allowance'[n] = IF disk.ns[n].st = "waiting_approval"
                            THEN allowance[n] + 1 ELSE allowance[n]
        BY <2>1, <2>3
      <4>3. Balanced(n, disk.ns[n], execs[n], allowance[n], accepted)
        BY <1>1 DEF Ledger
      <4>4. disk.ns[n] \in NodeState /\ execs[n] \in Nat /\ allowance[n] \in Nat
        BY <1>2
      <4> QED
        BY <1>2, <2>1, <4>1, <4>2, <4>3, <4>4, RecoverBalanced
    <3>3. Ledger'
      BY <3>2 DEF Ledger
    <3>4. Attended'
      BY <2>2, <3>2, QuietAttended DEF NoMid, NotBusy
    <3>5. DoneKept
      BY <1>2, <3>1, RecoverNodeFacts DEF DoneKept, Recovered, Done
    <3> QED
      BY <1>3, <2>1, <3>3, <3>4, <3>5 DEF OnceEach
  <2>4. CASE ~(file /\ disk.st \in Recoverable)
    <3>1. UNCHANGED saved
      BY <2>1, <2>4 DEF RecoverTask
    <3>2. \A n \in Node : allowance'[n] = allowance[n]
      BY <2>1, <2>4
    <3>3. Ledger' /\ DoneKept
      BY <1>1, <2>1, <3>1, <3>2 DEF saved, Ledger, DoneKept
    <3>4. Attended'
      BY <1>1, <2>1, <2>2, <2>4, <3>1 DEF saved, Attended
    <3> QED
      BY <1>3, <2>1, <3>3, <3>4 DEF OnceEach
  <2> QED
    BY <2>3, <2>4
<1>8. CASE Crash
  <2>1. /\ up /\ ~up' /\ runner' = "none" /\ UNCHANGED <<saved, execs, allowance, accepted, acts>>
    BY <1>8 DEF Crash, ProcessGone, history
  <2>2. runner = "stage" => disk.st \in Recoverable
    BY <1>1 DEF Control, Announced, Recoverable
  <2>3. Attended'
    BY <1>1, <2>1, <2>2 DEF saved, Attended
  <2> QED
    BY <1>1, <1>3, <2>1, <2>3, SameLedger DEF saved, OnceEach
<1> QED
  BY <1>3, <1>4, <1>5, <1>6, <1>7, <1>8 DEF ClientStep

LEMMA CancellationSafe ==
  ASSUME SafeInv, Gateway = {}, Cancellation
  PROVE  Control' /\ Attended' /\ Ledger' /\ DoneKept /\ OnceEach
<1>1. /\ Control' /\ runner' = "none" /\ disk'.ns = disk.ns
      /\ \/ disk'.st = "stopped" \/ ~file'
         \/ UNCHANGED saved /\ runner # "stage" /\ up
  BY CancellationControl DEF SafeInv
<1>2. UNCHANGED <<execs, allowance, accepted, acts>>
  BY DEF Cancellation, StopTask, StopIdleTask, StopReturns, DeleteTask, DeleteIdleTask,
         DeleteReturns, Shutdown, ShutdownIdle, CancelFor, clients, history
<1>3. Attended'
  BY <1>1 DEF SafeInv, saved, Attended
<1> QED
  BY <1>1, <1>2, <1>3, SameLedger DEF SafeInv, OnceEach

LEMMA InitSafeInv == Init => SafeInv
<1> SUFFICES ASSUME Init PROVE SafeInv
  OBVIOUS
<1>1. TypeInv
  BY InitTypeInv
<1>2. PICK disabled \in SUBSET Node : disk = NewTask(disabled)
  BY DEF Init
<1>3. /\ NewNode \in NodeState /\ NewNode.st = "pending" /\ NewNode.att = 0 /\ NewNode.auto = 0
      /\ "skipped" \in NodeStatus
  BY DEF NewNode, NodeState, NodeStatus, Trigger
<1>4. \A n \in Node : /\ disk.ns[n].st \in {"pending", "skipped"}
                      /\ disk.ns[n].att = 0 /\ disk.ns[n].auto = 0
  BY <1>2, <1>3, StatusFacts DEF NewTask, FailureSkip
<1>5. Control
  BY DEF Init, Control, Owned, Mirror, Announced, Active
<1>6. Attended
  BY <1>4 DEF Init, Attended, MidStatus
<1>7. Ledger
  <2> SUFFICES ASSUME NEW n \in Node
               PROVE  Balanced(n, disk.ns[n], 0, RetryBudget(n) + 1, {})
    BY DEF Init, Ledger
  <2>1. RetryBudget(n) \in Nat
    BY BudgetNat
  <2> HIDE DEF RetryBudget
  <2> QED
    BY <1>4, <2>1 DEF Balanced, Owed, MidStatus
<1> QED
  BY <1>1, <1>5, <1>6, <1>7 DEF SafeInv

LEMMA SafeStep ==
  ASSUME SafeInv, [SafeNext]_vars
  PROVE  SafeInv' /\ [DoneKept]_vars /\ [OnceEach]_vars
<1>1. CASE UNCHANGED vars
  <2>1. UNCHANGED <<saved, up, engine, clients, history>>
    BY <1>1 DEF vars
  <2>2. TypeInv'
    BY <1>1, NextTypeInv DEF SafeInv
  <2>3. Control'
    BY <2>1 DEF SafeInv, saved, engine, Control, Owned, Mirror, Announced
  <2>4. Attended'
    BY <2>1 DEF SafeInv, saved, engine, Attended, AtNode
  <2>5. Ledger'
    BY <2>1, SameLedger DEF SafeInv, saved, clients, history
  <2> QED
    BY <1>1, <2>2, <2>3, <2>4, <2>5 DEF SafeInv
<1>2. CASE SafeNext
  <2>1. TypeInv'
    BY <1>2, NextTypeInv DEF SafeInv, SafeNext, Uncancelled, Next
  <2>2. Control' /\ Attended' /\ Ledger' /\ DoneKept /\ OnceEach
    <3>1. CASE System
      BY <3>1, WorkSafe, RunnerSafe, BetweenSafe DEF System, WorkOrAnswer, RunnerStep
    <3>2. CASE Environment
      BY <3>2, WorkSafe, RunnerSafe, BetweenSafe DEF Environment, WorkOrAnswer, RunnerStep, ClientStep
    <3>3. CASE Gateway = {} /\ Cancellation
      BY <3>3, CancellationSafe
    <3> QED
      BY <1>2, <3>1, <3>2, <3>3 DEF SafeNext, Uncancelled
  <2> QED
    BY <2>1, <2>2 DEF SafeInv
<1> QED
  BY <1>1, <1>2

LEMMA SafeInvImplies ==
  SafeInv => AttemptsAccounted /\ RetryBudgetHolds /\ Checkpointed
<1> SUFFICES ASSUME SafeInv PROVE AttemptsAccounted /\ RetryBudgetHolds /\ Checkpointed
  OBVIOUS
<1>1. AttemptsAccounted
  BY DEF SafeInv, Ledger, Balanced, AttemptsAccounted
<1>2. RetryBudgetHolds
  <2> SUFFICES ASSUME NEW n \in Node PROVE execs[n] <= allowance[n]
    BY DEF RetryBudgetHolds
  <2>1. RetryBudget(n) \in Nat
    BY BudgetNat
  <2>2. disk.ns[n].auto \in Nat /\ execs[n] \in Nat /\ allowance[n] \in Nat
    BY DEF SafeInv, TypeInv, TypeOK, Task, NodeState
  <2>3. Owed(disk.ns[n]) \in {0, 1}
    BY DEF Owed
  <2> HIDE DEF RetryBudget, Owed
  <2> QED
    BY <2>1, <2>2, <2>3 DEF SafeInv, Ledger, Balanced
<1>3. Checkpointed
  BY DEF SafeInv, Control, Owned, Mirror, Orphan, Checkpointed
<1> QED
  BY <1>1, <1>2, <1>3

-----------------------------------------------------------------------------
(***************************************************************************)
(* The results.                                                            *)
(***************************************************************************)
\* For every plan, through crashes, recovery, retries and concurrent branches:
\* no execution goes uncounted, none exceeds what the policy and the clients
\* allow, and what the runner believes of the nodes is what the file says.
THEOREM UncancelledSafety ==
  UncancelledSpec => [](AttemptsAccounted /\ RetryBudgetHolds /\ Checkpointed)
<1>1. SafeInv /\ [Uncancelled]_vars => SafeInv'
  BY SafeStep DEF SafeNext
<1> QED
  BY <1>1, InitSafeInv, SafeInvImplies, PTL DEF UncancelledSpec

\* The same for plans without gateways although tasks are stopped and deleted
\* and the process is restarted gracefully at any moment.
THEOREM SerialSafety ==
  ASSUME Gateway = {}
  PROVE  Spec => [](AttemptsAccounted /\ RetryBudgetHolds /\ Checkpointed)
<1>1. SafeInv /\ [Next]_vars => SafeInv'
  BY SafeStep DEF SafeNext, Next, Uncancelled
<1> QED
  BY <1>1, InitSafeInv, SafeInvImplies, PTL DEF Spec

\* A node that completed or was skipped is never touched again.
THEOREM UncancelledFinality == UncancelledSpec => DoneIsFinal
<1>1. SafeInv /\ [Uncancelled]_vars => SafeInv' /\ [DoneKept]_vars
  BY SafeStep DEF SafeNext
<1> QED
  BY <1>1, InitSafeInv, PTL DEF UncancelledSpec, DoneIsFinal, DoneKept

THEOREM SerialFinality == ASSUME Gateway = {} PROVE Spec => DoneIsFinal
<1>1. SafeInv /\ [Next]_vars => SafeInv' /\ [DoneKept]_vars
  BY SafeStep DEF SafeNext, Next, Uncancelled
<1> QED
  BY <1>1, InitSafeInv, PTL DEF Spec, DoneIsFinal, DoneKept

\* Of the requests of all clients that saw one failure, one is accepted.
THEOREM UncancelledOnce == UncancelledSpec => OneActionPerFailure
<1>1. SafeInv /\ [Uncancelled]_vars => SafeInv' /\ [OnceEach]_vars
  BY SafeStep DEF SafeNext
<1> QED
  BY <1>1, InitSafeInv, PTL DEF UncancelledSpec, OneActionPerFailure, OnceEach

THEOREM SerialOnce == ASSUME Gateway = {} PROVE Spec => OneActionPerFailure
<1>1. SafeInv /\ [Next]_vars => SafeInv' /\ [OnceEach]_vars
  BY SafeStep DEF SafeNext, Next, Uncancelled
<1> QED
  BY <1>1, InitSafeInv, PTL DEF Spec, OneActionPerFailure, OnceEach
=============================================================================
