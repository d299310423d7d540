---------------------------- MODULE NodeSequence -----------------------------
(***************************************************************************)
(* Rejection and rework: how _execute_node_sequence (execution_flow.py)    *)
(* walks one sequence of nodes when a downstream node sends an upstream    *)
(* one back (reject_upstream) and when a person rejects an approval that   *)
(* does not start its sequence.                                            *)
(*                                                                         *)
(* WorkflowTask has launches, control locks and cancellation; here a       *)
(* launch is one step, so that a node state can carry the two rejection    *)
(* counters.  Two statuses exist only in such sequences: waiting_retry (a  *)
(* node just rejected) and rejected (an approval, until it is handled).    *)
(*                                                                         *)
(* Every step ends with the save the code makes at that point; the steps   *)
(* that do not save say UNCHANGED task.                                    *)
(***************************************************************************)
EXTENDS FailurePolicy, Sequences

CONSTANTS
  Order,        \* the nodes in execution order
  Starts,       \* positions at which a sequence starts (i = 0)
  Approval,     \* nodes of type approval
  Targets,      \* nodes that each node can reject: its edges, target_node_id
  MaxReject,    \* max_reject_count of each node
  Resident,     \* nodes whose Session stays in the session manager
  NoTarget,     \* no rejection was accepted in this execution
  SqMaxExits,     \* bound: crashes
  SqMaxRequests   \* bound: accepted retry and skip requests

MAX_REJECTION_COUNT == 3

SqNode == {Order[i] : i \in DOMAIN Order}

ASSUME SequenceAssumption ==
  /\ Order \in Seq(Node)
  /\ \A i, j \in DOMAIN Order : Order[i] = Order[j] => i = j
  /\ Starts \subseteq DOMAIN Order /\ 1 \in Starts
  /\ Approval \subseteq SqNode /\ Resident \subseteq SqNode
  /\ Targets \in [SqNode -> SUBSET SqNode]
  /\ \A n \in SqNode : n \notin Targets[n]
  \* Only agents and scripts can reject.
  /\ \A n \in Approval : Targets[n] = {}
  /\ MaxReject \in [SqNode -> Nat]
  /\ NoTarget \notin SqNode

SeqStatus  == NodeStatus \cup {"waiting_retry", "rejected"}
SeqTrigger == Trigger \cup {"validator_retry"}
SeqState   == [st: SeqStatus, att: Nat, auto: Nat, trig: SeqTrigger,
               rej: Nat,    \* reject_upstream_count
               veto: Nat]   \* rejection_count

NewState == [st |-> "pending", att |-> 0, auto |-> 0, trig |-> "initial",
             rej |-> 0, veto |-> 0]

SqTaskStatus  == {"pending", "running", "retry_waiting", "completed", "failed"}
SqRecoverable == {"running", "retry_waiting"}
SqControl == {"rest",        \* no runner
            "next",        \* at the head of the loop
            "exec",        \* the plugin of the current node runs
            "wait",        \* an approval waits for its decision
            "reissue",     \* the rejected node is saved as pending
            "rework",      \* the plugin of the rejected node runs
            "reworkWait",  \* a rejected approval waits for its decision
            "skipDown",    \* the rejected node was skipped by its policy
            "end",         \* the outcome is about to be persisted
            "down"}        \* the process is dead

VARIABLES
  sqTask,       \* the persisted Task: status and node states
  sqMem,        \* task.node_states of the runner
  sqCtl, sqPos,   \* where the runner is
  sqTarget,     \* rejected_upstream_id of the current execution, or NoTarget
  sqOutcome,    \* what the sequence returned
  sqExecs,      \* history: plugin executions begun, per node
  sqAllowance,  \* history: executions policy and rejections allow, per node
  sqSentBack,   \* history: accepted rejections, per rejected node
  sqOwed,       \* history: nodes that rejected and did not execute since
  sqTorn,       \* history: nodes saved with an attempt number already used
  sqExits, sqSent \* counters the bounds apply to

sqRunner  == <<sqMem, sqCtl, sqPos, sqTarget, sqOutcome>>
sqLedger  == <<sqExecs, sqAllowance, sqSentBack, sqOwed, sqTorn>>
sqVars    == <<sqTask, sqRunner, sqLedger, sqExits, sqSent>>

SqInit ==
  /\ sqTask = [st |-> "pending", ns |-> [n \in SqNode |-> NewState]]
  /\ sqMem = sqTask.ns
  /\ sqCtl = "rest" /\ sqPos = 1
  /\ sqTarget = NoTarget
  /\ sqOutcome = "failed"
  /\ sqExecs = [n \in SqNode |-> 0]
  /\ sqAllowance = [n \in SqNode |-> RetryBudget(n) + 1]
  /\ sqSentBack = [n \in SqNode |-> 0]
  /\ sqOwed = {} /\ sqTorn = {}
  /\ sqExits = 0 /\ sqSent = 0

-----------------------------------------------------------------------------
(***************************************************************************)
(* The loop of the sequence.                                               *)
(***************************************************************************)
SqSave(ns) == sqTask' = [sqTask EXCEPT !.ns = ns]

\* mem becomes ns and is saved.
SqCheckpoint(ns) == sqMem' = ns /\ SqSave(ns)

Here(n, c) == sqCtl = c /\ sqPos <= Len(Order) /\ n = Order[sqPos]

\* The statuses a sequence does not enter.
Blocking == {"failed", "rejected", "retry_waiting", "running"}

Return(o) == sqCtl' = "end" /\ sqOutcome' = o

SqStartNode(n) ==
  /\ Here(n, "next")
  /\ ~Done(sqMem[n]) /\ sqMem[n].st \notin Blocking
  /\ SqCheckpoint([sqMem EXCEPT ![n] = BeginAttempt(@)])
  /\ sqCtl' = "exec" /\ sqTarget' = NoTarget
  /\ sqExecs' = [sqExecs EXCEPT ![n] = @ + 1]
  /\ sqOwed' = sqOwed \ {n}
  /\ UNCHANGED <<sqPos, sqOutcome, sqAllowance, sqSentBack, sqTorn, sqExits, sqSent>>

PassNode(n) ==
  /\ Here(n, "next") /\ Done(sqMem[n])
  /\ sqPos' = sqPos + 1
  /\ UNCHANGED <<sqTask, sqMem, sqCtl, sqTarget, sqOutcome, sqLedger, sqExits, sqSent>>

Blocked(n) ==
  /\ Here(n, "next") /\ sqMem[n].st \in Blocking
  /\ Return(IF sqMem[n].st = "retry_waiting" THEN "retry_waiting" ELSE "failed")
  /\ UNCHANGED <<sqTask, sqMem, sqPos, sqTarget, sqLedger, sqExits, sqSent>>

SequenceDone ==
  /\ sqCtl = "next" /\ sqPos > Len(Order)
  /\ Return("completed")
  /\ UNCHANGED <<sqTask, sqMem, sqPos, sqTarget, sqLedger, sqExits, sqSent>>

With(n, st) == [sqMem EXCEPT ![n].st = st]

\* _apply_failed_node_policy on a node of the given states.
Policy(ns, n) == [ns EXCEPT ![n] = AfterFailure(n, [@ EXCEPT !.st = "failed"])]

\* The node is settled as ns says and the sequence goes on behind it.
Advance(ns) ==
  /\ SqCheckpoint(ns)
  /\ sqCtl' = "next" /\ sqPos' = sqPos + 1
  /\ UNCHANGED <<sqTarget, sqOutcome, sqLedger, sqExits, sqSent>>

SqStop(ns, o) ==
  /\ SqCheckpoint(ns)
  /\ Return(o)
  /\ UNCHANGED <<sqPos, sqTarget, sqLedger, sqExits, sqSent>>

SqCompletes(n) ==
  /\ Here(n, "exec") /\ n \notin Approval /\ sqTarget = NoTarget
  /\ Advance(With(n, "completed"))

Bug_SkippedStillFails(n) ==
  LET ns == Policy(sqMem, n)
  IN  SqStop(ns, IF ns[n].st = "retry_waiting" THEN "retry_waiting" ELSE "failed")

FailsWithPolicy(n) ==
  LET ns == Policy(sqMem, n)
  IN  IF ns[n].st = "skipped" THEN Advance(ns) ELSE SqStop(ns, ns[n].st)

SqFails(n) ==
  /\ Here(n, "exec") /\ n \notin Approval /\ sqTarget = NoTarget
  /\ FailsWithPolicy(n)

AwaitApproval(n) ==
  /\ Here(n, "exec") /\ n \in Approval
  /\ SqCheckpoint(With(n, "waiting_approval"))
  /\ sqCtl' = "wait"
  /\ UNCHANGED <<sqPos, sqTarget, sqOutcome, sqLedger, sqExits, sqSent>>

Approve(n) == Here(n, "wait") /\ Advance(With(n, "completed"))

ApprovalFails(n) == Here(n, "wait") /\ FailsWithPolicy(n)

-----------------------------------------------------------------------------
(***************************************************************************)
(* A rejected approval: roll back to the previous node of the sequence if  *)
(* its Session can be reached, fail otherwise.                             *)
(***************************************************************************)
Vetoed(n) == [sqMem EXCEPT ![n].veto = IF sqPos \in Starts THEN @ ELSE @ + 1]

CanRollBack(n) ==
  /\ sqPos \notin Starts
  /\ Vetoed(n)[n].veto < MAX_REJECTION_COUNT
  /\ Order[sqPos - 1] \in Resident
  /\ sqMem[Order[sqPos - 1]].st = "completed"

RollBack(n) ==
  /\ Here(n, "wait") /\ CanRollBack(n)
  /\ SqCheckpoint([Vetoed(n) EXCEPT ![n].st = "pending",
                                  ![Order[sqPos - 1]].st = "running"])
  /\ sqPos' = sqPos - 1 /\ sqCtl' = "next"
  /\ sqAllowance' = [sqAllowance EXCEPT ![n] = @ + 1]
  /\ UNCHANGED <<sqTarget, sqOutcome, sqExecs, sqSentBack, sqOwed, sqTorn, sqExits, sqSent>>

Veto(n) ==
  /\ Here(n, "wait") /\ ~CanRollBack(n)
  /\ SqStop([Vetoed(n) EXCEPT ![n].st = "failed"], "failed")

-----------------------------------------------------------------------------
(***************************************************************************)
(* reject_upstream.                                                        *)
(***************************************************************************)
Bug_RejectOnceMore(n, u) ==
  /\ Here(n, "exec") /\ sqTarget = NoTarget
  /\ u \in Targets[n] /\ sqMem[u].rej <= MaxReject[n]
  /\ sqTarget' = u
  /\ sqMem' = [sqMem EXCEPT ![u].st = "waiting_retry", ![u].rej = @ + 1,
                        ![n].att = @ - 1]
  /\ sqSentBack' = [sqSentBack EXCEPT ![u] = @ + 1]
  /\ sqAllowance' = [sqAllowance EXCEPT ![u] = @ + RetryBudget(u) + 1, ![n] = @ + 1]
  /\ sqOwed' = sqOwed \cup {n}
  /\ UNCHANGED <<sqTask, sqCtl, sqPos, sqOutcome, sqExecs, sqTorn, sqExits, sqSent>>

\* The callback: at most one rejection per execution, not saved yet.  It puts
\* the object from before the attempt back into task.node_states, whose
\* attempt_count is one less.
RejectUpstream(n, u) ==
  /\ Here(n, "exec") /\ sqTarget = NoTarget
  /\ u \in Targets[n] /\ sqMem[u].rej < MaxReject[n]
  /\ sqTarget' = u
  /\ sqMem' = [sqMem EXCEPT ![u].st = "waiting_retry", ![u].rej = @ + 1,
                        ![n].att = @ - 1]
  /\ sqSentBack' = [sqSentBack EXCEPT ![u] = @ + 1]
  /\ sqAllowance' = [sqAllowance EXCEPT ![u] = @ + RetryBudget(u) + 1, ![n] = @ + 1]
  /\ sqOwed' = sqOwed \cup {n}
  /\ UNCHANGED <<sqTask, sqCtl, sqPos, sqOutcome, sqExecs, sqTorn, sqExits, sqSent>>

\* A parallel branch of the same Task saves while the rejecting node goes on.
SiblingSaves(n) ==
  /\ Here(n, "exec") /\ sqTarget # NoTarget /\ sqTask.ns # sqMem
  /\ SqSave(sqMem)
  /\ sqTorn' = sqTorn \cup {n}
  /\ UNCHANGED <<sqRunner, sqExecs, sqAllowance, sqSentBack, sqOwed, sqExits, sqSent>>

\* The attempt that rejected is recorded, its number included.
Concluded(s, st) == [s EXCEPT !.st = st, !.att = @ + 1]

\* The node that rejected ends, with any status: its state is recorded, the
\* rejected node is prepared with a new failure chain, both are saved.
EndsRejecting(n) ==
  /\ Here(n, "exec") /\ sqTarget # NoTarget
  /\ \E st \in {"completed", "failed"} :
       SqCheckpoint([sqMem EXCEPT
         ![n]        = Concluded(@, st),
         ![sqTarget] = [ManualRetry(@) EXCEPT !.trig = "validator_retry"]])
  /\ sqCtl' = "reissue"
  /\ UNCHANGED <<sqPos, sqTarget, sqOutcome, sqLedger, sqExits, sqSent>>

Bug_ReworkWithoutCheckpoint ==
  /\ sqCtl = "reissue"
  /\ sqMem' = [sqMem EXCEPT ![sqTarget] = BeginAttempt(@)]
  /\ sqExecs' = [sqExecs EXCEPT ![sqTarget] = @ + 1]
  /\ sqCtl' = "rework"
  /\ UNCHANGED <<sqTask, sqPos, sqTarget, sqOutcome, sqAllowance, sqSentBack, sqOwed, sqTorn, sqExits, sqSent>>

StartRework ==
  /\ sqCtl = "reissue"
  /\ SqCheckpoint([sqMem EXCEPT ![sqTarget] = BeginAttempt(@)])
  /\ sqExecs' = [sqExecs EXCEPT ![sqTarget] = @ + 1]
  /\ sqOwed' = sqOwed \ {sqTarget}
  /\ sqCtl' = "rework"
  /\ UNCHANGED <<sqPos, sqTarget, sqOutcome, sqAllowance, sqSentBack, sqTorn, sqExits, sqSent>>

AwaitRework ==
  /\ sqCtl = "rework" /\ sqTarget \in Approval
  /\ SqCheckpoint(With(sqTarget, "waiting_approval"))
  /\ sqCtl' = "reworkWait"
  /\ UNCHANGED <<sqPos, sqTarget, sqOutcome, sqLedger, sqExits, sqSent>>

ReworkRuns == sqCtl = IF sqTarget \in Approval THEN "reworkWait" ELSE "rework"

Bug_DownstreamKeepsResult(ns) == ns

\* The node that rejected is to be executed again.
Revalidate(ns) == [ns EXCEPT ![Order[sqPos]].st = "pending"]

\* Any status but failed: the current node is executed next.
ReworkEnds(st) ==
  /\ ReworkRuns
  /\ SqCheckpoint(Revalidate(With(sqTarget, st)))
  /\ sqCtl' = "next"
  /\ UNCHANGED <<sqPos, sqTarget, sqOutcome, sqLedger, sqExits, sqSent>>

ReworkCompletes == ReworkEnds("completed")
ReworkVetoed    == sqTarget \in Approval /\ ReworkEnds("rejected")

Bug_ReworkFailureIgnored ==
  LET ns == Revalidate(Policy(sqMem, sqTarget))
  IN  /\ ReworkRuns
      /\ SqCheckpoint(ns)
      /\ sqCtl' = "next"
      /\ UNCHANGED <<sqPos, sqTarget, sqOutcome, sqLedger, sqExits, sqSent>>

ReworkFails ==
  LET ns == Revalidate(Policy(sqMem, sqTarget))
  IN  /\ ReworkRuns
      /\ SqCheckpoint(ns)
      /\ IF ns[sqTarget].st = "skipped"
         THEN sqCtl' = "skipDown" /\ UNCHANGED sqOutcome
         ELSE Return(ns[sqTarget].st)
      /\ UNCHANGED <<sqPos, sqTarget, sqLedger, sqExits, sqSent>>

Bug_SkipDownTwice ==
  /\ sqCtl = "skipDown"
  /\ SqCheckpoint(With(Order[sqPos], "skipped"))
  /\ sqCtl' = "next" /\ sqPos' = sqPos + 2
  /\ UNCHANGED <<sqTarget, sqOutcome, sqLedger, sqExits, sqSent>>

\* The node that rejected is skipped together with the one it rejected.
SkipDown ==
  /\ sqCtl = "skipDown"
  /\ Advance(With(Order[sqPos], "skipped"))

-----------------------------------------------------------------------------
(***************************************************************************)
(* The Task around the sequence: start, outcome, timer, requests, crash.   *)
(***************************************************************************)
SqLaunch(ns) ==
  /\ sqTask' = [st |-> "running", ns |-> ns]
  /\ sqMem' = ns
  /\ sqCtl' = "next" /\ sqPos' = 1
  /\ sqTarget' = NoTarget
  /\ UNCHANGED sqOutcome

SqRunTask ==
  /\ sqCtl = "rest" /\ sqTask.st = "pending"
  /\ SqLaunch(sqTask.ns)
  /\ UNCHANGED <<sqLedger, sqExits, sqSent>>

SqPersist ==
  /\ sqCtl = "end"
  /\ sqTask' = [st |-> sqOutcome, ns |-> sqMem]
  /\ sqCtl' = "rest"
  /\ UNCHANGED <<sqMem, sqPos, sqTarget, sqOutcome, sqLedger, sqExits, sqSent>>

SqTimerFires ==
  /\ sqCtl = "rest" /\ sqTask.st = "retry_waiting"
  /\ SqLaunch([n \in SqNode |-> IF sqTask.ns[n].st = "retry_waiting"
                            THEN ActivateRetry(sqTask.ns[n]) ELSE sqTask.ns[n]])
  /\ UNCHANGED <<sqLedger, sqExits, sqSent>>

SqMayControl(n) ==
  /\ sqCtl = "rest" /\ sqTask.st \in {"failed", "retry_waiting"}
  /\ Controllable(sqTask.ns[n])
  /\ sqSent < SqMaxRequests
  /\ sqSent' = sqSent + 1

SqRetryNode(n) ==
  /\ SqMayControl(n)
  /\ SqLaunch([sqTask.ns EXCEPT ![n] = ManualRetry(@)])
  /\ sqAllowance' = [sqAllowance EXCEPT ![n] = @ + RetryBudget(n) + 1]
  /\ UNCHANGED <<sqExecs, sqSentBack, sqOwed, sqTorn, sqExits>>

SqSkipNode(n) ==
  /\ SqMayControl(n)
  /\ SqLaunch([sqTask.ns EXCEPT ![n] = FailureSkip(@)])
  /\ UNCHANGED <<sqLedger, sqExits>>

SqCrash ==
  /\ sqCtl # "down" /\ sqExits < SqMaxExits
  /\ sqCtl' = "down" /\ sqExits' = sqExits + 1
  /\ UNCHANGED <<sqTask, sqMem, sqPos, sqTarget, sqOutcome, sqLedger, sqSent>>

SqRecovered == [n \in SqNode |-> RecoverNode(n, sqTask.ns[n])]

\* A rejected node that is to be reworked requests nothing: a failed node settles
\* the task before it.
SqResumeRequested(ns) ==
  \E n \in SqNode : ns[n].st = "pending" /\ ns[n].trig \in ResumeTriggers

SqFound(ns, st) == \E n \in SqNode : ns[n].st = st

SqSettle(st, ns) ==
  /\ sqTask' = [st |-> st, ns |-> ns]
  /\ sqCtl' = "rest"
  /\ UNCHANGED <<sqMem, sqPos, sqTarget, sqOutcome>>

\* _recover_task; a reissued approval is one execution more.
SqRestart ==
  LET ns == SqRecovered IN
  /\ sqCtl = "down"
  /\ \/ /\ sqTask.st \notin SqRecoverable
        /\ sqCtl' = "rest"
        /\ UNCHANGED <<sqTask, sqMem, sqPos, sqTarget, sqOutcome>>
     \/ /\ sqTask.st \in SqRecoverable
        /\ SqResumeRequested(ns) \/ (~SqFound(ns, "retry_waiting") /\ ~SqFound(ns, "failed"))
        /\ SqLaunch(ns)
     \/ /\ sqTask.st \in SqRecoverable /\ ~SqResumeRequested(ns)
        /\ SqFound(ns, "retry_waiting")
        /\ SqSettle("retry_waiting", ns)
     \/ /\ sqTask.st \in SqRecoverable /\ ~SqResumeRequested(ns)
        /\ ~SqFound(ns, "retry_waiting") /\ SqFound(ns, "failed")
        /\ SqSettle("failed", ns)
  /\ sqAllowance' = [n \in SqNode |->
       IF sqTask.st \in SqRecoverable /\ sqTask.ns[n].st = "waiting_approval"
       THEN sqAllowance[n] + 1 ELSE sqAllowance[n]]
  /\ UNCHANGED <<sqExecs, sqSentBack, sqOwed, sqTorn, sqExits, sqSent>>

-----------------------------------------------------------------------------
SqSystem ==
  \/ \E n \in SqNode :
       \/ SqStartNode(n) \/ PassNode(n) \/ Blocked(n)
       \/ SqCompletes(n) \/ SqFails(n) \/ AwaitApproval(n) \/ ApprovalFails(n)
       \/ EndsRejecting(n)
  \/ SequenceDone
  \/ StartRework \/ AwaitRework \/ ReworkCompletes \/ ReworkFails \/ SkipDown
  \/ SqPersist \/ SqTimerFires \/ SqRestart

SqEnvironment ==
  \/ SqRunTask \/ SqCrash \/ ReworkVetoed
  \/ \E n \in SqNode :
       \/ Approve(n) \/ RollBack(n) \/ Veto(n)
       \/ SiblingSaves(n)
       \/ SqRetryNode(n) \/ SqSkipNode(n)
       \/ \E u \in SqNode : RejectUpstream(n, u)

SqNext == SqSystem \/ SqEnvironment
SqSpec == SqInit /\ [][SqNext]_sqVars

\* Every ready callback of the event loop runs, plugins return, an approval
\* fails after 24 hours, the timer fires, a dead process is restarted.
SqFairSpec == SqSpec /\ WF_sqVars(SqSystem)

-----------------------------------------------------------------------------
(***************************************************************************)
(* Properties.                                                             *)
(***************************************************************************)
\* Every variable holds a value of its type.
SeqTypeOK ==
  /\ sqTask \in [st: SqTaskStatus, ns: [SqNode -> SeqState]]
  /\ sqMem \in [SqNode -> SeqState]
  /\ sqCtl \in SqControl /\ sqPos \in 1..(Len(Order) + 1)
  /\ sqTarget \in SqNode \cup {NoTarget}
  /\ sqOutcome \in {"completed", "failed", "retry_waiting"}
  /\ sqExecs \in [SqNode -> Nat] /\ sqAllowance \in [SqNode -> Nat]
  /\ sqSentBack \in [SqNode -> Nat]
  /\ sqOwed \subseteq SqNode /\ sqTorn \subseteq SqNode
  /\ sqExits \in Nat /\ sqSent \in Nat

\* An attempt is counted on disk before its plugin runs, in rework too; the
\* exception is a node whose pre-attempt object a sibling saved while the node
\* was rejecting (the callback puts that object back).
AttemptsCounted == \A n \in SqNode \ sqTorn : sqTask.ns[n].att = sqExecs[n]

\* Retries, rejections, rework and crashes together never execute a node more
\* often than its budget, the rejections it received or made, and the manual
\* retries add up to.
ExecutionsBounded == \A n \in SqNode : sqExecs[n] <= sqAllowance[n]

\* The rejections of a node are limited by the most generous of the nodes that
\* can reject it, over retries and manual resumes; a crash can lose the record
\* of one that was accepted and not yet saved.
RejectionsBounded ==
  \A u \in SqNode : sqSentBack[u] > 0 =>
    \E n \in SqNode : u \in Targets[n] /\ sqSentBack[u] <= MaxReject[n] + sqExits

\* execution_flow.py: the three counts of a node keep to what they are worth.
CountsHold == AttemptsCounted /\ ExecutionsBounded /\ RejectionsBounded

\* A node executes in its place only when everything before it is settled:
\* rework that failed or still waits for a retry is never overtaken.  (An
\* approval a person rejects while it is reworked is: it counts as an answer.)
SqAnswered(s) == Done(s) \/ s.st = "rejected"
OrderKept ==
  [][\A i \in DOMAIN Order :
       sqCtl = "next" /\ sqExecs'[Order[i]] > sqExecs[Order[i]]
         => \A j \in 1..(i - 1) : SqAnswered(sqTask'.ns[Order[j]])]_sqVars

\* A task that completed validated its rework: a node that rejected another
\* one was executed again afterwards, or one of the two was skipped.
Validated ==
  sqTask.st = "completed" => \A n \in sqOwed : sqTask.ns[n].st = "skipped"

\* The same as long as the process does not die.
ReworkIsValidated == sqExits = 0 => Validated

AtRest == sqCtl = "rest"

\* A failed task at rest has a failed node, the ones retry and skip accept.
Repairable == AtRest /\ sqTask.st = "failed" => SqFound(sqTask.ns, "failed")

\* The node before a rejected approval, left running by the roll-back.
RolledBack(i) ==
  /\ i + 1 \in DOMAIN Order
  /\ sqTask.ns[Order[i]].st = "running" /\ sqTask.ns[Order[i + 1]].veto > 0

\* A failed task at rest has a failed node, unless a person's rejection left
\* it without one: rolled back to a running node, or recorded as rejected in
\* an approval that was being reworked.
RepairableUnlessRejected ==
  AtRest /\ sqTask.st = "failed" =>
    \/ SqFound(sqTask.ns, "failed")
    \/ SqFound(sqTask.ns, "rejected")
    \/ \E i \in DOMAIN Order : RolledBack(i)

\* execution_flow.py: what rejections leave behind is consistent: counts, rework that
\* was seen again, and a failed task that can be repaired.
SequenceSound == CountsHold /\ ReworkIsValidated /\ RepairableUnlessRejected

\* However nodes fail and reject each other, the sequence comes to an end.
SequenceSettles ==
  (sqTask.st \in SqRecoverable) ~> (sqTask.st \in {"completed", "failed"})
=============================================================================
