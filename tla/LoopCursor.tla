----------------------------- MODULE LoopCursor ------------------------------
(***************************************************************************)
(* Frozen control flow: the branch a condition gateway selected and the    *)
(* cursor of a loop (execution_loop.py, _evaluate_condition_gateway), both *)
(* kept in task.control_flow_state so that a resume, which always walks    *)
(* the plan from its root, returns to the same branch and iteration.       *)
(*                                                                         *)
(* The plan is a condition gateway, a loop over a serial body, and the     *)
(* loop's exit node.  A loop iterates over frozen items (loop_gateway) or  *)
(* while a condition holds (a condition gateway with "loop").  As in       *)
(* NodeSequence a launch is one step; every other step is one save.        *)
(***************************************************************************)
EXTENDS FailurePolicy, Sequences, FiniteSets

CONSTANTS
  Branches,      \* first nodes of the gateway's branches, each a branch
  Body,          \* the sequence of the loop's body nodes
  ExitNode,      \* the exit branch of the loop
  MAX_LOOP_ITERATIONS,
  None,          \* no branch selected, no active iteration, no item list
  LpMaxExits,    \* bound: crashes
  LpMaxRequests  \* bound: accepted retry and skip requests

InBody == {Body[i] : i \in DOMAIN Body}

ASSUME LoopAssumption ==
  /\ Branches \subseteq Node /\ Branches # {}
  /\ Body \in Seq(Node) /\ Body # <<>>
  /\ \A i, j \in DOMAIN Body : Body[i] = Body[j] => i = j
  /\ ExitNode \in Node
  /\ Branches \cap InBody = {} /\ ExitNode \notin Branches \cup InBody
  /\ Node = Branches \cup InBody \cup {ExitNode}
  /\ MAX_LOOP_ITERATIONS \in Nat \ {0}
  /\ None \notin Node \cup Int

Kind       == {"items", "condition"}
Iteration  == 0..(MAX_LOOP_ITERATIONS + 1)
Phase      == {"ready", "running", "failed", "retry_waiting", "completed"}
TaskStatus == {"pending", "running", "retry_waiting", "completed", "failed"}
Terminal   == {"completed", "failed"}

\* What of a WorkflowTask the loop keeps or changes.
LoopTask == [st: TaskStatus, ns: [Node -> NodeState],
             choice: Branches \cup {None},    \* selected_target
             items: Iteration \cup {None},    \* length of the frozen list
             phase: Phase,
             active: Iteration \cup {None},   \* active_index, active_iteration
             next: Nat,                       \* next_index, next_iteration
             hist: Seq(Iteration)]            \* iteration_history

VARIABLES
  lpGiven,     \* the loop of the definition snapshot: kind, length of its list
  lpDisk,      \* the Task file
  lpMem,       \* the Task object of the runner
  lpCtl,       \* what the runner does
  lpBusy,      \* the node whose plugin runs, or None
  lpExecs,     \* history: executions per node and iteration (0 outside Body)
  lpAllowance,  \* history: executions the policy allows
  lpSettled,    \* history: completed and skipped (node, iteration) pairs
  lpExits, lpSent

lpVars == <<lpGiven, lpDisk, lpMem, lpCtl, lpBusy, lpExecs, lpAllowance, lpSettled,
            lpExits, lpSent>>

First == IF lpGiven.kind = "items" THEN 0 ELSE 1

LpInit ==
  /\ lpGiven \in [kind: Kind, items: Iteration]
  /\ lpDisk = [st |-> "pending", ns |-> [n \in Node |-> NewNode],
             choice |-> None, items |-> None, phase |-> "ready",
             active |-> None, next |-> First, hist |-> <<>>]
  /\ lpMem = lpDisk
  /\ lpCtl = "rest" /\ lpBusy = None
  /\ lpExecs = [n \in Node |-> [i \in Iteration |-> 0]]
  /\ lpAllowance = [n \in Node |-> [i \in Iteration |-> RetryBudget(n) + 1]]
  /\ lpSettled = {}
  /\ lpExits = 0 /\ lpSent = 0

-----------------------------------------------------------------------------
(***************************************************************************)
(* Nodes: the part of _execute_node_sequence the loop depends on.          *)
(***************************************************************************)
\* The nodes the runner walks, in order, at each place of the plan.
Line == CASE lpCtl = "branch" -> <<lpMem.choice>>
          [] lpCtl = "body"   -> Body
          [] lpCtl = "exit"   -> <<ExitNode>>
          [] OTHER          -> <<>>

\* The first node of the line that is not done.
AtNode(n) ==
  \E i \in DOMAIN Line :
    /\ n = Line[i] /\ ~Done(lpMem.ns[n])
    /\ \A j \in 1..(i - 1) : Done(lpMem.ns[Line[j]])

IterationOf(n) == IF n \in InBody THEN lpMem.active ELSE 0

Save(t) == lpMem' = t /\ lpDisk' = t

SaveNode(n, s) ==
  /\ Save([lpMem EXCEPT !.ns[n] = s])
  /\ lpSettled' = IF Done(s) THEN lpSettled \cup {<<n, IterationOf(n)>>} ELSE lpSettled

StartNode(n) ==
  /\ AtNode(n) /\ lpBusy = None /\ lpMem.ns[n].st = "pending"
  /\ SaveNode(n, BeginAttempt(lpMem.ns[n]))
  /\ lpBusy' = n
  /\ lpExecs' = [lpExecs EXCEPT ![n][IterationOf(n)] = @ + 1]
  /\ UNCHANGED <<lpGiven, lpCtl, lpAllowance, lpExits, lpSent>>

Completes(n) ==
  /\ lpBusy = n
  /\ SaveNode(n, [lpMem.ns[n] EXCEPT !.st = "completed"])
  /\ lpBusy' = None
  /\ UNCHANGED <<lpGiven, lpCtl, lpExecs, lpAllowance, lpExits, lpSent>>

Fails(n) ==
  /\ lpBusy = n
  /\ SaveNode(n, AfterFailure(n, [lpMem.ns[n] EXCEPT !.st = "failed"]))
  /\ lpBusy' = None
  /\ UNCHANGED <<lpGiven, lpCtl, lpExecs, lpAllowance, lpExits, lpSent>>

Rest == <<lpGiven, lpBusy, lpExecs, lpAllowance, lpSettled, lpExits, lpSent>>

\* The line stops at a node that failed or waits for its retry; a loop
\* records that in the phase of its cursor.
Stops(n) ==
  /\ AtNode(n) /\ lpBusy = None /\ lpMem.ns[n].st \in {"failed", "retry_waiting"}
  /\ Save(IF lpCtl = "body" THEN [lpMem EXCEPT !.phase = lpMem.ns[n].st] ELSE lpMem)
  /\ lpCtl' = lpMem.ns[n].st
  /\ UNCHANGED Rest

LineDone(c) ==
  /\ lpCtl = c /\ lpBusy = None
  /\ \A i \in DOMAIN Line : Done(lpMem.ns[Line[i]])

-----------------------------------------------------------------------------
(***************************************************************************)
(* The condition gateway.                                                  *)
(***************************************************************************)
Bug_ChooseAgain ==
  /\ lpCtl = "choose"
  /\ lpCtl' = "branch"
  /\ \E b \in Branches :
       Save([lpMem EXCEPT !.choice = b])
  /\ UNCHANGED Rest

\* The selection is frozen and the other branches are skipped, in one save.
\* Which condition holds depends on variables that others may change.
Choose ==
  /\ lpCtl = "choose"
  /\ lpCtl' = "branch"
  /\ \/ lpMem.choice # None /\ UNCHANGED <<lpMem, lpDisk>>
     \/ /\ lpMem.choice = None
        /\ \E b \in Branches :
             Save([lpMem EXCEPT !.choice = b, !.ns =
               [n \in Node |-> IF n \in Branches \ {b}
                               THEN [@[n] EXCEPT !.st = "skipped"] ELSE @[n]]])
  /\ UNCHANGED Rest

\* No condition holds and there is no default branch.
NoBranchMatches ==
  /\ lpCtl = "choose" /\ lpMem.choice = None
  /\ lpCtl' = "failed"
  /\ UNCHANGED <<lpMem, lpDisk, Rest>>

BranchDone ==
  /\ LineDone("branch")
  /\ Save(lpMem)
  /\ lpCtl' = "loop"
  /\ UNCHANGED Rest

-----------------------------------------------------------------------------
(***************************************************************************)
(* The loop.                                                               *)
(***************************************************************************)
Bug_TruncateItems ==
  /\ lpCtl = "loop" /\ lpGiven.kind = "items" /\ lpMem.items = None
  /\ Save([lpMem EXCEPT !.items = IF lpGiven.items > MAX_LOOP_ITERATIONS
                                THEN MAX_LOOP_ITERATIONS ELSE lpGiven.items])
  /\ UNCHANGED <<lpCtl, Rest>>

\* The list is frozen in the cursor before the first iteration; one that is
\* too long fails as a whole.
FreezeItems ==
  /\ lpCtl = "loop" /\ lpGiven.kind = "items" /\ lpMem.items = None
  /\ IF lpGiven.items > MAX_LOOP_ITERATIONS
     THEN lpCtl' = "failed" /\ UNCHANGED <<lpMem, lpDisk>>
     ELSE UNCHANGED lpCtl /\ Save([lpMem EXCEPT !.items = lpGiven.items])
  /\ UNCHANGED Rest

Current == IF lpMem.active = None THEN lpMem.next ELSE lpMem.active

\* Is there an iteration to start or to resume?
HasIteration ==
  /\ lpMem.phase # "completed"
  /\ IF lpGiven.kind = "items" THEN lpMem.items # None /\ Current < lpMem.items
                            ELSE Current <= MAX_LOOP_ITERATIONS

ResetNode(s) == [s EXCEPT !.st = "pending", !.auto = 0, !.trig = "initial"]

ResetBody(ns) ==
  [n \in Node |-> IF n \in InBody THEN ResetNode(ns[n]) ELSE ns[n]]

Bug_ResetOnResume ==
  /\ lpCtl = "loop" /\ HasIteration
  /\ Save([lpMem EXCEPT !.ns = ResetBody(@), !.active = Current, !.phase = "running"])
  /\ lpCtl' = "body"
  /\ UNCHANGED Rest

\* A new iteration resets the body; one that is active is resumed as it is.
StartIteration ==
  /\ lpCtl = "loop" /\ HasIteration
  /\ Save([lpMem EXCEPT !.ns = IF lpMem.active = None THEN ResetBody(@) ELSE @,
                      !.active = Current, !.phase = "running"])
  /\ lpCtl' = "body"
  /\ UNCHANGED Rest

Snapshot(t) == [t EXCEPT !.hist = Append(@, t.active)]

Bug_CursorStays(t) ==
  [Snapshot(t) EXCEPT !.active = None, !.phase = "ready"]

Bug_SnapshotAfterAdvance(t) ==
  Snapshot([t EXCEPT !.active = None, !.next = t.active + 1, !.phase = "ready"])

Advanced(t) ==
  [Snapshot(t) EXCEPT !.active = None, !.next = t.active + 1, !.phase = "ready"]

\* The snapshots and the advanced cursor are one save; so is, for a loop with
\* a condition, the end of the loop when it no longer holds.
EndIteration ==
  /\ LineDone("body")
  /\ \/ Save(Advanced(lpMem))
     \/ /\ lpGiven.kind = "condition"
        /\ Save([Advanced(lpMem) EXCEPT !.phase = "completed"])
  /\ lpCtl' = "loop"
  /\ UNCHANGED Rest

\* The loop is over, or was when the task was resumed.  The counter of a loop
\* that ran into the limit moves once more.
LoopDone ==
  /\ lpCtl = "loop" /\ ~HasIteration
  /\ lpGiven.kind = "items" => lpMem.items # None
  /\ \/ /\ lpMem.phase = "completed" \/ lpMem.items = 0
        /\ UNCHANGED <<lpMem, lpDisk>>
     \/ /\ lpMem.phase # "completed" /\ lpMem.items # 0
        /\ Save([lpMem EXCEPT !.phase = "completed",
                            !.next = IF lpGiven.kind = "items" THEN @ ELSE @ + 1])
  /\ lpCtl' = "exit"
  /\ UNCHANGED Rest

ExitDone ==
  /\ LineDone("exit")
  /\ lpCtl' = "completed"
  /\ UNCHANGED <<lpMem, lpDisk, Rest>>

-----------------------------------------------------------------------------
(***************************************************************************)
(* The Task around the plan, as in NodeSequence.                           *)
(***************************************************************************)
Outcome == {"completed", "failed", "retry_waiting"}

LpLaunch(ns) ==
  /\ Save([lpDisk EXCEPT !.st = "running", !.ns = ns])
  /\ lpCtl' = "choose" /\ lpBusy' = None

RunTask ==
  /\ lpCtl = "rest" /\ lpDisk.st = "pending"
  /\ LpLaunch(lpDisk.ns)
  /\ UNCHANGED <<lpGiven, lpExecs, lpAllowance, lpSettled, lpExits, lpSent>>

Persist ==
  /\ lpCtl \in Outcome
  /\ Save([lpMem EXCEPT !.st = lpCtl])
  /\ lpCtl' = "rest"
  /\ UNCHANGED Rest

LpTimerFires ==
  /\ lpCtl = "rest" /\ lpDisk.st = "retry_waiting"
  /\ LpLaunch([n \in Node |-> IF lpDisk.ns[n].st = "retry_waiting"
                            THEN ActivateRetry(lpDisk.ns[n]) ELSE lpDisk.ns[n]])
  /\ UNCHANGED <<lpGiven, lpExecs, lpAllowance, lpSettled, lpExits, lpSent>>

IterationOnDisk(n) == IF n \in InBody THEN lpDisk.active ELSE 0

MayControl(n) ==
  /\ lpCtl = "rest" /\ lpDisk.st \in {"failed", "retry_waiting"}
  /\ Controllable(lpDisk.ns[n])
  /\ lpSent < LpMaxRequests
  /\ lpSent' = lpSent + 1

RetryNode(n) ==
  /\ MayControl(n)
  /\ LpLaunch([lpDisk.ns EXCEPT ![n] = ManualRetry(@)])
  /\ lpAllowance' = [lpAllowance EXCEPT ![n][IterationOnDisk(n)] =
                     @ + RetryBudget(n) + 1]
  /\ UNCHANGED <<lpGiven, lpExecs, lpSettled, lpExits>>

SkipNode(n) ==
  /\ MayControl(n)
  /\ LpLaunch([lpDisk.ns EXCEPT ![n] = FailureSkip(@)])
  /\ lpSettled' = lpSettled \cup {<<n, IterationOnDisk(n)>>}
  /\ UNCHANGED <<lpGiven, lpExecs, lpAllowance, lpExits>>

LpCrash ==
  /\ lpCtl # "down" /\ lpExits < LpMaxExits
  /\ lpCtl' = "down" /\ lpBusy' = None /\ lpExits' = lpExits + 1
  /\ UNCHANGED <<lpGiven, lpDisk, lpMem, lpExecs, lpAllowance, lpSettled, lpSent>>

Recovered == [n \in Node |-> RecoverNode(n, lpDisk.ns[n])]

ResumeRequested(ns) ==
  \E n \in Node : ns[n].st = "pending" /\ ns[n].trig \in ResumeTriggers

Found(ns, st) == \E n \in Node : ns[n].st = st

Settle(st, ns) ==
  /\ Save([lpDisk EXCEPT !.st = st, !.ns = ns])
  /\ lpCtl' = "rest" /\ lpBusy' = None

Restart ==
  LET ns == Recovered IN
  /\ lpCtl = "down"
  /\ IF lpDisk.st \notin {"running", "retry_waiting"}
     THEN lpCtl' = "rest" /\ UNCHANGED <<lpMem, lpDisk, lpBusy>>
     ELSE \/ /\ ResumeRequested(ns)
                 \/ (~Found(ns, "retry_waiting") /\ ~Found(ns, "failed"))
             /\ LpLaunch(ns)
          \/ /\ ~ResumeRequested(ns) /\ Found(ns, "retry_waiting")
             /\ Settle("retry_waiting", ns)
          \/ /\ ~ResumeRequested(ns) /\ ~Found(ns, "retry_waiting")
             /\ Found(ns, "failed")
             /\ Settle("failed", ns)
  /\ lpSettled' = lpSettled \cup {<<n, IterationOnDisk(n)>> :
                               n \in {m \in Node : lpDisk.ns[m].st = "running"
                                                   /\ Done(ns[m])}}
  /\ UNCHANGED <<lpGiven, lpExecs, lpAllowance, lpExits, lpSent>>

-----------------------------------------------------------------------------
LpSystem ==
  \/ \E n \in Node : StartNode(n) \/ Completes(n) \/ Fails(n) \/ Stops(n)
  \/ Choose \/ NoBranchMatches \/ BranchDone
  \/ FreezeItems \/ StartIteration \/ EndIteration \/ LoopDone \/ ExitDone
  \/ Persist \/ LpTimerFires \/ Restart

LpEnvironment ==
  \/ RunTask \/ LpCrash
  \/ \E n \in Node : RetryNode(n) \/ SkipNode(n)

LpNext == LpSystem \/ LpEnvironment
LpSpec == LpInit /\ [][LpNext]_lpVars

\* The event loop runs what is ready, plugins return, the timer fires and a
\* dead process is restarted.
LpFairSpec == LpSpec /\ WF_lpVars(LpSystem)

-----------------------------------------------------------------------------
(***************************************************************************)
(* Properties.                                                             *)
(***************************************************************************)
\* Every variable holds a value of its type.
LoopTypeOK ==
  /\ lpGiven \in [kind: Kind, items: Iteration]
  /\ lpDisk \in LoopTask /\ lpMem \in LoopTask
  /\ lpCtl \in {"rest", "choose", "branch", "loop", "body", "exit", "down"} \cup Outcome
  /\ lpBusy \in Node \cup {None}
  /\ lpExecs \in [Node -> [Iteration -> Nat]]
  /\ lpAllowance \in [Node -> [Iteration -> Nat]]
  /\ lpSettled \subseteq Node \X Iteration
  /\ lpExits \in Nat /\ lpSent \in Nat

\* Iterations are recorded once each and in order, and the cursor on disk is
\* always at the one after the last recorded: no crash between the body, the
\* snapshot and the cursor repeats or loses an iteration.
HistoryExact ==
  /\ lpDisk.hist = [i \in 1..Len(lpDisk.hist) |-> First + i - 1]
  /\ lpDisk.active # None => lpDisk.active = First + Len(lpDisk.hist)
  /\ lpDisk.active = None /\ (lpGiven.kind = "items" \/ lpDisk.phase # "completed")
       => lpDisk.next = First + Len(lpDisk.hist)

\* A node that settled in an iteration is not executed again in it, however
\* often the task fails, waits, is resumed or recovered.
OncePerIteration ==
  [][\A n \in Node, i \in Iteration :
       lpExecs'[n][i] > lpExecs[n][i] => <<n, i>> \notin lpSettled]_lpVars

\* Every iteration has its own retry budget and keeps to it.
BudgetPerIteration ==
  \A n \in Node, i \in Iteration : lpExecs[n][i] <= lpAllowance[n][i]

\* What follows the loop runs only after the loop ran over its whole list (or
\* its condition ended it), and every recorded iteration settled its body.
ExitAfterLoop ==
  /\ lpDisk.ns[ExitNode].att > 0 /\ lpGiven.kind = "items" => Len(lpDisk.hist) = lpGiven.items
  /\ lpDisk.ns[ExitNode].att > 0 => lpDisk.phase = "completed" \/ lpGiven.items = 0
  /\ \A i \in DOMAIN lpDisk.hist : InBody \X {lpDisk.hist[i]} \subseteq lpSettled

\* However often the plan is walked again and whatever the variables say by
\* then, at most one branch of the gateway ever executes.
OneBranch == Cardinality({b \in Branches : lpExecs[b][0] > 0}) <= 1

\* execution_loop.py, execution_flow.py: what the frozen branch, list and cursor
\* are for, each of the four above.
LoopExact == HistoryExact /\ BudgetPerIteration /\ ExitAfterLoop /\ OneBranch

\* A loop with failing nodes comes to an end.
LoopSettles == (lpDisk.st \in {"running", "retry_waiting"}) ~> (lpDisk.st \in Terminal)
=============================================================================
