------------------------ MODULE WorkflowTaskOutcome -------------------------
(***************************************************************************)
(* What the status of a Task says of its nodes, and that the model of the  *)
(* runner implements the life cycle of TaskLifecycle: for every plan,      *)
(* retry budget and bound, under the steps WorkflowTaskSafety is about.    *)
(***************************************************************************)
EXTENDS WorkflowTaskSafety

-----------------------------------------------------------------------------
(***************************************************************************)
(* The inductive invariant, on top of SafeInv.                             *)
(***************************************************************************)
\* Nodes are reached in the order of the plan.
Reached(s) == s.st \notin {"pending", "skipped"}

Before(m, n) ==
  \/ StageOf[BranchOf[m]] < StageOf[BranchOf[n]]
  \/ BranchOf[m] = BranchOf[n] /\ Pos[m] < Pos[n]

InOrder ==
  \A m, n \in Node : Before(m, n) /\ Reached(disk.ns[n]) => Done(disk.ns[m])

\* The steps behind the runner are done.
Behind(n) ==
  \/ StageOf[BranchOf[n]] < stage
  \/ runner = "merging" /\ StageOf[BranchOf[n]] = stage

Passed ==
  runner \in {"stage", "merging"} => \A n \in Node : Behind(n) => Done(disk.ns[n])

\* What a branch task returned is true of the nodes of its branch.
BranchSays(b, w, ns) ==
  /\ w = "completed" => \A n \in Nodes(b) : Done(ns[n])
  /\ w = "failed" => /\ \E n \in Nodes(b) : ns[n].st = "failed"
                     /\ \A n \in Nodes(b) : ns[n].st # "retry_waiting"
  /\ w = "retry_waiting" => \E n \in Nodes(b) : ns[n].st = "retry_waiting"

Reported ==
  runner = "stage" => \A b \in Branches(stage) : BranchSays(b, worker[run][b], disk.ns)

\* So is what the plan and the file say.
Verdict(st, ns) ==
  /\ st = "pending" => \A n \in Node : ~Reached(ns[n])
  /\ st = "completed" => \A n \in Node : Done(ns[n])
  /\ st = "failed" => Found(ns, "failed") /\ ~Found(ns, "retry_waiting")
  /\ st = "retry_waiting" => Found(ns, "retry_waiting")

\* Only a launch that failed outside the nodes fails the task without one.
Verified(st) == Verdict(st, disk.ns) \/ (st = "failed" /\ mishap = "derailed")

Judged ==
  /\ runner = "finalizing" => mem[run].st \in Outcome /\ Verified(mem[run].st)
  /\ Verified(disk.st)

\* Who sees to a task that is not over.
Handed ==
  /\ lock # "free" => up /\ runner = "none"
  /\ lock = "handoff" => file /\ disk.st = "resume_pending"
  /\ lock \in {"stop", "delete", "exit"} => disk.st \in Terminal \cup {"running"}
  /\ runner = "releasing" => disk.st \in Terminal
  /\ up /\ file =>
       /\ disk.st = "retry_waiting" => timer
       /\ disk.st = "resume_pending" => lock = "handoff" \/ mishap = "refused"
       /\ disk.st = "running" => runner # "none" \/ lock \in {"stop", "delete", "exit"}
  /\ file /\ disk.st \notin {"running", "stopped"} => NoMid

OutInv  == InOrder /\ Passed /\ Reported /\ Judged /\ Handed
FullInv == SafeInv /\ OutInv

LEMMA Positions ==
  /\ \A n \in Node : Pos[n] \in Nat /\ BranchOf[n] \in Branch
  /\ \A b \in Branch : StageOf[b] \in Nat /\ StageOf[b] >= 1 /\ StageOf[b] <= LastStage
  /\ LastStage \in Nat
BY PlanAssumption DEF Stage

\* Two nodes of a branch are the same or one comes before the other.
LEMMA Sequential ==
  ASSUME NEW m \in Node, NEW n \in Node, BranchOf[m] = BranchOf[n]
  PROVE  m = n \/ Before(m, n) \/ Before(n, m)
<1>1. Pos[m] \in Nat /\ Pos[n] \in Nat
  BY Positions
<1>2. Pos[m] = Pos[n] => m = n
  BY PlanAssumption
<1> QED
  BY <1>1, <1>2 DEF Before

\* The order is kept by steps that keep what is done and reach nothing.
LEMMA InOrderKept ==
  ASSUME InOrder, DoneKept,
         \A n \in Node : Reached(disk'.ns[n]) => Reached(disk.ns[n])
  PROVE  InOrder'
<1> SUFFICES ASSUME NEW m \in Node, NEW n \in Node, Before(m, n), Reached(disk'.ns[n])
             PROVE  Done(disk'.ns[m])
  BY DEF InOrder, Before
<1>1. Done(disk.ns[m])
  BY DEF InOrder
<1> QED
  BY <1>1 DEF DoneKept

-----------------------------------------------------------------------------
(***************************************************************************)
(* Steps of branch tasks.                                                  *)
(***************************************************************************)
\* In the branch of the node it stopped at, a branch task left nothing waiting.
LEMMA StoppedBranch ==
  ASSUME TypeInv, InOrder, run \in Runs, mem[run].ns = disk.ns,
         NEW n \in Node, AtNode(run, n), NEW m \in Node, m # n, BranchOf[m] = BranchOf[n]
  PROVE  disk.ns[m].st # "retry_waiting"
<1>1. CASE Before(m, n)
  <2>1. ~(Pos[n] < Pos[m]) /\ (StageOf[BranchOf[m]] < StageOf[BranchOf[n]] <=> FALSE)
    <3>1. Pos[m] \in Nat /\ Pos[n] \in Nat /\ StageOf[BranchOf[n]] \in Nat
      BY Positions
    <3> QED
      BY <3>1, <1>1 DEF Before
  <2>2. Done(mem[run].ns[m])
    BY <1>1, <2>1 DEF Before, AtNode, Nodes
  <2> QED
    BY <2>2 DEF Done
<1>2. CASE Before(n, m)
  <2>1. ~Done(disk.ns[n])
    BY DEF AtNode
  <2>2. ~Reached(disk.ns[m])
    BY <1>2, <2>1 DEF InOrder
  <2> QED
    BY <2>2 DEF Reached
<1> QED
  BY <1>1, <1>2, Sequential

\* A step of a branch task that saves a node and reports what it saved.
LEMMA SavedNode ==
  ASSUME TypeInv, Control, OutInv, NEW r \in Runs, NEW n \in Node, NEW s \in NodeState,
         NEW w \in WorkerStatus,
         worker[r][BranchOf[n]] \in Active, AtNode(r, n),
         SetNode(r, n, s), SetWorker(r, BranchOf[n], w),
         UNCHANGED <<up, run, runner, stage, swallowed, lock, timer>>,
         w # "completed", w \in {"failed", "retry_waiting"} => s.st = w
  PROVE  OutInv'
<1>1. /\ r = run /\ runner = "stage" /\ StageOf[BranchOf[n]] = stage
      /\ mem[run].ns = disk.ns
      /\ disk'.ns[n] = s /\ \A m \in Node \ {n} : disk'.ns[m] = disk.ns[m]
      /\ mem'[run].ns = disk'.ns /\ disk'.st = "running" /\ file' = TRUE
  BY NodeSaved
<1>2. InOrder /\ Passed /\ Reported /\ Judged /\ Handed
  BY DEF OutInv
<1>3. ~Done(disk.ns[n])
  BY <1>1 DEF AtNode
<1>4. InOrder'
  <2> SUFFICES ASSUME NEW m \in Node, NEW k \in Node, Before(m, k), Reached(disk'.ns[k])
               PROVE  Done(disk'.ns[m])
    BY DEF InOrder, Before
  <2>1. m # k
    <3>1. Pos[m] \in Nat /\ StageOf[BranchOf[m]] \in Nat
      BY Positions
    <3> QED
      BY <3>1 DEF Before
  <2>2. CASE k = n
    <3>1. Done(disk.ns[m])
      BY <1>1, <1>2, <2>2 DEF Before, AtNode, Nodes, Passed, Behind
    <3> QED
      BY <1>1, <2>1, <2>2, <3>1
  <2>3. CASE k # n
    <3>1. Done(disk.ns[m])
      BY <1>1, <1>2, <2>3 DEF InOrder
    <3> QED
      BY <1>1, <1>3, <3>1
  <2> QED
    BY <2>2, <2>3
<1>5. Passed'
  <2> SUFFICES ASSUME NEW k \in Node, Behind(k)' PROVE Done(disk'.ns[k])
    BY DEF Passed
  <2>1. Behind(k) /\ StageOf[BranchOf[k]] < stage
    BY <1>1 DEF Behind
  <2>2. k # n
    <3>1. StageOf[BranchOf[n]] \in Nat
      BY Positions
    <3> QED
      BY <1>1, <2>1, <3>1
  <2> QED
    BY <1>1, <1>2, <2>1, <2>2 DEF Passed
<1>6. Reported'
  <2> SUFFICES ASSUME NEW b \in Branches(stage)
               PROVE  BranchSays(b, worker'[run][b], disk'.ns)
    BY <1>1 DEF Reported, Branches
  <2>1. b \in Branch /\ worker \in [Runs -> [Branch -> WorkerStatus]]
    BY DEF Branches, TypeInv, TypeOK
  <2>2. CASE b = BranchOf[n]
    <3>1. worker'[run][b] = w /\ n \in Nodes(b)
      BY <1>1, <2>1, <2>2 DEF SetWorker, Nodes
    <3>2. \A m \in Nodes(b) : m = n \/ disk'.ns[m].st # "retry_waiting"
      BY <1>1, <1>2, <2>2, StoppedBranch DEF Nodes
    <3> QED
      BY <1>1, <3>1, <3>2 DEF BranchSays
  <2>3. CASE b # BranchOf[n]
    <3>1. worker'[run][b] = worker[run][b]
      BY <1>1, <2>1, <2>3 DEF SetWorker
    <3>2. \A m \in Nodes(b) : m \in Node /\ disk'.ns[m] = disk.ns[m]
      BY <1>1, <2>3 DEF Nodes
    <3>3. BranchSays(b, worker[run][b], disk.ns)
      BY <1>1, <1>2 DEF Reported
    <3> QED
      BY <3>1, <3>2, <3>3 DEF BranchSays
  <2> QED
    BY <2>2, <2>3
<1>7. Judged'
  BY <1>1 DEF Judged, Verified, Verdict
<1>8. Handed'
  BY <1>1, <1>2 DEF Handed
<1> QED
  BY <1>4, <1>5, <1>6, <1>7, <1>8 DEF OutInv

\* A step of a branch task that only returns, with what is true of its branch.
LEMMA Returned ==
  ASSUME TypeInv, Control, OutInv, NEW r \in Runs, NEW b \in Branch,
         NEW w, worker[r][b] = "ready", SetWorker(r, b, w),
         UNCHANGED <<saved, up, run, mem, runner, stage, swallowed, lock, timer, mishap>>,
         BranchSays(b, w, disk.ns)
  PROVE  OutInv'
<1>1. InOrder' /\ Passed' /\ Judged' /\ Handed'
  BY DEF saved, OutInv, InOrder, Before, Passed, Behind, Judged, Verified, Verdict, Handed, NoMid
<1>2. Reported'
  <2> SUFFICES ASSUME runner = "stage", NEW x \in Branches(stage)
               PROVE  BranchSays(x, worker'[run][x], disk.ns)
    BY DEF Reported, saved, Branches
  <2>1. worker'[run][x] = IF run = r /\ x = b THEN w ELSE worker[run][x]
    BY DEF SetWorker, TypeInv, TypeOK, Launched, Branches
  <2>2. BranchSays(x, worker[run][x], disk.ns)
    BY DEF OutInv, Reported
  <2> QED
    BY <2>1, <2>2
<1> QED
  BY <1>1, <1>2 DEF OutInv

LEMMA WorkOutcome ==
  ASSUME FullInv, WorkOrAnswer
  PROVE  OutInv'
<1>1. TypeInv /\ Control /\ Attended /\ OutInv
  BY DEF FullInv, SafeInv
<1>2. \A n \in Node : disk.ns[n] \in NodeState /\ BranchOf[n] \in Branch
  BY <1>1, PlanAssumption DEF TypeInv, TypeOK, Task
<1>3. ASSUME NEW r \in Runs, NEW b \in Branch, worker[r][b] \in Active
      PROVE  /\ r = run /\ runner = "stage" /\ StageOf[b] = stage /\ mem[run].ns = disk.ns
             /\ disk.st = "running" /\ file
  BY <1>1, <1>3 DEF Control, Owned, Mirror, Announced
<1>4. Busy \subseteq Active /\ "ready" \in Active \ Busy
  BY DEF Busy, Active
<1>5. ASSUME NEW r \in Runs, NEW n \in Node, StartNode(r, n)
      PROVE  OutInv'
  <2> DEFINE s == BeginAttempt(mem[r].ns[n])
  <2>1. /\ worker[r][BranchOf[n]] = "ready" /\ AtNode(r, n)
        /\ SetNode(r, n, s) /\ SetWorker(r, BranchOf[n], "exec")
        /\ UNCHANGED <<up, run, runner, stage, swallowed, lock, timer>>
    BY <1>5 DEF StartNode, At
  <2>2. s \in NodeState /\ "exec" \in WorkerStatus
    <3>1. mem[r].ns[n] \in NodeState
      BY <1>1 DEF TypeInv, TypeOK, Task
    <3> QED
      BY <3>1, BeginAttemptFacts DEF WorkerStatus, Active
  <2> HIDE DEF s
  <2> QED
    BY <1>1, <1>4, <2>1, <2>2, SavedNode
<1>6. ASSUME NEW r \in Runs, NEW n \in Node, NEW from, NEW s, NEW w,
             EndNode(r, n, from, s, w), Ending(n, mem[r].ns[n], from, s, w)
      PROVE  OutInv'
  <2>1. /\ worker[r][BranchOf[n]] = from /\ AtNode(r, n)
        /\ SetNode(r, n, s) /\ SetWorker(r, BranchOf[n], w)
        /\ UNCHANGED <<up, run, runner, stage, swallowed, lock, timer>>
    BY <1>6 DEF EndNode, At
  <2>2. from \in Active
    BY <1>4, <1>6 DEF Ending, Busy
  <2>3. mem[r].ns[n] \in NodeState /\ {"completed", "failed", "waiting_approval"} \subseteq NodeStatus
    BY <1>1 DEF TypeInv, TypeOK, Task, NodeStatus
  <2>4. \A v \in NodeStatus : LET u == [mem[r].ns[n] EXCEPT !.st = v] IN
          u \in NodeState /\ u.st = v
    BY <2>3, StatusFacts
  <2>5. /\ s \in NodeState /\ w # "completed" /\ w \in WorkerStatus
        /\ w \in {"failed", "retry_waiting"} => s.st = w
    <3>1. CASE s = Succeeded(mem[r].ns[n]) /\ w = "ready"
      BY <2>3, <2>4, <3>1 DEF Succeeded, WorkerStatus, Active
    <3>2. CASE /\ s = AfterFailure(n, Failed(mem[r].ns[n]))
               /\ w \in {"retry_waiting", "ready", "failed"} /\ (w # "ready" => s.st = w)
      <4>1. Failed(mem[r].ns[n]) \in NodeState /\ Failed(mem[r].ns[n]).st = "failed"
        BY <2>3, <2>4 DEF Failed
      <4>2. s \in NodeState
        BY <3>2, <4>1, AfterFailureFacts
      <4> QED
        BY <3>2, <4>2 DEF WorkerStatus, Active, Outcome
    <3>3. CASE s = [mem[r].ns[n] EXCEPT !.st = "waiting_approval"] /\ w = "waiting"
      BY <2>3, <2>4, <3>3 DEF WorkerStatus, Active
    <3>4. CASE s = Failed(mem[r].ns[n]) /\ w = "failed"
      BY <2>3, <2>4, <3>4 DEF Failed, WorkerStatus, Outcome
    <3> QED
      BY <1>6, <3>1, <3>2, <3>3, <3>4 DEF Ending
  <2> QED
    BY <1>1, <2>1, <2>2, <2>5, SavedNode
<1>7. ASSUME NEW r \in Runs, NEW n \in Node, Blocked(r, n)
      PROVE  OutInv'
  <2> DEFINE w == IF mem[r].ns[n].st = "retry_waiting" THEN "retry_waiting" ELSE "failed"
  <2>1. /\ worker[r][BranchOf[n]] = "ready" /\ AtNode(r, n) /\ up
        /\ ~Startable(mem[r].ns[n]) /\ SetWorker(r, BranchOf[n], w)
        /\ UNCHANGED <<saved, up, run, mem, runner, stage, swallowed, lock, timer, mishap>>
    BY <1>7 DEF Blocked, At, history
  <2>2. r = run /\ runner = "stage" /\ mem[run].ns = disk.ns /\ disk.st = "running" /\ file
    BY <1>2, <1>3, <1>4, <2>1
  <2>3. disk.ns[n].st \notin MidStatus
    BY <1>1, <1>4, <2>1, <2>2 DEF Attended
  <2>4. disk.ns[n].st \in {"failed", "retry_waiting"} /\ w = disk.ns[n].st
    <3>1. /\ disk.ns[n].st \in NodeStatus /\ ~Startable(disk.ns[n]) /\ ~Done(disk.ns[n])
          /\ w = IF disk.ns[n].st = "retry_waiting" THEN "retry_waiting" ELSE "failed"
      BY <1>2, <2>1, <2>2 DEF NodeState, AtNode
    <3> QED
      BY <2>3, <3>1 DEF NodeStatus, Startable, Done, MidStatus
  <2>5. n \in Nodes(BranchOf[n])
           /\ \A m \in Nodes(BranchOf[n]) : m = n \/ disk.ns[m].st # "retry_waiting"
    BY <1>1, <2>1, <2>2, StoppedBranch DEF Nodes, OutInv
  <2>6. BranchSays(BranchOf[n], w, disk.ns)
    BY <2>4, <2>5 DEF BranchSays
  <2> HIDE DEF w
  <2> QED
    BY <1>1, <1>2, <2>1, <2>6, Returned
<1>8. ASSUME NEW r \in Runs, NEW b \in Branch, FinishBranch(r, b)
      PROVE  OutInv'
  <2>1. /\ worker[r][b] = "ready" /\ SetWorker(r, b, "completed")
        /\ UNCHANGED <<saved, up, run, mem, runner, stage, swallowed, lock, timer, mishap>>
        /\ \A n \in Nodes(b) : Done(mem[r].ns[n])
    BY <1>8 DEF FinishBranch, history
  <2>2. BranchSays(b, "completed", disk.ns)
    BY <1>3, <1>4, <2>1 DEF BranchSays
  <2> QED
    BY <1>1, <2>1, <2>2, Returned
<1> QED
  BY <1>1, <1>5, <1>6, <1>7, <1>8, WorkForms

-----------------------------------------------------------------------------
(***************************************************************************)
(* Steps of the runner.                                                    *)
(***************************************************************************)
\* A node of a branch is at the plan step of the branch.
LEMMA NodesOfStage ==
  /\ \A n \in Node : BranchOf[n] \in Branches(StageOf[BranchOf[n]]) /\ n \in Nodes(BranchOf[n])
  /\ \A s, b : b \in Branches(s) => \A n \in Nodes(b) : n \in Node /\ StageOf[BranchOf[n]] = s
BY Positions DEF Branches, Nodes

\* A waiting branch counts before a failed one.
LEMMA StageOutcomes ==
  ASSUME NEW outs
  PROVE  /\ "retry_waiting" \in outs => StageOutcome(outs) = "retry_waiting"
         /\ "retry_waiting" \notin outs /\ "failed" \in outs => StageOutcome(outs) = "failed"
         /\ "retry_waiting" \notin outs /\ "failed" \notin outs => StageOutcome(outs) = "completed"
BY DEF StageOutcome

\* What the runner concludes from the results of a step holds of the nodes.
LEMMA StageVerdict ==
  ASSUME TypeInv, Control, OutInv, runner = "stage",
         NEW S \in SUBSET Branches(stage), Collected(S), NEW v,
         v = StageOutcome(Joined(S) \cup (IF swallowed THEN {"failed"} ELSE {}))
  PROVE  /\ v \in Outcome /\ (v # "completed" => Verdict(v, disk.ns))
         /\ v = "completed" => \A n \in Node : StageOf[BranchOf[n]] <= stage => Done(disk.ns[n])
<1>1. S = Branches(stage) /\ Joined(S) \subseteq Outcome /\ v = StageOutcome(Joined(S))
  BY DEF Control, Collected
<1>2. \A b \in Branches(stage) : /\ worker[run][b] \in Joined(S)
                                 /\ BranchSays(b, worker[run][b], disk.ns)
  BY <1>1 DEF OutInv, Reported, Joined
<1>3. \A x \in Joined(S) : \E b \in Branches(stage) : x = worker[run][b]
  BY <1>1 DEF Joined
<1>4. \A n \in Node : StageOf[BranchOf[n]] < stage => Done(disk.ns[n])
  BY DEF OutInv, Passed, Behind
<1>5. stage \in Nat /\ \A n \in Node : StageOf[BranchOf[n]] \in Nat
  BY Positions DEF TypeInv, TypeOK, Stage
<1>6. CASE "retry_waiting" \in Joined(S)
  <2>1. v = "retry_waiting"
    BY <1>1, <1>6, StageOutcomes
  <2>2. PICK b \in Branches(stage) : worker[run][b] = "retry_waiting"
    BY <1>3, <1>6
  <2>3. \E n \in Node : disk.ns[n].st = "retry_waiting"
    BY <1>2, <2>2, NodesOfStage DEF BranchSays
  <2> QED
    BY <2>1, <2>3 DEF Verdict, Found, Outcome
<1>7. CASE "retry_waiting" \notin Joined(S) /\ "failed" \in Joined(S)
  <2>1. v = "failed"
    BY <1>1, <1>7, StageOutcomes
  <2>2. PICK b \in Branches(stage) : worker[run][b] = "failed"
    BY <1>3, <1>7
  <2>3. PICK n \in Node : disk.ns[n].st = "failed" /\ StageOf[BranchOf[n]] = stage
    BY <1>2, <2>2, NodesOfStage DEF BranchSays
  <2>4. ASSUME NEW m \in Node, disk.ns[m].st = "retry_waiting"
        PROVE  FALSE
    <3>1. ~(StageOf[BranchOf[m]] < stage)
      BY <1>4, <2>4 DEF Done
    <3>2. ~(stage < StageOf[BranchOf[m]])
      BY <2>3, <2>4 DEF OutInv, InOrder, Before, Reached, Done
    <3>3. BranchOf[m] \in Branches(stage) /\ m \in Nodes(BranchOf[m])
      BY <1>5, <3>1, <3>2, NodesOfStage
    <3>4. /\ worker[run][BranchOf[m]] \in {"completed", "failed"}
          /\ BranchSays(BranchOf[m], worker[run][BranchOf[m]], disk.ns)
      BY <1>1, <1>2, <1>7, <3>3 DEF Outcome
    <3> QED
      BY <2>4, <3>3, <3>4 DEF BranchSays, Done
  <2> QED
    BY <2>1, <2>3, <2>4 DEF Verdict, Found, Outcome
<1>8. CASE "retry_waiting" \notin Joined(S) /\ "failed" \notin Joined(S)
  <2>1. v = "completed"
    BY <1>1, <1>8, StageOutcomes
  <2>2. \A b \in Branches(stage) : worker[run][b] = "completed"
    BY <1>1, <1>2, <1>8 DEF Outcome
  <2>3. \A n \in Node : StageOf[BranchOf[n]] = stage => Done(disk.ns[n])
    BY <1>2, <2>2, NodesOfStage DEF BranchSays
  <2> QED
    BY <1>4, <1>5, <2>1, <2>3 DEF Outcome
<1> QED
  BY <1>6, <1>7, <1>8

\* With the step done the runner goes on to the next, or the plan is complete.
LEMMA NextStageOutcome ==
  ASSUME TypeInv, run \in Runs, Nobody, NextStage, UNCHANGED run, disk'.ns = disk.ns,
         \A n \in Node : StageOf[BranchOf[n]] <= stage => Done(disk.ns[n])
  PROVE  /\ Passed' /\ Reported'
         /\ runner' \in {"stage", "finalizing"}
         /\ runner' = "finalizing" => mem'[run].st \in Outcome /\ Verdict(mem'[run].st, disk'.ns)
<1>1. stage \in Nat /\ \A n \in Node : StageOf[BranchOf[n]] \in Nat /\ StageOf[BranchOf[n]] <= LastStage
  BY Positions DEF TypeInv, TypeOK, Stage
<1>2. CASE stage = LastStage
  <2>1. mem' = [mem EXCEPT ![run].st = "completed"] /\ runner' = "finalizing"
    BY <1>2 DEF NextStage, EndPlan
  <2>2. mem'[run].st = "completed"
    BY <2>1 DEF TypeInv, TypeOK, Task
  <2>3. \A n \in Node : Done(disk'.ns[n])
    BY <1>1, <1>2
  <2> QED
    BY <2>1, <2>2, <2>3 DEF Passed, Reported, Verdict, Outcome
<1>3. CASE stage # LastStage
  <2>1. /\ stage' = stage + 1 /\ runner' = "stage"
        /\ worker' = [worker EXCEPT ![run] =
             [b \in Branch |-> IF StageOf[b] = stage + 1 THEN "ready" ELSE @[b]]]
    BY <1>3 DEF NextStage, EnterStage
  <2>2. Passed'
    <3> SUFFICES ASSUME NEW n \in Node, Behind(n)' PROVE Done(disk.ns[n])
      BY DEF Passed
    <3>1. StageOf[BranchOf[n]] < stage + 1
      BY <2>1 DEF Behind
    <3> QED
      BY <1>1, <3>1
  <2>3. \A b \in Branches(stage + 1) : worker'[run][b] = "ready"
    BY <2>1 DEF Branches, TypeInv, TypeOK
  <2>4. Reported'
    BY <2>1, <2>3 DEF Reported, BranchSays, Branches
  <2> QED
    BY <2>1, <2>2, <2>4
<1> QED
  BY <1>2, <1>3

\* The runner says nothing of the nodes that is not true, and hands the task on.
LEMMA RunnerOutcome ==
  ASSUME FullInv, RunnerStep
  PROVE  OutInv'
<1>1. /\ TypeInv /\ Control /\ Attended
      /\ OutInv /\ InOrder /\ Passed /\ Reported /\ Judged /\ Handed
  BY DEF FullInv, SafeInv, OutInv
<1>2. disk'.ns = disk.ns /\ disk \in Task /\ mem \in [Runs -> Task]
  BY <1>1, RunnerControl DEF TypeInv, TypeOK
<1>3. InOrder'
  BY <1>1, <1>2 DEF InOrder, Before
<1>4. runner # "none" => run \in Runs /\ up /\ file /\ mem[run].ns = disk.ns /\ lock = "free"
  BY <1>1 DEF TypeInv, Launched, Control, Mirror, Handed
<1>5. runner # "stage" => Nobody
  BY <1>1, NobodyOutsideStage DEF Control
<1>6. runner \in {"starting", "stage", "merging", "finalizing"} => disk.st = "running"
  BY <1>1 DEF Control, Announced
<1>7. CASE RunTask \/ HandOff
  <2>1. /\ Launch /\ up
        /\ lock' = "free" \/ (lock' = lock /\ lock # "handoff")
    BY <1>7 DEF RunTask, HandOff, LoopRuns
  <2>2. disk'.st = "running" /\ file' /\ runner' = "starting"
    <3>1. "running" \in TaskStatus
      BY DEF TaskStatus
    <3> QED
      BY <2>1, <3>1, <1>2, TaskUpdates DEF Launch, Save
  <2>3. lock' = "free"
    <3>1. disk.st \in {"pending", "resume_pending"}
      BY <2>1 DEF Launch
    <3>2. lock \in LockHolder
      BY <1>1 DEF TypeInv, TypeOK
    <3> QED
      BY <1>1, <2>1, <3>1, <3>2 DEF Handed, Terminal, LockHolder
  <2> QED
    BY <1>3, <2>1, <2>2, <2>3 DEF OutInv, Passed, Reported, Judged, Verified, Verdict, Handed
<1>8. CASE StartRunner
  <2>1. /\ runner = "starting" /\ EnterStage(1) /\ UNCHANGED <<saved, up, run, mem, timer, lock>>
    BY <1>8 DEF StartRunner
  <2>2. /\ stage' = 1 /\ runner' = "stage"
        /\ worker' = [worker EXCEPT ![run] =
             [b \in Branch |-> IF StageOf[b] = 1 THEN "ready" ELSE @[b]]]
    BY <2>1 DEF EnterStage
  <2>3. Passed'
    <3> SUFFICES ASSUME NEW n \in Node, Behind(n)' PROVE FALSE
      BY DEF Passed
    <3>1. StageOf[BranchOf[n]] < 1
      BY <2>2 DEF Behind
    <3>2. StageOf[BranchOf[n]] \in Nat /\ StageOf[BranchOf[n]] >= 1
      BY Positions
    <3> QED
      BY <3>1, <3>2
  <2>4. Reported'
    <3>1. \A b \in Branches(1) : worker'[run][b] = "ready"
      BY <1>1, <1>4, <2>1, <2>2 DEF Branches, TypeInv, TypeOK
    <3> QED
      BY <2>1, <2>2, <3>1 DEF Reported, BranchSays, Branches
  <2>5. Judged' /\ Handed'
    BY <1>1, <1>4, <1>6, <2>1, <2>2 DEF saved, Judged, Verified, Verdict, Handed, NoMid
  <2> QED
    BY <1>3, <2>3, <2>4, <2>5 DEF OutInv
<1>9. CASE FinishStage
  <2>1. runner = "stage" /\ UNCHANGED <<saved, up, run, timer, lock, mishap>>
    BY <1>9 DEF FinishStage, history
  <2>2. PICK S \in SUBSET Branches(stage) :
          /\ Collected(S)
          /\ LET v == StageOutcome(Joined(S) \cup (IF swallowed THEN {"failed"} ELSE {}))
             IN  \/ v # "completed" /\ EndPlan(v)
                 \/ /\ v = "completed" /\ stage \in Gateway
                    /\ runner' = "merging" /\ UNCHANGED <<stage, mem, worker>>
                 \/ v = "completed" /\ stage \notin Gateway /\ NextStage
    BY <1>9 DEF FinishStage
  <2> DEFINE v == StageOutcome(Joined(S) \cup (IF swallowed THEN {"failed"} ELSE {}))
  <2> HIDE DEF v
  <2>0. /\ v = StageOutcome(Joined(S) \cup (IF swallowed THEN {"failed"} ELSE {}))
        /\ \/ v # "completed" /\ EndPlan(v)
           \/ /\ v = "completed" /\ stage \in Gateway
              /\ runner' = "merging" /\ UNCHANGED <<stage, mem, worker>>
           \/ v = "completed" /\ stage \notin Gateway /\ NextStage
    BY <2>2 DEF v
  <2>3. /\ v \in Outcome /\ (v # "completed" => Verdict(v, disk.ns))
        /\ v = "completed" => \A n \in Node : StageOf[BranchOf[n]] <= stage => Done(disk.ns[n])
    BY <1>1, <2>0, <2>1, <2>2, StageVerdict
  <2>4. Nobody
    BY <1>1, <2>1, <2>2, StageDone
  <2>5. /\ Passed' /\ Reported' /\ runner' \in {"stage", "merging", "finalizing"}
        /\ runner' = "finalizing" => mem'[run].st \in Outcome /\ Verdict(mem'[run].st, disk'.ns)
    <3>1. CASE v # "completed" /\ EndPlan(v)
      <4>1. mem'[run].st = v /\ runner' = "finalizing"
        BY <1>2, <1>4, <2>1, <3>1 DEF EndPlan, Task
      <4> QED
        BY <1>2, <2>3, <3>1, <4>1 DEF Passed, Reported
    <3>2. CASE v = "completed" /\ runner' = "merging" /\ UNCHANGED <<stage, mem, worker>>
      <4>1. ASSUME NEW n \in Node, Behind(n)' PROVE Done(disk'.ns[n])
        <5>1. StageOf[BranchOf[n]] < stage \/ StageOf[BranchOf[n]] = stage
          BY <3>2, <4>1 DEF Behind
        <5>2. StageOf[BranchOf[n]] \in Nat /\ stage \in Nat
          BY <1>1, Positions DEF TypeInv, TypeOK, Stage
        <5> QED
          BY <1>2, <2>3, <3>2, <5>1, <5>2
      <4> QED
        BY <3>2, <4>1 DEF Passed, Reported
    <3>3. CASE v = "completed" /\ NextStage
      BY <1>1, <1>2, <1>4, <2>1, <2>3, <2>4, <3>3, NextStageOutcome
    <3> QED
      BY <2>0, <3>1, <3>2, <3>3
  <2>6. Judged'
    BY <1>1, <2>1, <2>5 DEF saved, Judged, Verified
  <2>7. Handed'
    BY <1>1, <1>4, <1>6, <2>1, <2>5 DEF saved, Handed, NoMid
  <2> QED
    BY <1>3, <2>5, <2>6, <2>7 DEF OutInv
<1>10. CASE Merge
  <2>1. /\ runner = "merging" /\ NextStage /\ UNCHANGED <<up, run, timer, lock>>
        /\ UNCHANGED saved \/ Save(mem[run])
    BY <1>10 DEF Merge
  <2>2. disk'.st = "running" /\ file'
    <3>1. mem[run].st = "running" /\ disk.st = "running" /\ file
      BY <1>1, <1>4, <2>1 DEF Control, Announced
    <3> QED
      BY <2>1, <3>1 DEF saved, Save
  <2>3. \A n \in Node : StageOf[BranchOf[n]] <= stage => Done(disk.ns[n])
    <3> SUFFICES ASSUME NEW n \in Node, StageOf[BranchOf[n]] <= stage PROVE Behind(n)
      BY <1>1, <2>1 DEF Passed
    <3>1. StageOf[BranchOf[n]] \in Nat /\ stage \in Nat
      BY <1>1, Positions DEF TypeInv, TypeOK, Stage
    <3> QED
      BY <2>1, <3>1 DEF Behind
  <2>4. /\ Passed' /\ Reported' /\ runner' \in {"stage", "finalizing"}
        /\ runner' = "finalizing" => mem'[run].st \in Outcome /\ Verdict(mem'[run].st, disk'.ns)
    BY <1>1, <1>2, <1>4, <1>5, <2>1, <2>3, NextStageOutcome
  <2>5. Judged'
    BY <2>1, <2>2, <2>4 DEF Judged, Verified, Verdict
  <2>6. Handed'
    BY <1>1, <1>4, <2>1, <2>2, <2>4 DEF Handed
  <2> QED
    BY <1>3, <2>4, <2>5, <2>6 DEF OutInv
<1>11. CASE Persist
  <2>1. /\ runner = "finalizing" /\ disk' = mem[run] /\ file' /\ up' = up /\ lock' = "free"
        /\ runner' = IF mem[run].st \in Terminal THEN "releasing" ELSE "none"
        /\ timer' = IF mem[run].st = "retry_waiting" THEN WaitingNodes(mem[run]) # {} ELSE timer
        /\ mishap' = mishap
    BY <1>4, <1>11 DEF Persist, Save, history
  <2>2. /\ mem[run].st \in Outcome
        /\ Verdict(mem[run].st, disk'.ns) \/ (mem[run].st = "failed" /\ mishap' = "derailed")
    BY <1>1, <1>2, <2>1 DEF Judged, Verified
  <2>3. mem[run].st = "retry_waiting" => timer'
    BY <1>2, <2>1, <2>2 DEF Verdict, Found, WaitingNodes
  <2>4. NoMid'
    <3>1. NoMid
      BY <1>1, <1>4, <1>5, <1>6, <2>1, NoMidWhenIdle DEF Idle
    <3> QED
      BY <1>2, <3>1 DEF NoMid
  <2>5. Judged' /\ Passed' /\ Reported'
    BY <2>1, <2>2 DEF Judged, Verified, Passed, Reported
  <2>6. Handed'
    BY <2>1, <2>2, <2>3, <2>4 DEF Handed, Outcome, Terminal
  <2> QED
    BY <1>3, <2>5, <2>6 DEF OutInv
<1>12. CASE Release
  <2>1. /\ runner = "releasing" /\ runner' = "none"
        /\ UNCHANGED <<saved, up, run, mem, timer, lock, mishap>>
    BY <1>12 DEF Release, history
  <2>2. Handed'
    BY <1>1, <1>4, <2>1 DEF saved, Handed, Terminal, NoMid
  <2>3. Judged' /\ Passed' /\ Reported'
    BY <1>1, <2>1 DEF saved, Judged, Verified, Verdict, Passed, Reported
  <2> QED
    BY <1>3, <2>2, <2>3 DEF OutInv
<1>13. CASE Refused
  <2>1. /\ lock = "handoff" /\ lock' = "free" /\ mishap' = "refused"
        /\ UNCHANGED <<saved, up, run, mem, worker, runner, stage, timer>>
    BY <1>13 DEF Refused, engine
  <2>2. file /\ disk.st = "resume_pending" /\ runner = "none" /\ up
    BY <1>1, <2>1 DEF Handed
  <2>3. Handed'
    BY <1>1, <2>1, <2>2 DEF saved, Handed, NoMid, Terminal
  <2>4. Judged' /\ Passed' /\ Reported'
    BY <2>1, <2>2 DEF saved, Judged, Verified, Verdict, Passed, Reported
  <2> QED
    BY <1>3, <2>3, <2>4 DEF OutInv
<1>14. CASE StartFails
  <2>1. /\ runner = "starting" /\ runner' = "releasing" /\ mishap' = "derailed"
        /\ disk' = mem'[run] /\ file' = TRUE /\ lock' = "free"
        /\ mem' = [mem EXCEPT ![run].st = "failed"] /\ UNCHANGED up
    BY <1>4, <1>14 DEF StartFails, Save
  <2>2. disk'.st = "failed"
    BY <1>2, <1>4, <2>1 DEF Task
  <2>3. NoMid'
    <3>1. NoMid
      BY <1>1, <1>4, <1>5, <1>6, <2>1, NoMidWhenIdle DEF Idle
    <3> QED
      BY <1>2, <3>1 DEF NoMid
  <2>4. Judged' /\ Passed' /\ Reported' /\ Handed'
    BY <2>1, <2>2, <2>3 DEF Judged, Verified, Passed, Reported, Handed, Terminal
  <2> QED
    BY <1>3, <2>4 DEF OutInv
<1>15. CASE PlanFails
  <2>1. /\ runner \in {"starting", "stage", "merging"} /\ runner' = "finalizing"
        /\ mishap' = "derailed" /\ lock' = "free"
        /\ mem' = [mem EXCEPT ![run].st = "failed"]
        /\ UNCHANGED <<saved, up, run, timer>>
    BY <1>4, <1>15 DEF PlanFails, EndPlan
  <2>2. mem'[run].st = "failed" /\ disk'.st = "running" /\ file'
    BY <1>2, <1>4, <1>6, <2>1 DEF saved, Task
  <2>3. Judged' /\ Passed' /\ Reported' /\ Handed'
    BY <2>1, <2>2 DEF Judged, Verified, Verdict, Outcome, Passed, Reported, Handed
  <2> QED
    BY <1>3, <2>3 DEF OutInv
<1> QED
  BY <1>7, <1>8, <1>9, <1>10, <1>11, <1>12, <1>13, <1>14, <1>15 DEF RunnerStep

-----------------------------------------------------------------------------
(***************************************************************************)
(* Steps between launches.                                                 *)
(***************************************************************************)
\* A task without a runner is handed to the next one, or waits for its timer.
LEMMA ResumeOutcome ==
  ASSUME FullInv, runner = "none", UNCHANGED engine, DoneKept,
         \A n \in Node : Reached(disk'.ns[n]) => Reached(disk.ns[n]),
         file' = TRUE, up' = TRUE, NoMid',
         disk'.st \in {"failed", "retry_waiting", "resume_pending"}, Verdict(disk'.st, disk'.ns),
         disk'.st = "retry_waiting" => timer' = TRUE,
         lock' = (IF disk'.st = "resume_pending" THEN "handoff" ELSE "free")
  PROVE  OutInv'
<1>1. InOrder'
  BY InOrderKept DEF FullInv, OutInv
<1>2. Passed' /\ Reported' /\ Judged' /\ Handed'
  BY DEF engine, Passed, Reported, Judged, Verified, Handed
<1> QED
  BY <1>1, <1>2 DEF OutInv

LEMMA BetweenOutcome ==
  ASSUME FullInv, TimerActivates \/ ClientStep \/ Restart \/ Crash
  PROVE  OutInv'
<1>1. /\ TypeInv /\ Control /\ disk \in Task
      /\ OutInv /\ InOrder /\ Passed /\ Reported /\ Judged /\ Handed
  BY DEF FullInv, SafeInv, OutInv, TypeInv, TypeOK
<1>2. DoneKept /\ Attended'
  BY BetweenSafe DEF FullInv
<1>3. \A n \in Node : disk.ns[n] \in NodeState
  BY <1>1 DEF Task
<1>4. ASSUME runner' = "none", up' = TRUE, file' = TRUE, disk'.st # "stopped"
      PROVE  NoMid'
  BY <1>2, <1>4 DEF Attended, NoMid
<1>5. CASE SendRequest \/ \E q \in request : RejectRequest(q)
  <2>1. UNCHANGED <<saved, up, engine, lock, timer, mishap>>
    BY <1>5 DEF SendRequest, RejectRequest, history
  <2>3. disk' = disk /\ file' = file /\ mem' = mem /\ worker' = worker /\ run' = run
        /\ runner' = runner /\ stage' = stage
    BY <2>1 DEF saved, engine
  <2>4. InOrder' /\ Passed' /\ Reported' /\ Judged'
    BY <1>1, <2>1, <2>3
       DEF InOrder, Before, Passed, Behind, Reported, Branches, Judged, Verified, Verdict
  <2>5. Handed'
    BY <1>1, <2>1, <2>3 DEF Handed, NoMid
  <2> QED
    BY <2>4, <2>5 DEF OutInv
<1>6. CASE TimerActivates
  <2>1. /\ up /\ runner = "none" /\ UNCHANGED <<engine, up>>
    BY <1>6 DEF TimerActivates
  <2>2. PICK due \in SUBSET WaitingNodes(disk) : SaveResume(Activated(disk, due))
    BY <1>6 DEF TimerActivates
  <2>3. /\ file' = TRUE /\ disk'.st = "resume_pending" /\ disk'.ns = Activated(disk, due)
        /\ lock' = "handoff"
    BY <2>2 DEF SaveResume, Save
  <2>4. \A n \in Node : Reached(disk'.ns[n]) => Reached(disk.ns[n])
    BY <2>3 DEF Activated, WaitingNodes, Reached
  <2>5. NoMid'
    BY <1>1, <1>4, <2>1, <2>3 DEF engine, TypeInv, TypeOK
  <2> QED
    BY <1>1, <1>2, <2>1, <2>3, <2>4, <2>5, ResumeOutcome DEF Verdict, TypeInv, TypeOK
<1>7. ASSUME NEW q \in request, RetryNode(q) \/ SkipNode(q)
      PROVE  OutInv'
  <2>1. PICK s : Accept(q, s)
    BY <1>7 DEF RetryNode, SkipNode
  <2>2. /\ up /\ runner = "none" /\ UNCHANGED <<engine, up>> /\ Controllable(disk.ns[q.n])
        /\ SaveResume([disk.ns EXCEPT ![q.n] = s])
    BY <2>1 DEF Accept, Valid
  <2>3. /\ file' = TRUE /\ disk'.st = "resume_pending" /\ disk'.ns = [disk.ns EXCEPT ![q.n] = s]
        /\ lock' = "handoff"
    BY <2>2 DEF SaveResume, Save
  <2>4. \A n \in Node : Reached(disk'.ns[n]) => Reached(disk.ns[n])
    BY <1>1, <2>2, <2>3 DEF Task, Controllable, Reached
  <2>5. NoMid'
    BY <1>1, <1>4, <2>2, <2>3 DEF engine, TypeInv, TypeOK
  <2> QED
    BY <1>1, <1>2, <2>2, <2>3, <2>4, <2>5, ResumeOutcome DEF Verdict, TypeInv, TypeOK
<1>8. CASE Restart
  <2>1. /\ ~up /\ runner = "none" /\ UNCHANGED engine /\ up' = TRUE /\ RecoverTask /\ lock = "free"
    BY <1>1, <1>8 DEF Restart, Control, Handed
  <2>2. CASE file /\ disk.st \in Recoverable
    <3>1. /\ file' = TRUE /\ disk'.ns = Recovered
          /\ \/ disk'.st = "retry_waiting" /\ Found(Recovered, "retry_waiting") /\ timer' /\ lock' = lock
             \/ /\ disk'.st = "failed" /\ ~Found(Recovered, "retry_waiting")
                /\ Found(Recovered, "failed") /\ lock' = lock
             \/ disk'.st = "resume_pending" /\ lock' = "handoff"
      BY <2>1, <2>2 DEF RecoverTask, SaveResume, Save
    <3>2. \A n \in Node : Reached(disk'.ns[n]) => Reached(disk.ns[n])
      BY <3>1 DEF Recovered, RecoverNode, Reached
    <3>3. NoMid'
      BY <1>4, <2>1, <3>1 DEF engine
    <3>4. Verdict(disk'.st, disk'.ns)
      BY <3>1 DEF Verdict
    <3>5. timer' \in BOOLEAN
      BY <1>1, <1>8, NextTypeInv DEF Next, System, TypeInv, TypeOK
    <3>6. /\ disk'.st \in {"failed", "retry_waiting", "resume_pending"}
          /\ disk'.st = "retry_waiting" => timer' = TRUE
          /\ lock' = (IF disk'.st = "resume_pending" THEN "handoff" ELSE "free")
      BY <2>1, <3>1, <3>5
    <3> QED
      BY <1>2, <2>1, <3>1, <3>2, <3>3, <3>4, <3>6, ResumeOutcome
  <2>3. CASE ~(file /\ disk.st \in Recoverable)
    <3>1. UNCHANGED <<saved, timer, lock, mishap>>
      BY <1>8, <2>1, <2>3 DEF Restart, RecoverTask
    <3>2. InOrder' /\ Passed' /\ Reported' /\ Judged'
      BY <1>1, <2>1, <3>1
         DEF saved, engine, InOrder, Before, Passed, Reported, Judged, Verified, Verdict
    <3>3. Handed'
      BY <1>1, <2>1, <2>3, <3>1 DEF saved, engine, Handed, Recoverable, NoMid
    <3> QED
      BY <3>2, <3>3 DEF OutInv
  <2> QED
    BY <2>2, <2>3
<1>9. CASE Crash
  <2>1. /\ up' = FALSE /\ runner' = "none" /\ lock' = "free" /\ UNCHANGED <<saved, mishap>>
    BY <1>9 DEF Crash, ProcessGone, history
  <2>2. InOrder' /\ Passed' /\ Reported' /\ Judged' /\ Handed'
    BY <1>1, <2>1
       DEF saved, InOrder, Before, Passed, Reported, Judged, Verified, Verdict, Handed, NoMid
  <2> QED
    BY <2>2 DEF OutInv
<1> QED
  BY <1>5, <1>6, <1>7, <1>8, <1>9 DEF ClientStep

-----------------------------------------------------------------------------
(***************************************************************************)
(* Stop, delete and graceful restart, in plans without gateways.           *)
(***************************************************************************)
\* A cancelled runner leaves the task stopped, or as it said it was.
LEMMA CancelledOutcome ==
  ASSUME FullInv, Gateway = {}, NEW holder, CancelFor(holder)
  PROVE  /\ runner' = "none" /\ disk'.ns = disk.ns /\ up /\ UNCHANGED up /\ file /\ lock' = holder
         /\ \/ disk.st = "running" /\ disk'.st = "stopped" /\ file' = TRUE
            \/ UNCHANGED saved /\ disk.st \in Terminal \cup {"running"}
<1>1. TypeInv /\ Control /\ Handed /\ up /\ UNCHANGED up /\ runner # "none" /\ CancelRunner
      /\ lock' = holder
  BY DEF FullInv, SafeInv, OutInv, CancelFor
<1>2. runner' = "none" /\ disk'.ns = disk.ns /\ file
  BY <1>1, CancelledRunner DEF Control, Mirror
<1>3. runner # "releasing" => disk.st = "running"
  BY <1>1 DEF Control, Announced, TypeInv, TypeOK, RunnerStatus
<1>4. runner = "releasing" => disk.st \in Terminal
  BY <1>1 DEF Handed
<1>5. mem \in [Runs -> Task] /\ run \in Runs /\ stage \notin Gateway
  BY <1>1 DEF TypeInv, TypeOK, Launched
<1>6. \/ /\ runner # "releasing" /\ mem' = [mem EXCEPT ![run].st = "stopped"]
         /\ disk' = mem'[run] /\ file' = TRUE
      \/ UNCHANGED saved
  BY <1>1, <1>5 DEF CancelRunner, Save
<1>7. mem' = [mem EXCEPT ![run].st = "stopped"] => mem'[run].st = "stopped"
  BY <1>5 DEF Task
<1> QED
  BY <1>1, <1>2, <1>3, <1>4, <1>6, <1>7

LEMMA CancellationOutcome ==
  ASSUME FullInv, Gateway = {}, Cancellation
  PROVE  OutInv'
<1>1. /\ TypeInv /\ Control /\ disk \in Task
      /\ OutInv /\ InOrder /\ Passed /\ Reported /\ Judged /\ Handed
  BY DEF FullInv, SafeInv, OutInv, TypeInv, TypeOK
<1>2. runner' = "none" /\ disk'.ns = disk.ns /\ mishap' = mishap
  BY <1>1, CancellationControl
     DEF history, Cancellation, StopTask, StopIdleTask, StopReturns, DeleteTask, DeleteIdleTask,
         DeleteReturns, Shutdown, ShutdownIdle, CancelFor
<1>3. NoMid => NoMid'
  BY <1>2 DEF NoMid
<1>4. ASSUME disk'.st \in {disk.st, "stopped"}, Handed'
      PROVE  OutInv'
  BY <1>1, <1>2, <1>4 DEF OutInv, InOrder, Before, Passed, Reported, Judged, Verified, Verdict
<1>5. MarkStopped => disk'.st = "stopped" /\ file' = TRUE
  <2>1. "stopped" \in TaskStatus
    BY DEF TaskStatus
  <2> QED
    BY <1>1, <2>1, TaskUpdates DEF MarkStopped, Save
<1>6. ASSUME NEW holder \in {"stop", "delete", "exit"}, CancelFor(holder)
      PROVE  OutInv'
  <2>1. /\ up' = up /\ up /\ file /\ lock' = holder
        /\ \/ disk.st = "running" /\ disk'.st = "stopped" /\ file' = TRUE
           \/ disk' = disk /\ file' = file /\ disk.st \in Terminal \cup {"running"}
    BY <1>6, CancelledOutcome DEF saved
  <2>2. Handed'
    BY <1>1, <1>2, <1>3, <2>1 DEF Handed, Terminal
  <2> QED
    BY <1>4, <2>1, <2>2
<1>7. CASE StopReturns
  <2>1. /\ up' = up /\ lock = "stop" /\ lock' = "free"
        /\ IF file /\ disk.st \notin Terminal THEN MarkStopped ELSE disk' = disk /\ file' = file
    BY <1>7 DEF StopReturns, saved
  <2>2. Handed'
    BY <1>1, <1>2, <1>3, <1>5, <2>1 DEF Handed, Terminal
  <2> QED
    BY <1>4, <1>5, <2>1, <2>2
<1>8. CASE StopIdleTask
  <2>1. /\ up' = up /\ lock = "free" /\ lock' = "free"
        /\ MarkStopped \/ (file' = FALSE /\ disk' = disk)
    BY <1>8 DEF StopIdleTask
  <2>2. Handed'
    BY <1>2, <1>5, <2>1 DEF Handed
  <2> QED
    BY <1>4, <1>5, <2>1, <2>2
<1>9. CASE DeleteIdleTask \/ DeleteReturns
  <2>1. lock' = "free" /\ file' = FALSE /\ disk' = disk
    BY <1>9 DEF DeleteIdleTask, DeleteReturns
  <2>2. Handed'
    BY <1>2, <2>1 DEF Handed
  <2> QED
    BY <1>4, <2>1, <2>2
<1>10. CASE ShutdownIdle
  <2>1. lock' = "free" /\ up' = FALSE /\ disk' = disk /\ file' = file
    BY <1>10 DEF ShutdownIdle, ProcessGone, saved
  <2>2. Handed'
    BY <1>1, <1>2, <1>3, <2>1 DEF Handed
  <2> QED
    BY <1>4, <2>1, <2>2
<1> QED
  BY <1>6, <1>7, <1>8, <1>9, <1>10 DEF Cancellation, StopTask, DeleteTask, Shutdown

-----------------------------------------------------------------------------
LEMMA InitFullInv == Init => FullInv
<1> SUFFICES ASSUME Init PROVE OutInv
  BY InitSafeInv DEF FullInv
<1>1. PICK disabled \in SUBSET Node : disk = NewTask(disabled)
  BY DEF Init
<1>2. NewNode \in NodeState /\ NewNode.st = "pending" /\ "skipped" \in NodeStatus
  BY DEF NewNode, NodeState, NodeStatus, Trigger
<1>3. disk.st = "pending" /\ \A n \in Node : disk.ns[n].st \in {"pending", "skipped"}
  BY <1>1, <1>2, StatusFacts DEF NewTask, FailureSkip
<1>4. runner = "none" /\ lock = "free"
  BY DEF Init
<1>5. InOrder /\ Judged
  BY <1>3, <1>4 DEF InOrder, Judged, Verified, Verdict, Reached
<1>6. Passed /\ Reported /\ Handed
  BY <1>3, <1>4 DEF Passed, Reported, Handed, NoMid, MidStatus
<1> QED
  BY <1>5, <1>6 DEF OutInv

LEMMA FullStep == FullInv /\ [SafeNext]_vars => FullInv'
<1> SUFFICES ASSUME FullInv, [SafeNext]_vars PROVE OutInv'
  BY SafeStep DEF FullInv
<1>1. CASE UNCHANGED vars
  <2>1. /\ disk' = disk /\ file' = file /\ mem' = mem /\ worker' = worker /\ run' = run
        /\ runner' = runner /\ stage' = stage /\ up' = up /\ lock' = lock /\ timer' = timer
        /\ mishap' = mishap
    BY <1>1 DEF vars, saved, engine, history
  <2> QED
    BY <2>1 DEF FullInv, OutInv, InOrder, Before, Passed, Behind, Reported, Branches, Judged,
                Verified, Verdict, Handed, NoMid
<1>2. CASE System
  BY <1>2, WorkOutcome, RunnerOutcome, BetweenOutcome DEF System, WorkOrAnswer, RunnerStep
<1>3. CASE Environment
  BY <1>3, WorkOutcome, RunnerOutcome, BetweenOutcome
     DEF Environment, WorkOrAnswer, RunnerStep, ClientStep
<1>4. CASE Gateway = {} /\ Cancellation
  BY <1>4, CancellationOutcome
<1> QED
  BY <1>1, <1>2, <1>3, <1>4 DEF SafeNext, Uncancelled

LEMMA FullInvImplies == FullInv => NoLostRetry /\ FailedIsRepairable /\ Checkpointed
<1> SUFFICES ASSUME FullInv PROVE NoLostRetry /\ FailedIsRepairable /\ Checkpointed
  OBVIOUS
<1>1. /\ disk.st \in TaskStatus /\ Verified(disk.st) /\ Handed
      /\ Checkpointed
  BY SafeInvImplies DEF FullInv, SafeInv, OutInv, Judged, TypeInv, TypeOK, Task
<1>2. NoLostRetry
  <2> SUFFICES ASSUME AtRest, mishap = "none", disk.st # "stopped",
                      NEW n \in Node, disk.ns[n].st = "retry_waiting"
               PROVE  disk.st = "retry_waiting" /\ timer
    BY DEF NoLostRetry, WaitingNodes
  <2>1. disk.st \notin {"running", "resume_pending"}
    BY <1>1 DEF AtRest, Handed
  <2>2. disk.st \notin {"pending", "completed", "failed"}
    BY <1>1 DEF Verified, Verdict, Reached, Done, Found
  <2> QED
    BY <1>1, <2>1, <2>2 DEF AtRest, Handed, TaskStatus
<1>3. FailedIsRepairable
  <2> SUFFICES ASSUME AtRest, disk.st = "failed"
               PROVE  /\ mishap = "derailed" \/ Found(disk.ns, "failed")
                      /\ ~Found(disk.ns, "running") /\ ~Found(disk.ns, "waiting_approval")
    BY DEF FailedIsRepairable
  <2>1. NoMid
    BY <1>1 DEF AtRest, Handed
  <2> QED
    BY <1>1, <2>1 DEF Verified, Verdict, NoMid, MidStatus, Found
<1> QED
  BY <1>1, <1>2, <1>3

-----------------------------------------------------------------------------
(***************************************************************************)
(* What has ended is not written again.                                    *)
(***************************************************************************)
Ended == (~file => ~file') /\ (disk.st = "stopped" => disk' = disk)

LEMMA EndedKept ==
  ASSUME FullInv, [SafeNext]_vars
  PROVE  Ended
<1>1. TypeInv /\ Control /\ Handed
  BY DEF FullInv, SafeInv, OutInv
<1>2. /\ runner # "none" => file
      /\ runner \in {"starting", "stage", "merging", "finalizing"} => file /\ disk.st = "running"
  BY <1>1 DEF Control, Mirror, Announced
<1>3. UNCHANGED saved => Ended
  BY DEF saved, Ended
<1>4. CASE UNCHANGED vars
  BY <1>3, <1>4 DEF vars
<1>5. CASE WorkOrAnswer
  <2>1. \A n \in Node : BranchOf[n] \in Branch
    BY PlanAssumption
  <2>2. ASSUME NEW r \in Runs, NEW n \in Node, NEW w \in Active, At(r, n, w)
        PROVE  Ended
    BY <1>1, <1>2, <2>1, <2>2 DEF At, Control, Owned, Ended
  <2>3. "ready" \in Active /\ Busy \subseteq Active
    BY DEF Busy, Active
  <2>4. ASSUME NEW r \in Runs, NEW n \in Node, NEW from, NEW s, NEW w,
               EndNode(r, n, from, s, w), Ending(n, mem[r].ns[n], from, s, w)
        PROVE  Ended
    BY <2>2, <2>3, <2>4 DEF EndNode, Ending, Busy
  <2>5. ASSUME NEW r \in Runs, NEW n \in Node, StartNode(r, n) \/ Blocked(r, n)
        PROVE  Ended
    BY <2>2, <2>3, <2>5 DEF StartNode, Blocked
  <2>6. ASSUME NEW r \in Runs, NEW b \in Branch, FinishBranch(r, b)
        PROVE  Ended
    BY <1>3, <2>6 DEF FinishBranch
  <2> QED
    BY <1>1, <1>5, <2>4, <2>5, <2>6, WorkForms
<1>6. CASE RunnerStep
  <2>1. CASE RunTask \/ HandOff
    BY <2>1 DEF RunTask, HandOff, Launch, Ended
  <2>2. CASE Merge \/ Persist
    BY <1>2, <2>2 DEF Merge, Persist, Ended
  <2>3. CASE StartRunner \/ FinishStage \/ Release \/ Refused \/ PlanFails
    BY <1>3, <2>3 DEF StartRunner, FinishStage, Release, Refused, PlanFails
  <2>4. CASE StartFails
    BY <1>2, <2>4 DEF StartFails, Ended
  <2> QED
    BY <1>6, <2>1, <2>2, <2>3, <2>4 DEF RunnerStep
<1>7. CASE TimerActivates \/ ClientStep \/ Restart \/ Crash
  <2>1. CASE SendRequest \/ Crash \/ \E q \in request : RejectRequest(q)
    BY <1>3, <2>1 DEF SendRequest, Crash, RejectRequest
  <2>2. CASE TimerActivates \/ \E q \in request : RetryNode(q) \/ SkipNode(q)
    BY <2>2 DEF TimerActivates, RetryNode, SkipNode, Accept, Valid, Ended
  <2>3. CASE Restart
    BY <1>3, <2>3 DEF Restart, RecoverTask, Recoverable, Ended
  <2> QED
    BY <1>7, <2>1, <2>2, <2>3 DEF ClientStep
<1>8. CASE Gateway = {} /\ Cancellation
  <2>1. ASSUME NEW holder, CancelFor(holder)
        PROVE  Ended
    BY <1>3, <1>8, <2>1, CancelledOutcome DEF Ended
  <2>2. CASE StopReturns
    BY <1>3, <2>2 DEF StopReturns, Terminal, Ended
  <2>3. CASE StopIdleTask
    BY <2>3 DEF StopIdleTask, Recoverable, Ended
  <2>4. CASE DeleteIdleTask \/ DeleteReturns
    BY <2>4 DEF DeleteIdleTask, DeleteReturns, Ended
  <2>5. CASE ShutdownIdle
    BY <1>3, <2>5 DEF ShutdownIdle
  <2> QED
    BY <1>8, <2>1, <2>2, <2>3, <2>4, <2>5 DEF Cancellation, StopTask, DeleteTask, Shutdown
<1>9. SafeNext => WorkOrAnswer \/ RunnerStep
                    \/ (TimerActivates \/ ClientStep \/ Restart \/ Crash)
                    \/ (Gateway = {} /\ Cancellation)
  BY DEF SafeNext, Uncancelled, System, Environment, WorkOrAnswer, RunnerStep, ClientStep
<1> QED
  BY <1>4, <1>5, <1>6, <1>7, <1>8, <1>9

-----------------------------------------------------------------------------
(***************************************************************************)
(* The early returns of _activate_due_retries: whoever takes a waiting     *)
(* task elsewhere has cancelled its timer.                                 *)
(***************************************************************************)
\* An armed timer belongs to a task at rest that waits for a retry, or to a
\* process that is shutting down.
ArmedForARetry ==
  timer => /\ up
           /\ \/ lock = "exit"
              \/ lock = "free" /\ runner = "none" /\ file /\ disk.st = "retry_waiting"

LEMMA ArmedStep ==
  ASSUME FullInv, ArmedForARetry, [SafeNext]_vars
  PROVE  ArmedForARetry'
<1>1. /\ TypeInv /\ Control /\ Handed
      /\ timer \in BOOLEAN
  BY DEF FullInv, SafeInv, OutInv, TypeInv, TypeOK
<1>2. CASE UNCHANGED vars
  BY <1>2 DEF vars, saved, engine, ArmedForARetry
<1>3. CASE WorkOrAnswer
  <2>1. \A n \in Node : BranchOf[n] \in Branch
    BY PlanAssumption
  <2>2. ASSUME NEW r \in Runs, NEW n \in Node, NEW w \in Active, At(r, n, w),
               UNCHANGED <<timer, up, lock>>
        PROVE  ArmedForARetry'
    BY <1>1, <2>1, <2>2 DEF At, Control, Owned, ArmedForARetry
  <2>3. "ready" \in Active /\ Busy \subseteq Active
    BY DEF Busy, Active
  <2>4. ASSUME NEW r \in Runs, NEW n \in Node, NEW from, NEW s, NEW w,
               EndNode(r, n, from, s, w), Ending(n, mem[r].ns[n], from, s, w)
        PROVE  ArmedForARetry'
    BY <2>2, <2>3, <2>4 DEF EndNode, Ending, Busy
  <2>5. ASSUME NEW r \in Runs, NEW n \in Node, StartNode(r, n) \/ Blocked(r, n)
        PROVE  ArmedForARetry'
    BY <2>2, <2>3, <2>5 DEF StartNode, Blocked
  <2>6. ASSUME NEW r \in Runs, NEW b \in Branch, FinishBranch(r, b)
        PROVE  ArmedForARetry'
    BY <2>6 DEF FinishBranch, saved, ArmedForARetry
  <2> QED
    BY <1>1, <1>3, <2>4, <2>5, <2>6, WorkForms
<1>4. CASE RunnerStep
  <2>1. CASE RunTask \/ HandOff
    BY <2>1 DEF RunTask, HandOff, Launch, ArmedForARetry
  <2>2. CASE Persist
    <3>1. /\ runner = "finalizing" /\ file' = TRUE /\ disk' = mem[run]
          /\ up' = up /\ lock' = lock
          /\ mem[run].st \in Terminal \/ runner' = "none"
      BY <1>1, <2>2 DEF Persist, Save, LoopRuns, Control, Mirror
    <3>2. CASE mem[run].st = "retry_waiting"
      <4>1. runner' = "none"
        BY <3>1, <3>2 DEF Terminal
      <4>2. up /\ (lock = "free" \/ lock = "exit")
        BY <1>1, <2>2, <3>1 DEF Persist, LoopRuns, Handed
      <4> QED
        BY <3>1, <3>2, <4>1, <4>2 DEF ArmedForARetry
    <3>3. CASE mem[run].st # "retry_waiting"
      <4>1. timer' = timer
        BY <2>2, <3>3 DEF Persist
      <4> QED
        BY <3>1, <4>1 DEF ArmedForARetry
    <3> QED
      BY <3>2, <3>3
  <2>3. CASE StartRunner \/ FinishStage \/ Merge \/ Release \/ StartFails \/ PlanFails
    <3>1. runner # "none" /\ UNCHANGED <<timer, up, lock>>
      BY <2>3 DEF StartRunner, FinishStage, Merge, Release, StartFails, PlanFails
    <3> QED
      BY <3>1 DEF ArmedForARetry
  <2>4. CASE Refused
    BY <2>4 DEF Refused, ArmedForARetry
  <2> QED
    BY <1>4, <2>1, <2>2, <2>3, <2>4 DEF RunnerStep
<1>5. CASE TimerActivates \/ ClientStep \/ Restart \/ Crash
  <2>1. CASE SendRequest \/ \E q \in request : RejectRequest(q)
    BY <2>1 DEF SendRequest, RejectRequest, saved, engine, ArmedForARetry
  <2>2. CASE TimerActivates \/ \E q \in request : RetryNode(q) \/ SkipNode(q)
    BY <2>2 DEF TimerActivates, RetryNode, SkipNode, Accept, ArmedForARetry
  <2>3. CASE Restart
    <3>1. runner = "none" /\ runner' = runner /\ ~timer /\ lock = "free"
      BY <1>1, <2>3 DEF Restart, Control, Handed, engine, ArmedForARetry
    <3> QED
      <4>1. CASE UNCHANGED timer
        BY <3>1, <4>1 DEF ArmedForARetry
      <4>2. CASE /\ Save([st |-> "retry_waiting", ns |-> Recovered])
                 /\ timer' = TRUE /\ UNCHANGED lock
        BY <2>3, <3>1, <4>2 DEF Restart, Save, ArmedForARetry
      <4> QED
        BY <2>3, <4>1, <4>2 DEF Restart, RecoverTask
  <2>4. CASE Crash
    BY <2>4 DEF Crash, ProcessGone, ArmedForARetry
  <2> QED
    BY <1>5, <2>1, <2>2, <2>3, <2>4 DEF ClientStep
<1>6. CASE Gateway = {} /\ Cancellation
  <2>1. CASE StopTask \/ DeleteTask
    BY <2>1 DEF StopTask, DeleteTask, ArmedForARetry
  <2>2. CASE Shutdown
    BY <2>2 DEF Shutdown, CancelFor, ArmedForARetry
  <2>3. CASE StopReturns \/ DeleteReturns
    BY <2>3 DEF StopReturns, DeleteReturns, ArmedForARetry
  <2>4. CASE StopIdleTask
    BY <2>4 DEF StopIdleTask, ArmedForARetry
  <2>5. CASE DeleteIdleTask \/ ShutdownIdle
    BY <2>5 DEF DeleteIdleTask, ShutdownIdle, ProcessGone, ArmedForARetry
  <2> QED
    BY <1>6, <2>1, <2>2, <2>3, <2>4, <2>5 DEF Cancellation
<1>7. SafeNext => WorkOrAnswer \/ RunnerStep
                    \/ (TimerActivates \/ ClientStep \/ Restart \/ Crash)
                    \/ (Gateway = {} /\ Cancellation)
  BY DEF SafeNext, Uncancelled, System, Environment, WorkOrAnswer, RunnerStep, ClientStep
<1> QED
  BY <1>2, <1>3, <1>4, <1>5, <1>6, <1>7

-----------------------------------------------------------------------------
(***************************************************************************)
(* The runner, the timer, recovery and the clients implement the life      *)
(* cycle a client of the API sees.                                         *)
(***************************************************************************)
LifecycleStep == [Lifecycle!Next]_(Lifecycle!lifecycle)

LEMMA LifecycleStutter ==
  ASSUME file' = file, disk'.st = disk.st, disk'.ns = disk.ns
  PROVE  LifecycleStep
BY DEF LifecycleStep, Lifecycle!lifecycle, Settled

\* Branch tasks settle one node, or none.
LEMMA SettleOne ==
  ASSUME NEW n \in Node, file, file', disk.st = "running", disk'.st = "running", ~Done(disk.ns[n]),
         \A m \in Node \ {n} : disk'.ns[m] = disk.ns[m]
  PROVE  LifecycleStep
<1>1. n \notin Settled
  BY DEF Settled
<1>2. CASE Done(disk'.ns[n])
  <2>1. Settled' = Settled \cup {n}
    BY <1>2 DEF Settled
  <2> QED
    BY <1>1, <2>1 DEF LifecycleStep, Lifecycle!Next, Lifecycle!Settle
<1>3. CASE ~Done(disk'.ns[n])
  <2>1. Settled' = Settled
    BY <1>3 DEF Settled
  <2> QED
    BY <2>1 DEF LifecycleStep, Lifecycle!lifecycle
<1> QED
  BY <1>2, <1>3

LEMMA WorkLifecycle ==
  ASSUME FullInv, WorkOrAnswer
  PROVE  LifecycleStep
<1>1. TypeInv /\ Control
  BY DEF FullInv, SafeInv
<1>2. \A n \in Node : BranchOf[n] \in Branch
  BY PlanAssumption
<1>3. ASSUME UNCHANGED saved PROVE LifecycleStep
  BY <1>3, LifecycleStutter DEF saved
<1>4. ASSUME NEW r \in Runs, NEW n \in Node, NEW w \in Active, NEW s, At(r, n, w), SetNode(r, n, s)
      PROVE  LifecycleStep
  <2>1. /\ r = run /\ runner = "stage" /\ file /\ disk.st = "running"
        /\ mem[run].ns = disk.ns /\ mem[run].st = "running" /\ mem \in [Runs -> Task]
    BY <1>1, <1>2, <1>4 DEF At, Control, Owned, Mirror, Announced, TypeInv, TypeOK
  <2>2. ~Done(disk.ns[n])
    BY <1>4, <2>1 DEF At, AtNode
  <2>3. mem' = [mem EXCEPT ![r].ns[n] = s] /\ disk' = mem'[r] /\ file' = TRUE
    BY <1>4 DEF SetNode, Save
  <2>4. disk'.st = "running" /\ \A m \in Node \ {n} : disk'.ns[m] = disk.ns[m]
    BY <2>1, <2>3 DEF Task
  <2> QED
    BY <2>1, <2>2, <2>3, <2>4, SettleOne
<1>5. "ready" \in Active /\ Busy \subseteq Active
  BY DEF Busy, Active
<1>6. ASSUME NEW r \in Runs, NEW n \in Node, StartNode(r, n) \/ Blocked(r, n)
      PROVE  LifecycleStep
  BY <1>3, <1>4, <1>5, <1>6 DEF StartNode, Blocked
<1>7. ASSUME NEW r \in Runs, NEW n \in Node, NEW from, NEW s, NEW w,
             EndNode(r, n, from, s, w), Ending(n, mem[r].ns[n], from, s, w)
      PROVE  LifecycleStep
  BY <1>4, <1>5, <1>7 DEF EndNode, Ending, Busy
<1>8. ASSUME NEW r \in Runs, NEW b \in Branch, FinishBranch(r, b)
      PROVE  LifecycleStep
  BY <1>3, <1>8 DEF FinishBranch
<1> QED
  BY <1>1, <1>6, <1>7, <1>8, WorkForms

LEMMA RunnerLifecycle ==
  ASSUME FullInv, RunnerStep
  PROVE  LifecycleStep
<1>1. TypeInv /\ Control /\ Judged /\ disk \in Task /\ disk'.ns = disk.ns /\ Settled' = Settled
  BY RunnerControl DEF FullInv, SafeInv, OutInv, TypeInv, TypeOK, Settled
<1>2. ASSUME UNCHANGED saved PROVE LifecycleStep
  BY <1>2, LifecycleStutter DEF saved
<1>3. runner # "none" => run \in Runs /\ file /\ mem[run].ns = disk.ns
  BY <1>1 DEF TypeInv, Launched, Control, Mirror
<1>4. CASE RunTask \/ HandOff
  <2>1. Launch
    BY <1>4 DEF RunTask, HandOff
  <2>2. file /\ disk.st \in {"pending", "resume_pending"} /\ file' = TRUE
    BY <2>1 DEF Launch, Save
  <2>3. disk'.st = "running"
    <3>1. "running" \in TaskStatus
      BY DEF TaskStatus
    <3> QED
      BY <1>1, <2>1, <3>1, TaskUpdates DEF Launch, Save
  <2> QED
    BY <1>1, <2>2, <2>3 DEF LifecycleStep, Lifecycle!Next, Lifecycle!Start
<1>5. CASE StartRunner \/ FinishStage \/ Release \/ Refused \/ PlanFails
  BY <1>2, <1>5 DEF StartRunner, FinishStage, Release, Refused, PlanFails
<1>6. CASE Merge
  <2>1. mem[run].st = "running" /\ disk.st = "running" /\ file
    BY <1>1, <1>3, <1>6 DEF Merge, Control, Announced
  <2>2. UNCHANGED saved \/ (disk' = mem[run] /\ file' = TRUE)
    BY <1>6 DEF Merge, Save
  <2> QED
    BY <1>1, <1>2, <2>1, <2>2, LifecycleStutter
<1>7. CASE Persist
  <2>1. /\ runner = "finalizing" /\ disk' = mem[run] /\ file' = TRUE
        /\ file /\ disk.st = "running"
    BY <1>1, <1>3, <1>7 DEF Persist, Save, Control, Announced
  <2>2. disk'.st \in Outcome /\ Verified(disk'.st)
    BY <1>1, <2>1 DEF Judged, Verified
  <2>3. CASE disk'.st = "completed"
    <3>1. Settled = Node
      BY <2>2, <2>3 DEF Verified, Verdict, Settled
    <3> QED
      BY <1>1, <2>1, <2>3, <3>1 DEF LifecycleStep, Lifecycle!Next, Lifecycle!Complete
  <2>4. CASE disk'.st \in {"failed", "retry_waiting"} /\ Verdict(disk'.st, disk.ns)
    <3>1. Settled' # Node /\ Settled \subseteq Settled' /\ Settled' \subseteq Node
      BY <1>1, <2>4 DEF Verdict, Found, Settled, Done
    <3> QED
      BY <2>1, <2>4, <3>1 DEF LifecycleStep, Lifecycle!Next, Lifecycle!Interrupt
  <2>5. CASE disk'.st = "failed"
    BY <1>1, <2>1, <2>5 DEF LifecycleStep, Lifecycle!Next, Lifecycle!Abort
  <2> QED
    BY <2>2, <2>3, <2>4, <2>5 DEF Outcome, Verified
<1>8. CASE StartFails
  <2>1. /\ runner = "starting" /\ disk' = mem'[run] /\ file' = TRUE
        /\ mem' = [mem EXCEPT ![run].st = "failed"]
    BY <1>8 DEF StartFails, Save
  <2>2. file /\ disk.st = "running"
    BY <1>1, <1>3, <2>1 DEF Control, Announced
  <2>3. disk'.st = "failed"
    BY <1>1, <1>3, <2>1 DEF TypeInv, TypeOK, Task
  <2> QED
    BY <1>1, <2>1, <2>2, <2>3 DEF LifecycleStep, Lifecycle!Next, Lifecycle!Abort
<1> QED
  BY <1>4, <1>5, <1>6, <1>7, <1>8 DEF RunnerStep

\* A task that waits is resumed; a task the process died with is taken up again,
\* or said to wait or to have failed as the nodes have it.
LEMMA BetweenLifecycle ==
  ASSUME FullInv, TimerActivates \/ ClientStep \/ Restart \/ Crash
  PROVE  LifecycleStep
<1>1. /\ TypeInv /\ Control /\ Judged /\ Handed /\ disk \in Task /\ DoneKept
      /\ \A n \in Node : disk.ns[n] \in NodeState
  BY BetweenSafe DEF FullInv, SafeInv, OutInv, TypeInv, TypeOK, Task
<1>2. ASSUME UNCHANGED saved PROVE LifecycleStep
  BY <1>2, LifecycleStutter DEF saved
<1>3. CASE SendRequest \/ Crash \/ \E q \in request : RejectRequest(q)
  BY <1>2, <1>3 DEF SendRequest, Crash, RejectRequest
<1>4. CASE TimerActivates
  <2>1. file /\ disk.st = "retry_waiting"
    BY <1>4 DEF TimerActivates
  <2>2. PICK due \in SUBSET WaitingNodes(disk) : SaveResume(Activated(disk, due))
    BY <1>4 DEF TimerActivates
  <2>3. /\ file' = TRUE /\ disk'.st = "resume_pending" /\ disk'.ns = Activated(disk, due)
    BY <2>2 DEF SaveResume, Save
  <2>4. \A s \in NodeState : ActivateRetry(s).st = "pending"
    BY StatusFacts DEF ActivateRetry, NodeStatus
  <2>5. Settled' = Settled
    BY <1>1, <2>3, <2>4 DEF Settled, Activated, WaitingNodes, Done
  <2> QED
    BY <2>1, <2>3, <2>5 DEF LifecycleStep, Lifecycle!Next, Lifecycle!Resume
<1>5. ASSUME NEW q \in request, RetryNode(q) \/ SkipNode(q)
      PROVE  LifecycleStep
  <2> DEFINE old == disk.ns[q.n]
  <2>1. PICK s : Accept(q, s) /\ (s = ManualRetry(Failed(old)) \/ s = FailureSkip(Failed(old)))
    BY <1>5 DEF RetryNode, SkipNode
  <2>2. /\ file /\ disk.st \in {"failed", "retry_waiting"} /\ Controllable(old)
        /\ SaveResume([disk.ns EXCEPT ![q.n] = s])
    BY <2>1 DEF Accept, Valid
  <2>3. file' = TRUE /\ disk'.st = "resume_pending" /\ disk'.ns = [disk.ns EXCEPT ![q.n] = s]
    BY <2>2 DEF SaveResume, Save
  <2>4. q.n \in Node
    BY <1>1 DEF TypeInv, TypeOK, Request
  <2>5. disk'.ns[q.n] = s /\ \A n \in Node \ {q.n} : disk'.ns[n] = disk.ns[n]
    BY <1>1, <2>3, <2>4 DEF Task
  <2>6. q.n \notin Settled
    BY <2>2 DEF Settled, Controllable, Done
  <2>7. Settled' = Settled \/ Settled' = Settled \cup {q.n}
    BY <2>4, <2>5, <2>6 DEF Settled
  <2> QED
    BY <2>2, <2>3, <2>4, <2>6, <2>7 DEF LifecycleStep, Lifecycle!Next, Lifecycle!Resume
<1>6. CASE Restart
  <2>1. ~up /\ RecoverTask
    BY <1>6 DEF Restart
  <2>2. CASE ~(file /\ disk.st \in Recoverable)
    BY <1>2, <2>1, <2>2 DEF RecoverTask
  <2>3. CASE file /\ disk.st \in Recoverable
    <3>1. /\ file' = TRUE /\ disk'.ns = Recovered
          /\ \/ disk'.st = "retry_waiting" /\ Found(Recovered, "retry_waiting")
                /\ disk.st # "resume_pending"
             \/ /\ disk'.st = "failed" /\ Found(Recovered, "failed")
                /\ ~Found(Recovered, "retry_waiting") /\ disk.st # "resume_pending"
             \/ disk'.st = "resume_pending"
      BY <2>1, <2>3 DEF RecoverTask, SaveResume, Save, ResumeRequested
    <3>2. Settled \subseteq Settled' /\ Settled' \subseteq Node
      BY <1>1 DEF DoneKept, Settled
    <3>3. CASE disk.st = "running"
      <4>1. disk'.st # "resume_pending" => Settled' # Node
        BY <3>1 DEF Found, Settled, Done
      <4> QED
        BY <2>3, <3>1, <3>2, <3>3, <4>1 DEF LifecycleStep, Lifecycle!Next, Lifecycle!Interrupt
    <3>4. CASE disk.st \in {"retry_waiting", "resume_pending"}
      <4>1. \A n \in Node : Recovered[n] = disk.ns[n]
        BY <1>1, <2>3, <3>4 DEF Handed, NoMid, MidStatus, Recovered, RecoverNode
      <4>2. Settled' = Settled
        BY <3>1, <4>1 DEF Settled
      <4>3. disk.st = "retry_waiting" => Found(Recovered, "retry_waiting")
        BY <1>1, <4>1 DEF Judged, Verified, Verdict, Found
      <4>4. \/ disk'.st = disk.st
            \/ disk.st = "retry_waiting" /\ disk'.st = "resume_pending"
        BY <3>1, <3>4, <4>3
      <4> QED
        BY <2>3, <3>1, <4>2, <4>4
           DEF LifecycleStep, Lifecycle!lifecycle, Lifecycle!Next, Lifecycle!Resume
    <3> QED
      BY <2>3, <3>3, <3>4 DEF Recoverable
  <2> QED
    BY <2>2, <2>3
<1> QED
  BY <1>3, <1>4, <1>5, <1>6 DEF ClientStep

LEMMA CancellationLifecycle ==
  ASSUME FullInv, Gateway = {}, Cancellation
  PROVE  LifecycleStep
<1>1. TypeInv /\ Control /\ Handed /\ disk \in Task /\ disk'.ns = disk.ns /\ Settled' = Settled
  BY CancellationControl DEF FullInv, SafeInv, OutInv, TypeInv, TypeOK, Settled
<1>2. ASSUME UNCHANGED saved PROVE LifecycleStep
  BY <1>2, LifecycleStutter DEF saved
<1>3. ASSUME file, file' = FALSE PROVE LifecycleStep
  <2>1. disk.st # "deleted"
    BY <1>1 DEF Task, TaskStatus
  <2> QED
    BY <1>1, <1>3, <2>1 DEF LifecycleStep, Lifecycle!Next, Lifecycle!Delete
<1>4. ASSUME file, file' = TRUE, disk.st \in Recoverable, disk'.st = "stopped" PROVE LifecycleStep
  BY <1>1, <1>4 DEF LifecycleStep, Lifecycle!Next, Lifecycle!Stop, Recoverable
<1>5. MarkStopped => disk'.st = "stopped" /\ file' = TRUE
  <2>1. "stopped" \in TaskStatus
    BY DEF TaskStatus
  <2> QED
    BY <1>1, <2>1, TaskUpdates DEF MarkStopped, Save
<1>6. ASSUME NEW holder, CancelFor(holder)
      PROVE  LifecycleStep
  BY <1>2, <1>4, <1>6, CancelledOutcome DEF Recoverable
<1>7. CASE StopReturns
  <2>1. CASE file /\ disk.st \notin Terminal
    <3>1. disk.st = "running" /\ MarkStopped
      BY <1>1, <1>7, <2>1 DEF StopReturns, Handed
    <3> QED
      BY <1>4, <1>5, <2>1, <3>1 DEF Recoverable
  <2>2. CASE ~(file /\ disk.st \notin Terminal)
    BY <1>2, <1>7, <2>2 DEF StopReturns
  <2> QED
    BY <2>1, <2>2
<1>8. CASE StopIdleTask
  BY <1>3, <1>4, <1>5, <1>8 DEF StopIdleTask
<1>9. CASE DeleteIdleTask \/ DeleteReturns
  <2>1. file' = FALSE /\ disk' = disk
    BY <1>9 DEF DeleteIdleTask, DeleteReturns
  <2>2. CASE ~file
    BY <1>1, <2>1, <2>2 DEF LifecycleStep, Lifecycle!lifecycle
  <2> QED
    BY <1>3, <2>1, <2>2
<1>10. CASE ShutdownIdle
  BY <1>2, <1>10 DEF ShutdownIdle
<1> QED
  BY <1>6, <1>7, <1>8, <1>9, <1>10 DEF Cancellation, StopTask, DeleteTask, Shutdown

LEMMA InitLifecycle == Init => Lifecycle!Init
<1> SUFFICES ASSUME Init PROVE Lifecycle!Init
  OBVIOUS
<1>1. PICK disabled \in SUBSET Node : disk = NewTask(disabled)
  BY DEF Init
<1>2. file /\ disk.st = "pending"
  BY <1>1 DEF Init, NewTask
<1> QED
  BY <1>2 DEF Lifecycle!Init, Settled

LEMMA FullLifecycle ==
  ASSUME FullInv, [SafeNext]_vars
  PROVE  LifecycleStep
<1>1. CASE UNCHANGED vars
  BY <1>1, LifecycleStutter DEF vars, saved
<1>2. SafeNext => WorkOrAnswer \/ RunnerStep
                    \/ (TimerActivates \/ ClientStep \/ Restart \/ Crash)
                    \/ (Gateway = {} /\ Cancellation)
  BY DEF SafeNext, Uncancelled, System, Environment, WorkOrAnswer, RunnerStep, ClientStep
<1> QED
  BY <1>1, <1>2, WorkLifecycle, RunnerLifecycle, BetweenLifecycle, CancellationLifecycle

-----------------------------------------------------------------------------
(***************************************************************************)
(* The results.                                                            *)
(***************************************************************************)
LEMMA UncancelledInv == UncancelledSpec => []FullInv
<1>1. FullInv /\ [Uncancelled]_vars => FullInv'
  BY FullStep DEF SafeNext
<1> QED
  BY <1>1, InitFullInv, PTL DEF UncancelledSpec

LEMMA SerialInv == ASSUME Gateway = {} PROVE Spec => []FullInv
<1>1. FullInv /\ [Next]_vars => FullInv'
  BY FullStep DEF SafeNext, Next, Uncancelled
<1> QED
  BY <1>1, InitFullInv, PTL DEF Spec

\* A node that waits for its automatic retry is never forgotten: not when a
\* sibling fails, not by a crash, not by recovery; unless the latest launch
\* was refused or failed outside the nodes.
THEOREM UncancelledRetries == UncancelledSpec => []NoLostRetry
BY UncancelledInv, FullInvImplies, PTL

\* The same for plans without gateways, whatever is stopped, deleted, restarted.
THEOREM SerialRetries == ASSUME Gateway = {} PROVE Spec => []NoLostRetry
BY SerialInv, FullInvImplies, PTL

\* The timer never fires under a running task or one that waits no longer: the
\* checks of _activate_due_retries after the one of the generation never bite.
THEOREM UncancelledTimer == UncancelledSpec => []ArmedForARetry
<1>1. Init => ArmedForARetry
  BY DEF Init, ArmedForARetry
<1>2. FullInv /\ ArmedForARetry /\ [Uncancelled]_vars => ArmedForARetry'
  BY ArmedStep DEF SafeNext
<1> QED
  BY <1>1, <1>2, UncancelledInv, PTL DEF UncancelledSpec

THEOREM SerialTimer == ASSUME Gateway = {} PROVE Spec => []ArmedForARetry
<1>1. Init => ArmedForARetry
  BY DEF Init, ArmedForARetry
<1>2. FullInv /\ ArmedForARetry /\ [Next]_vars => ArmedForARetry'
  BY ArmedStep DEF SafeNext, Next, Uncancelled
<1> QED
  BY <1>1, <1>2, SerialInv, PTL DEF Spec

\* A failed task has no node left mid-attempt and, unless its last launch failed
\* outside the nodes, a failed one to retry or skip.
THEOREM UncancelledRepair == UncancelledSpec => []FailedIsRepairable
BY UncancelledInv, FullInvImplies, PTL

THEOREM SerialRepair == ASSUME Gateway = {} PROVE Spec => []FailedIsRepairable
BY SerialInv, FullInvImplies, PTL

\* What the runner believes of the nodes is what the file says, and no branch
\* task outlives the runner that started it.
THEOREM UncancelledCheckpoints == UncancelledSpec => []Checkpointed
BY UncancelledInv, FullInvImplies, PTL

THEOREM SerialCheckpoints == ASSUME Gateway = {} PROVE Spec => []Checkpointed
BY SerialInv, FullInvImplies, PTL

\* Without gateways a stopped task stays stopped and a deleted one deleted,
\* although the runner, the timer, requests and recovery write the same file.
THEOREM SerialEnded == ASSUME Gateway = {} PROVE Spec => EndedStaysEnded
<1>1. FullInv /\ [Next]_vars => [Ended]_vars
  BY EndedKept DEF SafeNext, Next, Uncancelled
<1> QED
  BY <1>1, SerialInv, PTL DEF Spec, EndedStaysEnded, Ended

\* Every behaviour is one the life cycle of TaskLifecycle allows.
THEOREM UncancelledRefinement == UncancelledSpec => RefinesLifecycle
<1>1. FullInv /\ [Uncancelled]_vars => [Lifecycle!Next]_(Lifecycle!lifecycle)
  BY FullLifecycle DEF SafeNext, LifecycleStep
<1> QED
  BY <1>1, InitLifecycle, UncancelledInv, PTL DEF UncancelledSpec, RefinesLifecycle, Lifecycle!Spec

THEOREM SerialRefinement == ASSUME Gateway = {} PROVE Spec => RefinesLifecycle
<1>1. FullInv /\ [Next]_vars => [Lifecycle!Next]_(Lifecycle!lifecycle)
  BY FullLifecycle DEF SafeNext, LifecycleStep, Next, Uncancelled
<1> QED
  BY <1>1, InitLifecycle, SerialInv, PTL DEF Spec, RefinesLifecycle, Lifecycle!Spec

===============================================================================
