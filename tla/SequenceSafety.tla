--------------------------- MODULE SequenceSafety ----------------------------
(***************************************************************************)
(* Safety of NodeSequence for every sequence, every choice of approvals,   *)
(* of nodes that may reject and of whom (upstream or not), every retry     *)
(* budget and limit of rejections, and any number of crashes and requests: *)
(* attempts, executions and rejections are counted right, nothing executes *)
(* before what precedes it is answered, rework is seen again by the node   *)
(* that asked for it, and a failed task can be repaired.                   *)
(***************************************************************************)
EXTENDS NodeSequence, TLAPS

-----------------------------------------------------------------------------
(***************************************************************************)
(* The inductive invariant.                                                *)
(***************************************************************************)
Live      == sqCtl \notin {"rest", "down"}
At        == Order[sqPos]
Rejecting == sqCtl = "exec" /\ sqTarget # NoTarget  \* accepted, not recorded
InRework  == Rejecting \/ sqCtl \in {"reissue", "rework", "reworkWait"}
Within    == {"exec", "wait", "reissue", "rework", "reworkWait", "skipDown"}

\* The runner works on what the file holds, but for a rejection it accepted and
\* did not save; each of its places has its statuses.
Walk ==
  /\ Live => sqTask.st = "running"
  /\ sqCtl = "rest" => sqTask.st # "running"
  /\ Live /\ ~Rejecting => sqMem = sqTask.ns
  /\ sqCtl \in Within => sqPos <= Len(Order)
  /\ InRework \/ sqCtl = "skipDown" => sqTarget \in SqNode /\ sqTarget # At
  /\ sqCtl = "exec" => sqMem[At].st = "running"
  /\ sqCtl = "exec" /\ sqTarget = NoTarget => sqMem[At].att >= 1
  /\ sqCtl = "wait" => sqMem[At].st = "waiting_approval"
  /\ sqCtl = "reissue" => sqMem[sqTarget].st = "pending"
                          /\ sqMem[At].st \in {"completed", "failed"}
  /\ sqCtl = "rework" => sqMem[sqTarget].st = "running"
  /\ sqCtl = "reworkWait" => sqMem[sqTarget].st = "waiting_approval"
  /\ sqCtl \in {"rework", "reworkWait"} => sqMem[At].st \in {"completed", "failed"}
  /\ sqCtl = "skipDown" => sqMem[sqTarget].st = "skipped" /\ sqMem[At].st = "pending"

\* Executions the node may still need from its current failure chain.
Due(s) == IF s.st \in {"pending", "retry_waiting", "waiting_retry"} THEN 1 ELSE 0

Fits(n, s, executed, allowed) ==
  /\ s.auto <= RetryBudget(n)
  /\ executed + (RetryBudget(n) - s.auto) + Due(s) <= allowed

Begun(s) == s.st \in {"running", "waiting_approval", "completed"}

\* The node whose plugin runs, or ran when the process died.
Plugged(n) ==
  \/ sqCtl \in {"exec", "wait"} /\ n = At
  \/ sqCtl \in {"rework", "reworkWait"} /\ n = sqTarget
  \/ sqCtl = "down" /\ sqTask.st = "running"

\* A node that a rolled-back approval left running.
Left(ns, n) ==
  /\ ns[n].st = "running"
  /\ \E i \in DOMAIN Order : /\ n = Order[i] /\ i + 1 \in DOMAIN Order
                             /\ ns[Order[i + 1]].veto > 0

\* The node that rejected, until its answer is in.
Asking(n) == InRework /\ n = At

Unseen == {"pending", "waiting_retry", "skipped"}

Unsaved(n) == IF Rejecting /\ n = sqTarget THEN 1 ELSE 0

\* What holds of each node in the file.
OnFile(n) ==
  LET s == sqTask.ns[n] IN
  /\ n \notin sqTorn => s.att = sqExecs[n]
  /\ Begun(s) => sqExecs[n] >= 1
  /\ Fits(n, s, sqExecs[n], sqAllowance[n])
  /\ sqSentBack[n] <= s.rej + sqExits + Unsaved(n)
  /\ s.st \in {"running", "waiting_approval"} => Plugged(n) \/ Left(sqTask.ns, n)
  /\ sqExits = 0 /\ n \in sqOwed => s.st \in Unseen \/ Asking(n)

File == \A n \in SqNode : OnFile(n)

\* The node that rejected keeps an execution for the answer.
Kept == InRework =>
  sqExecs[At] + (RetryBudget(At) - sqMem[At].auto) + 1 <= sqAllowance[At]

\* A rejection that was accepted and not recorded touches two node states.
Accepted == Rejecting =>
  /\ \A n \in SqNode : /\ n \notin {At, sqTarget} => sqMem[n] = sqTask.ns[n]
                       /\ sqMem[n].veto = sqTask.ns[n].veto
                       /\ sqMem[n].auto = sqTask.ns[n].auto
                       /\ sqSentBack[n] <= sqMem[n].rej + sqExits
  /\ At \notin Approval /\ sqTask.ns[At].st = "running"
  /\ At \notin sqTorn => sqMem[At].att + 1 = sqExecs[At]
  /\ sqMem[sqTarget].st = "waiting_retry" /\ sqMem[sqTarget].att = sqTask.ns[sqTarget].att
  /\ sqExecs[sqTarget] + RetryBudget(sqTarget) + 1 <= sqAllowance[sqTarget]

\* What precedes the current node is answered, or is being reworked.
Before ==
  Live /\ sqCtl # "end" =>
    \A j \in 1..(sqPos - 1) :
      SqAnswered(sqMem[Order[j]]) \/ (InRework /\ Order[j] = sqTarget)

Broken(ns) ==
  SqFound(ns, "failed") \/ SqFound(ns, "rejected") \/ (\E n \in SqNode : Left(ns, n))

\* What an outcome says of the nodes.
Outcomes ==
  /\ sqCtl = "end" /\ sqOutcome = "completed" => \A n \in SqNode : SqAnswered(sqMem[n])
  /\ sqTask.st = "completed" => \A n \in SqNode : SqAnswered(sqTask.ns[n])
  /\ sqCtl = "end" /\ sqOutcome = "failed" => Broken(sqMem)
  /\ sqTask.st = "failed" => Broken(sqTask.ns)

SeqInv ==
  /\ SeqTypeOK /\ Walk /\ File /\ Kept /\ Accepted /\ Before /\ Outcomes
  /\ RejectionsBounded

-----------------------------------------------------------------------------
(***************************************************************************)
(* Node states and sequences.                                              *)
(***************************************************************************)
LEMMA Nodes ==
  /\ Order \in Seq(Node) /\ Len(Order) \in Nat /\ DOMAIN Order = 1..Len(Order)
  /\ \A i \in 1..Len(Order) : Order[i] \in SqNode
  /\ \A n \in SqNode : \E i \in 1..Len(Order) : n = Order[i]
  /\ \A i, j \in 1..Len(Order) : Order[i] = Order[j] => i = j
  /\ SqNode \subseteq Node /\ NoTarget \notin SqNode
  /\ \A n \in SqNode : RetryBudget(n) \in Nat /\ MaxReject[n] \in Nat
  /\ \A n \in SqNode : Targets[n] \subseteq SqNode /\ n \notin Targets[n]
  /\ 1 \in Starts
<1>1. Order \in Seq(Node) /\ Len(Order) \in Nat /\ DOMAIN Order = 1..Len(Order)
  BY SequenceAssumption
<1>2. /\ \A i \in 1..Len(Order) : Order[i] \in SqNode
      /\ \A n \in SqNode : \E i \in 1..Len(Order) : n = Order[i]
      /\ SqNode \subseteq Node
  BY <1>1 DEF SqNode
<1>3. \A n \in SqNode : RetryBudget(n) \in Nat
  BY <1>2, PolicyAssumption DEF RetryBudget, MAX_AUTO_RETRY_COUNT
<1> QED
  BY <1>1, <1>2, <1>3, SequenceAssumption

\* What no transition of the policy touches: the counts of rejections.
Alike(s, t) == t.rej = s.rej /\ t.veto = s.veto

LEMMA StatusFacts ==
  ASSUME NEW s \in SeqState, NEW v \in SeqStatus
  PROVE  LET t == [s EXCEPT !.st = v]
         IN  /\ t \in SeqState /\ t.st = v /\ t.att = s.att /\ t.auto = s.auto
             /\ t.trig = s.trig /\ Alike(s, t)
BY DEF SeqState, Alike

LEMMA BeginFacts ==
  ASSUME NEW s \in SeqState
  PROVE  LET t == BeginAttempt(s)
         IN  /\ t \in SeqState /\ t.st = "running" /\ t.att = s.att + 1 /\ t.att >= 1
             /\ t.auto = s.auto /\ Alike(s, t)
<1>1. s.att + 1 \in Nat /\ s.att + 1 >= 1 /\ "running" \in SeqStatus
  BY DEF SeqState, SeqStatus, NodeStatus
<1> DEFINE k == s.att + 1
<1>2. BeginAttempt(s) = [s EXCEPT !.st = "running", !.att = k]
  BY DEF BeginAttempt
<1> HIDE DEF k
<1>3. [s EXCEPT !.st = "running", !.att = k] \in SeqState
  BY <1>1 DEF SeqState, k
<1> QED
  BY <1>1, <1>2, <1>3 DEF SeqState, Alike, k

LEMMA RetryFacts ==
  ASSUME NEW s \in SeqState, NEW tr \in SeqTrigger
  PROVE  /\ LET t == [ManualRetry(s) EXCEPT !.trig = tr]
            IN  /\ t \in SeqState /\ t.st = "pending" /\ t.att = s.att /\ t.auto = 0
                /\ Alike(s, t)
         /\ ManualRetry(s) \in SeqState /\ ManualRetry(s).st = "pending"
         /\ ManualRetry(s).att = s.att /\ ManualRetry(s).auto = 0 /\ Alike(s, ManualRetry(s))
<1>1. "pending" \in SeqStatus /\ "manual_retry" \in SeqTrigger
  BY DEF SeqStatus, NodeStatus, SeqTrigger, Trigger
<1> QED
  BY <1>1 DEF SeqState, ManualRetry, Alike

LEMMA FailureFacts ==
  ASSUME NEW n \in SqNode, NEW s \in SeqState, s.st = "failed"
  PROVE  LET t == AfterFailure(n, s)
         IN  /\ t \in SeqState /\ t.att = s.att /\ Alike(s, t)
             /\ t.st \in {"retry_waiting", "skipped", "failed"}
             /\ t.st = "retry_waiting" => s.auto < RetryBudget(n) /\ t.auto = s.auto + 1
             /\ t.st # "retry_waiting" => t.auto = s.auto
<1>1. ~(CanAutoRetry(n, s) /\ ShouldAutoSkip(n, s))
  BY DEF ShouldAutoSkip
<1>2. CASE CanAutoRetry(n, s)
  <2> DEFINE k == s.auto + 1
  <2>1. AfterFailure(n, s) = [s EXCEPT !.st = "retry_waiting", !.auto = k, !.trig = "auto_retry"]
    BY <1>1, <1>2, Zenon DEF AfterFailure, AutoRetry
  <2>2. k \in Nat /\ "retry_waiting" \in SeqStatus /\ "auto_retry" \in SeqTrigger
    BY DEF SeqState, SeqStatus, NodeStatus, SeqTrigger, Trigger
  <2> HIDE DEF k
  <2>3. [s EXCEPT !.st = "retry_waiting", !.auto = k, !.trig = "auto_retry"] \in SeqState
    BY <2>2 DEF SeqState
  <2> QED
    BY <1>2, <2>1, <2>3 DEF SeqState, Alike, CanAutoRetry, k
<1>3. CASE ShouldAutoSkip(n, s)
  <2>1. AfterFailure(n, s) = FailureSkip(s)
    BY <1>1, <1>3, Zenon DEF AfterFailure
  <2>2. "skipped" \in SeqStatus
    BY DEF SeqStatus, NodeStatus
  <2> QED
    BY <2>1, <2>2, StatusFacts DEF FailureSkip
<1>4. CASE ~CanAutoRetry(n, s) /\ ~ShouldAutoSkip(n, s)
  <2>1. AfterFailure(n, s) = s
    BY <1>4, Zenon DEF AfterFailure
  <2> QED
    BY <2>1 DEF Alike
<1> QED
  BY <1>2, <1>3, <1>4

\* The policy applied to a node that has just failed.
LEMMA PolicyFacts ==
  ASSUME NEW ns \in [SqNode -> SeqState], NEW n \in SqNode
  PROVE  LET t == Policy(ns, n)[n]
         IN  /\ Policy(ns, n) \in [SqNode -> SeqState]
             /\ \A m \in SqNode \ {n} : Policy(ns, n)[m] = ns[m]
             /\ t \in SeqState /\ t.att = ns[n].att /\ Alike(ns[n], t)
             /\ t.st \in {"retry_waiting", "skipped", "failed"}
             /\ t.st = "retry_waiting" => ns[n].auto < RetryBudget(n) /\ t.auto = ns[n].auto + 1
             /\ t.st # "retry_waiting" => t.auto = ns[n].auto
<1> DEFINE f == [ns[n] EXCEPT !.st = "failed"]
<1>1. "failed" \in SeqStatus /\ ns[n] \in SeqState
  BY DEF SeqStatus, NodeStatus
<1>2. f \in SeqState /\ f.st = "failed" /\ f.att = ns[n].att /\ f.auto = ns[n].auto /\ Alike(ns[n], f)
  BY <1>1, StatusFacts
<1>3. Policy(ns, n) = [ns EXCEPT ![n] = AfterFailure(n, f)]
  BY DEF Policy
<1> HIDE DEF f
<1>4. /\ AfterFailure(n, f) \in SeqState /\ AfterFailure(n, f).att = f.att
      /\ Alike(f, AfterFailure(n, f))
      /\ AfterFailure(n, f).st \in {"retry_waiting", "skipped", "failed"}
      /\ AfterFailure(n, f).st = "retry_waiting"
           => f.auto < RetryBudget(n) /\ AfterFailure(n, f).auto = f.auto + 1
      /\ AfterFailure(n, f).st # "retry_waiting" => AfterFailure(n, f).auto = f.auto
  BY <1>2, FailureFacts
<1>5. Policy(ns, n)[n] = AfterFailure(n, f)
  BY <1>3
<1>6. Policy(ns, n) \in [SqNode -> SeqState]
  BY <1>3, <1>4
<1>7. \A m \in SqNode \ {n} : Policy(ns, n)[m] = ns[m]
  BY <1>3
<1> QED
  BY <1>2, <1>4, <1>5, <1>6, <1>7 DEF Alike

LEMMA RecoverFacts ==
  ASSUME NEW n \in SqNode, NEW s \in SeqState
  PROVE  LET t == RecoverNode(n, s)
         IN  /\ t \in SeqState /\ Alike(s, t)
             /\ s.st \notin {"running", "waiting_approval"} => t = s
             /\ s.att >= 1 => t.att = s.att
             /\ s.st = "running" =>
                  /\ t.st \in {"retry_waiting", "skipped", "failed"}
                  /\ t.st = "retry_waiting" => s.auto < RetryBudget(n) /\ t.auto = s.auto + 1
                  /\ t.st # "retry_waiting" => t.auto = s.auto
             /\ s.st = "waiting_approval" => t.st = "pending" /\ t.auto = s.auto
<1> DEFINE k == IF s.att < 1 THEN 1 ELSE s.att
           i == [s EXCEPT !.st = "failed", !.att = k]
<1>1. k \in Nat /\ (s.att >= 1 => k = s.att)
  BY DEF SeqState
<1>2. "failed" \in SeqStatus /\ "pending" \in SeqStatus /\ "recovery_reissue" \in SeqTrigger
  BY DEF SeqStatus, NodeStatus, SeqTrigger, Trigger
<1>3. Interrupted(s) = i
  BY DEF Interrupted, SeqState
<1> HIDE DEF k
<1>4. i \in SeqState /\ i.st = "failed" /\ i.att = k /\ i.auto = s.auto /\ Alike(s, i)
  BY <1>1, <1>2 DEF SeqState, Alike
<1> HIDE DEF i
<1>5. CASE s.st = "running"
  <2>1. RecoverNode(n, s) = AfterFailure(n, i)
    BY <1>3, <1>5, Zenon DEF RecoverNode
  <2>2. /\ AfterFailure(n, i) \in SeqState /\ AfterFailure(n, i).att = i.att
        /\ Alike(i, AfterFailure(n, i))
        /\ AfterFailure(n, i).st \in {"retry_waiting", "skipped", "failed"}
        /\ AfterFailure(n, i).st = "retry_waiting"
             => i.auto < RetryBudget(n) /\ AfterFailure(n, i).auto = i.auto + 1
        /\ AfterFailure(n, i).st # "retry_waiting" => AfterFailure(n, i).auto = i.auto
    BY <1>4, FailureFacts
  <2> QED
    BY <1>1, <1>4, <1>5, <2>1, <2>2 DEF Alike
<1>6. CASE s.st = "waiting_approval"
  <2>1. RecoverNode(n, s) = [i EXCEPT !.st = "pending", !.trig = "recovery_reissue"]
    BY <1>3, <1>6, Zenon DEF RecoverNode, Reissue
  <2> QED
    BY <1>1, <1>2, <1>4, <1>6, <2>1 DEF SeqState, Alike
<1>7. CASE s.st \notin {"running", "waiting_approval"}
  <2>1. RecoverNode(n, s) = s
    BY <1>7, Zenon DEF RecoverNode
  <2> QED
    BY <1>7, <2>1 DEF Alike
<1> QED
  BY <1>5, <1>6, <1>7

-----------------------------------------------------------------------------
(***************************************************************************)
(* Steps of the file.                                                      *)
(***************************************************************************)
LEMMA Types ==
  ASSUME SeqTypeOK
  PROVE  /\ sqTask.st \in SqTaskStatus /\ sqTask.ns \in [SqNode -> SeqState]
         /\ sqMem \in [SqNode -> SeqState]
         /\ \A n \in SqNode : /\ sqTask.ns[n] \in SeqState /\ sqMem[n] \in SeqState
                              /\ sqExecs[n] \in Nat /\ sqAllowance[n] \in Nat
                              /\ sqSentBack[n] \in Nat
         /\ sqExits \in Nat /\ sqPos \in Nat
         /\ sqPos >= 1 /\ (sqPos <= Len(Order) => At \in SqNode)
<1>1. sqPos \in 1..(Len(Order) + 1)
  BY DEF SeqTypeOK
<1>2. sqPos \in Nat /\ sqPos >= 1 /\ (sqPos <= Len(Order) => At \in SqNode)
  BY <1>1, Nodes DEF At
<1> QED
  BY <1>2 DEF SeqTypeOK

LEMMA Fields ==
  ASSUME NEW s \in SeqState
  PROVE  s.st \in SeqStatus /\ s.att \in Nat /\ s.auto \in Nat /\ s.rej \in Nat /\ s.veto \in Nat
BY DEF SeqState

\* A node left running stays one as long as nobody touches it: the count of
\* vetoes never falls.
LEMMA LeftStays ==
  ASSUME NEW ns \in [SqNode -> SeqState], NEW ms \in [SqNode -> SeqState], NEW n \in SqNode,
         Left(ns, n), ms[n].st = "running",
         \A m \in SqNode : ms[m].veto >= ns[m].veto
  PROVE  Left(ms, n)
<1>1. PICK i \in DOMAIN Order :
        n = Order[i] /\ i + 1 \in DOMAIN Order /\ ns[Order[i + 1]].veto > 0
  BY DEF Left
<1>2. Order[i + 1] \in SqNode
  BY <1>1, Nodes
<1>3. ns[Order[i + 1]].veto \in Nat /\ ms[Order[i + 1]].veto \in Nat
  BY <1>2, Fields
<1>4. ms[Order[i + 1]].veto > 0
  BY <1>1, <1>2, <1>3
<1> QED
  BY <1>1, <1>4 DEF Left

\* What moves the nodes of C and is no worse for the others keeps the file.
LEMMA FileMoves ==
  ASSUME SeqInv, NEW C \in SUBSET SqNode, NEW ns \in [SqNode -> SeqState], sqTask'.ns = ns,
         sqExits' \in Nat, sqExits' >= sqExits,
         \A m \in SqNode : ns[m].veto >= sqTask.ns[m].veto,
         \A m \in SqNode \ C :
           /\ ns[m] = sqTask.ns[m] /\ sqExecs'[m] = sqExecs[m] /\ sqSentBack'[m] = sqSentBack[m]
           /\ sqAllowance'[m] \in Nat /\ sqAllowance'[m] >= sqAllowance[m]
           /\ m \in sqOwed' => m \in sqOwed
           /\ m \in sqTorn => m \in sqTorn'
           /\ Plugged(m) => Plugged(m)'
           /\ sqExits' = 0 /\ Asking(m) => Asking(m)'
           /\ sqExits + Unsaved(m) <= sqExits' + Unsaved(m)',
         \A m \in C : OnFile(m)'
  PROVE  File'
<1>1. SeqTypeOK /\ File
  BY DEF SeqInv
<1> SUFFICES ASSUME NEW m \in SqNode, m \notin C PROVE OnFile(m)'
  BY DEF File
<1> DEFINE s == sqTask.ns[m]
<1>2. /\ s \in SeqState /\ s.auto \in Nat /\ s.rej \in Nat
      /\ sqExecs[m] \in Nat /\ sqAllowance[m] \in Nat /\ sqSentBack[m] \in Nat /\ sqExits \in Nat
      /\ RetryBudget(m) \in Nat /\ Due(s) \in {0, 1} /\ Unsaved(m) \in {0, 1} /\ Unsaved(m)' \in {0, 1}
  BY <1>1, Types, Fields, Nodes DEF Due, Unsaved
<1>3. OnFile(m) /\ sqTask'.ns[m] = s
  BY <1>1 DEF File
<1>4. /\ m \notin sqTorn => s.att = sqExecs[m]
      /\ Begun(s) => sqExecs[m] >= 1
      /\ Fits(m, s, sqExecs[m], sqAllowance[m])
      /\ sqSentBack[m] <= s.rej + sqExits + Unsaved(m)
      /\ s.st \in {"running", "waiting_approval"} => Plugged(m) \/ Left(sqTask.ns, m)
      /\ sqExits = 0 /\ m \in sqOwed => s.st \in Unseen \/ Asking(m)
  BY <1>3 DEF OnFile
<1> HIDE DEF s
<1>5. m \notin sqTorn' => s.att = sqExecs'[m]
  BY <1>4
<1>6. Begun(s) => sqExecs'[m] >= 1
  BY <1>4
<1>7. Fits(m, s, sqExecs'[m], sqAllowance'[m])
  BY <1>2, <1>4 DEF Fits
<1>8. sqSentBack'[m] <= s.rej + sqExits' + Unsaved(m)'
  BY <1>2, <1>4
<1>9. s.st \in {"running", "waiting_approval"} => Plugged(m)' \/ Left(ns, m)
  <2>1. sqTask.ns \in [SqNode -> SeqState]
    BY <1>1, Types
  <2>2. Left(sqTask.ns, m) => ns[m].st = "running"
    BY DEF Left
  <2>3. Left(sqTask.ns, m) => Left(ns, m)
    BY <2>1, <2>2, LeftStays
  <2> QED
    BY <1>4, <2>3
<1>10. sqExits' = 0 /\ m \in sqOwed' => s.st \in Unseen \/ Asking(m)'
  BY <1>2, <1>4
<1>11. Left(sqTask.ns, m)' <=> Left(ns, m)
  BY DEF Left
<1>12. Fits(m, sqTask.ns[m], sqExecs[m], sqAllowance[m])' <=> Fits(m, s, sqExecs'[m], sqAllowance'[m])
  BY <1>3 DEF Fits, Due, RetryBudget, MAX_AUTO_RETRY_COUNT
<1>13. Begun(sqTask.ns[m])' <=> Begun(s)
  BY <1>3 DEF Begun
<1> QED
  BY <1>3, <1>5, <1>6, <1>7, <1>8, <1>9, <1>10, <1>11, <1>12, <1>13 DEF OnFile

\* The node states of the runner are saved as they are now.
LEMMA Saved ==
  ASSUME SeqTypeOK, NEW ns \in [SqNode -> SeqState], SqCheckpoint(ns)
  PROVE  /\ sqTask'.st = sqTask.st /\ sqTask'.ns = ns /\ sqMem' = ns
         /\ sqTask' \in [st: SqTaskStatus, ns: [SqNode -> SeqState]]
BY DEF SeqTypeOK, SqCheckpoint, SqSave

LEMMA FitsOn ==
  ASSUME NEW n \in SqNode, NEW s \in SeqState, NEW t \in SeqState, NEW e \in Nat, NEW a \in Nat,
         Fits(n, s, e, a), t.auto <= RetryBudget(n), Due(t) - t.auto <= Due(s) - s.auto
  PROVE  Fits(n, t, e, a)
<1>1. /\ s.auto \in Nat /\ t.auto \in Nat /\ RetryBudget(n) \in Nat
      /\ Due(s) \in {0, 1} /\ Due(t) \in {0, 1}
  BY Fields, Nodes DEF Due
<1> QED
  BY <1>1 DEF Fits

\* What a step makes of one node, written without primes.
LEMMA NodeOnFile ==
  ASSUME NEW n \in SqNode, NEW ns \in [SqNode -> SeqState], NEW e \in Nat, NEW a \in Nat,
         sqTask'.ns = ns, sqExecs'[n] = e, sqAllowance'[n] = a,
         n \notin sqTorn' => ns[n].att = e,
         Begun(ns[n]) => e >= 1,
         Fits(n, ns[n], e, a),
         sqSentBack'[n] <= ns[n].rej + sqExits' + Unsaved(n)',
         ns[n].st \in {"running", "waiting_approval"} => Plugged(n)' \/ Left(ns, n),
         sqExits' = 0 /\ n \in sqOwed' => ns[n].st \in Unseen \/ Asking(n)'
  PROVE  OnFile(n)'
<1>1. Left(sqTask.ns, n)' <=> Left(ns, n)
  BY DEF Left
<1>2. Fits(n, sqTask.ns[n], sqExecs[n], sqAllowance[n])' <=> Fits(n, ns[n], e, a)
  BY DEF Fits, Due, RetryBudget, MAX_AUTO_RETRY_COUNT
<1>3. Begun(sqTask.ns[n])' <=> Begun(ns[n])
  BY DEF Begun
<1> QED
  BY <1>1, <1>2, <1>3 DEF OnFile

-----------------------------------------------------------------------------
(***************************************************************************)
(* The current node, and steps between nodes.                              *)
(***************************************************************************)
\* What is known where the runner stands at a node without a rejection pending.
LEMMA HereFacts ==
  ASSUME SeqInv, NEW n \in SqNode, sqCtl \in {"next", "exec", "wait", "skipDown"}, ~Rejecting,
         sqPos <= Len(Order), n = At
  PROVE  /\ sqTask.st = "running" /\ sqMem = sqTask.ns /\ OnFile(n)
         /\ \A j \in 1..(sqPos - 1) : SqAnswered(sqMem[Order[j]])
         /\ \A m \in SqNode \ {n} : ~Plugged(m)
         /\ \A m \in SqNode : ~Asking(m) /\ Unsaved(m) = 0
         /\ sqCtl \in {"exec", "wait"} => Begun(sqMem[n]) /\ (sqExits = 0 => n \notin sqOwed)
<1>1. Walk /\ File /\ Before
  BY DEF SeqInv
<1>2. sqTask.st = "running" /\ sqMem = sqTask.ns
  BY <1>1 DEF Walk, Live
<1>3. ~InRework
  BY DEF InRework
<1>4. OnFile(n)
  BY <1>1 DEF File
<1>5. \A j \in 1..(sqPos - 1) : SqAnswered(sqMem[Order[j]])
  BY <1>1, <1>3 DEF Before, Live
<1>6. \A m \in SqNode \ {n} : ~Plugged(m)
  BY DEF Plugged
<1>7. \A m \in SqNode : ~Asking(m) /\ Unsaved(m) = 0
  BY <1>3 DEF Asking, Unsaved
<1>8. sqCtl \in {"exec", "wait"} => sqMem[n].st \in {"running", "waiting_approval"}
  BY <1>1 DEF Walk
<1>9. sqCtl \in {"exec", "wait"} => Begun(sqMem[n]) /\ (sqExits = 0 => n \notin sqOwed)
  BY <1>2, <1>4, <1>7, <1>8 DEF OnFile, Begun, Unseen
<1> QED
  BY <1>2, <1>4, <1>5, <1>6, <1>7, <1>9

\* The current node ends, is skipped or waits for its approval.
LEMMA SettleStep ==
  ASSUME SeqInv, NEW n \in SqNode, NEW t \in SeqState,
         sqCtl \in {"exec", "wait", "skipDown"}, sqPos <= Len(Order), n = At, ~Rejecting,
         SqCheckpoint([sqMem EXCEPT ![n] = t]),
         UNCHANGED <<sqTarget, sqLedger, sqExits, sqSent>>,
         t.att = sqMem[n].att, t.rej = sqMem[n].rej, t.veto >= sqMem[n].veto,
         t.auto <= RetryBudget(n), Due(t) - t.auto <= Due(sqMem[n]) - sqMem[n].auto,
         \/ /\ t.st \in {"completed", "skipped"} /\ (sqCtl = "skipDown" => t.st = "skipped")
            /\ sqCtl' = "next" /\ sqPos' = sqPos + 1 /\ sqOutcome' = sqOutcome
         \/ /\ t.st \in {"failed", "retry_waiting"} /\ sqCtl # "skipDown"
            /\ sqCtl' = "end" /\ sqOutcome' = t.st /\ sqPos' = sqPos
         \/ /\ t.st = "waiting_approval" /\ sqCtl = "exec"
            /\ sqCtl' = "wait" /\ sqPos' = sqPos /\ sqOutcome' = sqOutcome
  PROVE  SeqInv'
<1> DEFINE ns == [sqMem EXCEPT ![n] = t]
<1>1. SeqTypeOK /\ Walk /\ File /\ RejectionsBounded
  BY DEF SeqInv
<1>2. /\ sqTask.st = "running" /\ sqMem = sqTask.ns /\ OnFile(n)
      /\ \A j \in 1..(sqPos - 1) : SqAnswered(sqMem[Order[j]])
      /\ \A m \in SqNode \ {n} : ~Plugged(m)
      /\ \A m \in SqNode : ~Asking(m) /\ Unsaved(m) = 0
      /\ sqCtl \in {"exec", "wait"} => Begun(sqMem[n]) /\ (sqExits = 0 => n \notin sqOwed)
  BY HereFacts
<1>3. /\ ns \in [SqNode -> SeqState] /\ ns[n] = t /\ \A m \in SqNode \ {n} : ns[m] = sqMem[m]
      /\ sqMem \in [SqNode -> SeqState]
  BY <1>1, Types
<1>4. SqCheckpoint(ns)
  OBVIOUS
<1> HIDE DEF ns
<1>5. /\ sqTask'.st = sqTask.st /\ sqTask'.ns = ns /\ sqMem' = ns
      /\ sqTask' \in [st: SqTaskStatus, ns: [SqNode -> SeqState]]
  BY <1>1, <1>3, <1>4, Saved
<1>6. /\ sqTarget' = sqTarget /\ sqExecs' = sqExecs /\ sqAllowance' = sqAllowance
      /\ sqSentBack' = sqSentBack /\ sqOwed' = sqOwed /\ sqTorn' = sqTorn
      /\ sqExits' = sqExits /\ sqSent' = sqSent
  BY DEF sqLedger
<1>7. /\ sqPos \in Nat /\ sqPos >= 1 /\ sqPos' \in 1..(Len(Order) + 1) /\ Len(Order) \in Nat
      /\ sqPos' = sqPos \/ sqPos' = sqPos + 1
      /\ sqPos' # sqPos => t.st \in {"completed", "skipped"} /\ sqCtl' = "next"
      /\ sqCtl' # "end" => sqPos' # sqPos \/ sqCtl' = "wait"
  <2>1. sqPos \in Nat /\ sqPos >= 1 /\ Len(Order) \in Nat
    BY <1>1, Types, Nodes
  <2>2. sqPos' = sqPos \/ sqPos' = sqPos + 1
    OBVIOUS
  <2>3. sqPos' # sqPos => t.st \in {"completed", "skipped"} /\ sqCtl' = "next"
    BY <2>1
  <2> QED
    BY <2>1, <2>2, <2>3
<1>8. SeqTypeOK'
  BY <1>1, <1>3, <1>5, <1>6, <1>7 DEF SeqTypeOK, SqControl
<1>9. /\ ~Rejecting' /\ ~InRework' /\ (Live' <=> TRUE) /\ sqCtl' \in {"next", "end", "wait"}
      /\ sqCtl' = "wait" => At' = At
  BY DEF Rejecting, InRework, Live, At
<1>10. Walk'
  <2>1. sqCtl' = "wait" => sqMem'[At'].st = "waiting_approval" /\ sqPos' <= Len(Order)
    BY <1>3, <1>5, <1>9
  <2> QED
    BY <1>2, <1>5, <1>9, <2>1 DEF Walk, Within
<1>11. File'
  <2>1. /\ t.veto \in Nat /\ sqMem[n].veto \in Nat /\ t.auto \in Nat /\ sqMem[n].auto \in Nat
        /\ sqExecs[n] \in Nat /\ sqAllowance[n] \in Nat /\ RetryBudget(n) \in Nat
        /\ Due(t) \in {0, 1} /\ Due(sqMem[n]) \in {0, 1}
        /\ \A m \in SqNode : sqMem[m].veto \in Nat /\ sqAllowance[m] \in Nat
        /\ sqExits \in Nat
    BY <1>1, <1>3, Types, Fields, Nodes DEF Due
  <2>2. /\ n \notin sqTorn => t.att = sqExecs[n]
        /\ Begun(sqMem[n]) => sqExecs[n] >= 1
        /\ Fits(n, sqMem[n], sqExecs[n], sqAllowance[n])
        /\ sqSentBack[n] <= t.rej + sqExits
        /\ sqExits = 0 /\ n \in sqOwed => sqCtl = "skipDown" /\ t.st \in Unseen
    <3>1. sqSentBack[n] <= sqMem[n].rej + sqExits + 0
      BY <1>2 DEF OnFile
    <3>2. sqMem[n].rej \in Nat /\ t.rej \in Nat
      BY <1>3, Fields
    <3>3. sqExits = 0 /\ n \in sqOwed => sqCtl = "skipDown" /\ t.st \in Unseen
      BY <1>2 DEF Unseen
    <3>4. sqSentBack[n] <= t.rej + sqExits
      BY <2>1, <3>1, <3>2
    <3> QED
      BY <1>2, <3>3, <3>4 DEF OnFile
  <2>3. Fits(n, t, sqExecs[n], sqAllowance[n])
    BY <1>3, <2>1, <2>2, FitsOn
  <2>4. Begun(t) => sqExecs[n] >= 1
    BY <1>2, <2>2 DEF Begun
  <2>5. t.st \in {"running", "waiting_approval"} => Plugged(n)'
    BY <1>9 DEF Plugged
  <2>6. \A m \in SqNode : Unsaved(m)' = 0
    BY <1>9 DEF Unsaved
  <2>7. OnFile(n)'
    <3>1. sqSentBack'[n] <= ns[n].rej + sqExits' + Unsaved(n)'
      BY <1>3, <1>6, <2>2, <2>6, <2>1, Fields
    <3> QED
      BY <1>3, <1>5, <1>6, <2>1, <2>2, <2>3, <2>4, <2>5, <3>1, NodeOnFile
  <2>8. \A m \in SqNode : ns[m].veto >= sqTask.ns[m].veto
    <3>1. \A m \in SqNode : m = n \/ ns[m] = sqMem[m]
      BY <1>3
    <3> QED
      BY <1>2, <1>3, <2>1, <3>1
  <2> DEFINE C == {n}
  <2>9. C \in SUBSET SqNode /\ \A m \in C : OnFile(m)'
    BY <2>7
  <2>10. \A m \in SqNode \ C :
           /\ ns[m] = sqTask.ns[m] /\ sqExecs'[m] = sqExecs[m] /\ sqSentBack'[m] = sqSentBack[m]
           /\ sqAllowance'[m] \in Nat /\ sqAllowance'[m] >= sqAllowance[m]
           /\ m \in sqOwed' => m \in sqOwed
           /\ m \in sqTorn => m \in sqTorn'
           /\ Plugged(m) => Plugged(m)'
           /\ sqExits' = 0 /\ Asking(m) => Asking(m)'
           /\ sqExits + Unsaved(m) <= sqExits' + Unsaved(m)'
    BY <1>2, <1>3, <1>6, <2>1, <2>6
  <2> HIDE DEF C
  <2> QED
    <3>1. sqExits' \in Nat /\ sqExits' >= sqExits
      BY <1>6, <2>1
    <3> QED
      BY <1>3, <1>5, <2>8, <2>9, <2>10, <3>1, FileMoves
<1>12. Kept' /\ Accepted'
  BY <1>9 DEF Kept, Accepted
<1>13. Before'
  <2>1. \A j \in 1..(sqPos' - 1) : sqCtl' # "end" => SqAnswered(sqMem'[Order[j]])
    <3>1. ASSUME NEW j \in 1..(sqPos' - 1), sqCtl' # "end" PROVE SqAnswered(sqMem'[Order[j]])
      <4>1. CASE j \in 1..(sqPos - 1)
        <5>1. j \in 1..Len(Order) /\ sqPos \in 1..Len(Order) /\ j # sqPos
          BY <1>7, <4>1
        <5>2. Order[j] \in SqNode \ {n}
          BY <5>1, Nodes DEF At
        <5> QED
          BY <1>2, <1>3, <1>5, <4>1, <5>2
      <4>2. CASE j \notin 1..(sqPos - 1)
        <5>1. sqPos' = sqPos + 1
          BY <1>7, <4>2, <3>1
        <5>2. j = sqPos
          BY <1>7, <4>2, <3>1, <5>1
        <5>3. t.st \in {"completed", "skipped"}
          BY <1>7, <5>1
        <5> QED
          BY <1>3, <1>5, <5>2, <5>3 DEF SqAnswered, Done, At
      <4> QED
        BY <4>1, <4>2
    <3> QED
      BY <3>1
  <2> QED
    BY <2>1 DEF Before
<1>14. Outcomes'
  <2>1. sqTask'.st = "running"
    BY <1>2, <1>5
  <2>2. sqCtl' = "end" => sqOutcome' \in {"failed", "retry_waiting"}
                          /\ (sqOutcome' = "failed" => sqMem'[n].st = "failed")
    BY <1>3, <1>5
  <2>3. sqCtl' = "end" /\ sqOutcome' = "failed" => SqFound(sqMem', "failed")
    BY <2>2 DEF SqFound
  <2> QED
    BY <2>1, <2>2, <2>3 DEF Outcomes, Broken, SqFound
<1>15. RejectionsBounded'
  BY <1>1, <1>6 DEF RejectionsBounded
<1> QED
  BY <1>8, <1>10, <1>11, <1>12, <1>13, <1>14, <1>15 DEF SeqInv

LEMMA AnswerSafe ==
  ASSUME SeqInv, NEW n \in SqNode, SqCompletes(n) \/ Approve(n) \/ AwaitApproval(n)
  PROVE  SeqInv'
<1> DEFINE st == IF AwaitApproval(n) THEN "waiting_approval" ELSE "completed"
           t == [sqMem[n] EXCEPT !.st = st]
<1>1. SeqTypeOK /\ Walk
  BY DEF SeqInv
<1>2. sqMem \in [SqNode -> SeqState] /\ sqMem[n] \in SeqState
  BY <1>1, Types
<1>3. st \in SeqStatus
  BY DEF SeqStatus, NodeStatus
<1>4. /\ t \in SeqState /\ t.st = st /\ t.att = sqMem[n].att /\ t.auto = sqMem[n].auto
      /\ Alike(sqMem[n], t)
  BY <1>2, <1>3, StatusFacts
<1>5. /\ sqCtl \in {"exec", "wait"} /\ sqPos <= Len(Order) /\ n = At /\ ~Rejecting
      /\ UNCHANGED <<sqTarget, sqLedger, sqExits, sqSent>>
      /\ \/ st = "completed" /\ sqCtl' = "next" /\ sqPos' = sqPos + 1 /\ sqOutcome' = sqOutcome
         \/ /\ st = "waiting_approval" /\ sqCtl = "exec" /\ sqCtl' = "wait" /\ sqPos' = sqPos
            /\ sqOutcome' = sqOutcome
  <2>1. CASE AwaitApproval(n)
    <3>1. Here(n, "exec") /\ n \in Approval
      BY <2>1 DEF AwaitApproval
    <3>2. sqTarget = NoTarget
      BY <3>1 DEF Here, SeqInv, Accepted, Rejecting, At
    <3> QED
      BY <2>1, <3>1, <3>2 DEF AwaitApproval, Here, At, Rejecting
  <2>2. CASE ~AwaitApproval(n)
    <3>1. SqCompletes(n) \/ Approve(n)
      BY <2>2
    <3> QED
      BY <2>2, <3>1 DEF SqCompletes, Approve, Advance, Here, At, Rejecting
  <2> QED
    BY <2>1, <2>2
<1>6. SqCheckpoint([sqMem EXCEPT ![n] = t])
  <2>1. [sqMem EXCEPT ![n].st = st] = [sqMem EXCEPT ![n] = t]
    OBVIOUS
  <2>2. SqCheckpoint([sqMem EXCEPT ![n].st = st])
    <3>1. CASE AwaitApproval(n)
      BY <3>1 DEF AwaitApproval, With
    <3>2. CASE ~AwaitApproval(n)
      <4>1. SqCompletes(n) \/ Approve(n)
        BY <3>2
      <4> QED
        BY <3>2, <4>1 DEF SqCompletes, Approve, Advance, With
    <3> QED
      BY <3>1, <3>2
  <2> QED
    BY <2>1, <2>2
<1>7. /\ t.rej = sqMem[n].rej /\ t.veto >= sqMem[n].veto /\ t.auto <= RetryBudget(n)
      /\ Due(t) - t.auto <= Due(sqMem[n]) - sqMem[n].auto
  <2>1. st \in {"completed", "waiting_approval"}
    OBVIOUS
  <2>2. Due(t) = 0 /\ Due(sqMem[n]) \in {0, 1}
    BY <1>4, <2>1 DEF Due
  <2>3. sqMem[n].auto <= RetryBudget(n)
    BY <1>5, HereFacts DEF OnFile, Fits
  <2>4. sqMem[n].auto \in Nat /\ sqMem[n].veto \in Nat
    BY <1>2, Fields
  <2> QED
    BY <1>4, <2>2, <2>3, <2>4 DEF Alike
<1>8. sqCtl # "skipDown"
  BY <1>5
<1> HIDE DEF st, t
<1> QED
  BY <1>4, <1>5, <1>6, <1>7, <1>8, SettleStep

\* A failure, under the policy of the node.
LEMMA FailureSafe ==
  ASSUME SeqInv, NEW n \in SqNode, SqFails(n) \/ ApprovalFails(n)
  PROVE  SeqInv'
<1> DEFINE t == Policy(sqMem, n)[n]
<1>1. SeqTypeOK /\ Walk
  BY DEF SeqInv
<1>2. sqMem \in [SqNode -> SeqState] /\ sqMem[n] \in SeqState
  BY <1>1, Types
<1>3. /\ Policy(sqMem, n) \in [SqNode -> SeqState]
      /\ \A m \in SqNode \ {n} : Policy(sqMem, n)[m] = sqMem[m]
      /\ t \in SeqState /\ t.att = sqMem[n].att /\ Alike(sqMem[n], t)
      /\ t.st \in {"retry_waiting", "skipped", "failed"}
      /\ t.st = "retry_waiting" => sqMem[n].auto < RetryBudget(n) /\ t.auto = sqMem[n].auto + 1
      /\ t.st # "retry_waiting" => t.auto = sqMem[n].auto
  BY <1>2, PolicyFacts
<1>4. Policy(sqMem, n) = [sqMem EXCEPT ![n] = t]
  BY <1>2, <1>3
<1>5. /\ sqCtl \in {"exec", "wait"} /\ sqPos <= Len(Order) /\ n = At /\ ~Rejecting /\ FailsWithPolicy(n)
  BY DEF SqFails, ApprovalFails, Here, At, Rejecting
<1> HIDE DEF t
<1>6. /\ SqCheckpoint([sqMem EXCEPT ![n] = t])
      /\ UNCHANGED <<sqTarget, sqLedger, sqExits, sqSent>>
      /\ \/ t.st = "skipped" /\ sqCtl' = "next" /\ sqPos' = sqPos + 1 /\ sqOutcome' = sqOutcome
         \/ /\ t.st \in {"failed", "retry_waiting"} /\ sqCtl' = "end" /\ sqOutcome' = t.st
            /\ sqPos' = sqPos
  <2>1. CASE t.st = "skipped"
    <3>1. Advance(Policy(sqMem, n))
      BY <1>5, <2>1 DEF FailsWithPolicy, t
    <3> QED
      BY <1>4, <2>1, <3>1 DEF Advance
  <2>2. CASE t.st # "skipped"
    <3>1. SqStop(Policy(sqMem, n), t.st)
      BY <1>5, <2>2 DEF FailsWithPolicy, t
    <3> QED
      BY <1>3, <1>4, <2>2, <3>1 DEF SqStop, Return
  <2> QED
    BY <2>1, <2>2
<1>7. /\ t.rej = sqMem[n].rej /\ t.veto >= sqMem[n].veto /\ t.auto <= RetryBudget(n)
      /\ Due(t) - t.auto <= Due(sqMem[n]) - sqMem[n].auto
  <2>1. sqMem[n].auto <= RetryBudget(n)
    BY <1>5, HereFacts DEF OnFile, Fits
  <2>2. sqMem[n].auto \in Nat /\ sqMem[n].veto \in Nat /\ RetryBudget(n) \in Nat
    BY <1>2, Fields, Nodes
  <2>3. Due(t) = (IF t.st = "retry_waiting" THEN 1 ELSE 0) /\ Due(sqMem[n]) \in {0, 1}
    BY <1>3 DEF Due
  <2> QED
    BY <1>3, <2>1, <2>2, <2>3 DEF Alike
<1>8. sqCtl # "skipDown"
  BY <1>5
<1> QED
  BY <1>3, <1>5, <1>6, <1>7, <1>8, SettleStep

\* A rejection nobody can answer, and the skip that follows a skipped rework.
LEMMA GiveUpSafe ==
  ASSUME SeqInv, NEW n \in SqNode, Veto(n) \/ (SkipDown /\ n = At)
  PROVE  SeqInv'
<1> DEFINE st == IF Veto(n) THEN "failed" ELSE "skipped"
           v == IF Veto(n) /\ sqPos \notin Starts THEN sqMem[n].veto + 1 ELSE sqMem[n].veto
           t == [sqMem[n] EXCEPT !.st = st, !.veto = v]
<1>1. SeqTypeOK /\ Walk
  BY DEF SeqInv
<1>2. sqMem \in [SqNode -> SeqState] /\ sqMem[n] \in SeqState /\ sqMem[n].veto \in Nat
      /\ sqMem[n].auto \in Nat /\ RetryBudget(n) \in Nat
  BY <1>1, Types, Fields, Nodes
<1>3. st \in SeqStatus /\ v \in Nat /\ v >= sqMem[n].veto /\ st \in {"failed", "skipped"}
  BY <1>2 DEF SeqStatus, NodeStatus
<1>4. /\ sqCtl \in {"wait", "skipDown"} /\ sqPos <= Len(Order) /\ n = At /\ ~Rejecting
      /\ UNCHANGED <<sqTarget, sqLedger, sqExits, sqSent>>
      /\ sqCtl = "skipDown" <=> st = "skipped"
      /\ \/ st = "skipped" /\ sqCtl' = "next" /\ sqPos' = sqPos + 1 /\ sqOutcome' = sqOutcome
         \/ st = "failed" /\ sqCtl' = "end" /\ sqOutcome' = "failed" /\ sqPos' = sqPos
  <2>1. CASE Veto(n)
    BY <2>1 DEF Veto, SqStop, Return, Here, At, Rejecting
  <2>2. CASE ~Veto(n)
    <3>1. SkipDown /\ n = At
      BY <2>2
    <3> QED
      BY <1>1, <2>2, <3>1 DEF SkipDown, Advance, Walk, Within, Rejecting
  <2> QED
    BY <2>1, <2>2
<1>5. SqCheckpoint([sqMem EXCEPT ![n] = t])
  <2>1. CASE Veto(n)
    <3> DEFINE w == [sqMem EXCEPT ![n].veto = IF sqPos \in Starts THEN @ ELSE @ + 1]
    <3>1. SqCheckpoint([w EXCEPT ![n].st = "failed"])
      BY <2>1 DEF Veto, SqStop, Vetoed
    <3>2. [w EXCEPT ![n].st = "failed"] = [sqMem EXCEPT ![n] = t]
      <4>1. w = [sqMem EXCEPT ![n] = [sqMem[n] EXCEPT !.veto = v]]
        BY <1>2, <2>1
      <4> HIDE DEF v
      <4>2. w[n] = [sqMem[n] EXCEPT !.veto = v] /\ w \in [SqNode -> SeqState]
        BY <1>2, <1>3, <4>1 DEF SeqState
      <4>3. [w[n] EXCEPT !.st = "failed"] = t
        BY <1>2, <2>1, <4>2 DEF SeqState
      <4> HIDE DEF w, t
      <4>4. [w EXCEPT ![n].st = "failed"] = [w EXCEPT ![n] = t]
        BY <4>3
      <4> QED
        BY <1>2, <4>1, <4>4
    <3> QED
      BY <3>1, <3>2
  <2>2. CASE ~Veto(n)
    <3>1. SqCheckpoint([sqMem EXCEPT ![n].st = "skipped"])
      BY <2>2 DEF SkipDown, Advance, With, At
    <3>2. t = [sqMem[n] EXCEPT !.st = "skipped"]
      BY <1>2, <2>2 DEF SeqState
    <3> HIDE DEF t
    <3>3. [sqMem EXCEPT ![n].st = "skipped"] = [sqMem EXCEPT ![n] = t]
      BY <3>2
    <3> QED
      BY <3>1, <3>3
  <2> QED
    BY <2>1, <2>2
<1> HIDE DEF st, v
<1>6. /\ t \in SeqState /\ t.st = st /\ t.att = sqMem[n].att /\ t.auto = sqMem[n].auto
      /\ t.rej = sqMem[n].rej /\ t.veto = v
  BY <1>2, <1>3 DEF SeqState
<1> HIDE DEF t
<1>7. t.auto <= RetryBudget(n) /\ Due(t) - t.auto <= Due(sqMem[n]) - sqMem[n].auto
  <2>1. sqMem[n].auto <= RetryBudget(n)
    BY <1>4, HereFacts DEF OnFile, Fits
  <2>2. Due(t) = 0 /\ Due(sqMem[n]) \in {0, 1}
    BY <1>3, <1>6 DEF Due
  <2> QED
    BY <1>2, <1>6, <2>1, <2>2
<1> QED
  BY <1>3, <1>4, <1>5, <1>6, <1>7, SettleStep

\* Between nodes: one is passed, blocks the sequence, or there is none left.
LEMMA PassingSafe ==
  ASSUME SeqInv, SequenceDone \/ (\E n \in SqNode : PassNode(n) \/ Blocked(n))
  PROVE  SeqInv'
<1>1. SeqTypeOK /\ Walk /\ File /\ Before /\ Outcomes /\ RejectionsBounded
  BY DEF SeqInv
<1>2. /\ sqCtl = "next" /\ sqTask' = sqTask /\ sqMem' = sqMem /\ sqTarget' = sqTarget
      /\ sqExecs' = sqExecs /\ sqAllowance' = sqAllowance /\ sqSentBack' = sqSentBack
      /\ sqOwed' = sqOwed /\ sqTorn' = sqTorn /\ sqExits' = sqExits /\ sqSent' = sqSent
      /\ sqCtl' \in {"next", "end"} /\ sqPos \in Nat /\ sqPos >= 1
  <2>1. sqPos \in Nat /\ sqPos >= 1
    BY <1>1, Types
  <2> QED
    BY <2>1 DEF SequenceDone, PassNode, Blocked, Return, Here, sqLedger
<1>3. sqTask.st = "running" /\ sqMem = sqTask.ns /\ sqTask.ns \in [SqNode -> SeqState]
  BY <1>1, <1>2, Types DEF Walk, Live, Rejecting
<1>4. \A j \in 1..(sqPos - 1) : SqAnswered(sqMem[Order[j]])
  BY <1>1, <1>2 DEF Before, Live, InRework, Rejecting
<1>5. \A m \in SqNode : ~Plugged(m) /\ ~Asking(m) /\ Unsaved(m) = 0 /\ ~Asking(m)' /\ Unsaved(m)' = 0
  BY <1>2 DEF Plugged, Asking, Unsaved, InRework, Rejecting
<1>6. ~InRework' /\ ~Rejecting' /\ Live'
  BY <1>2 DEF InRework, Rejecting, Live
<1>7. File'
  <2> DEFINE ns == sqTask.ns
             C == {}
  <2>1. /\ ns \in [SqNode -> SeqState] /\ C \in SUBSET SqNode /\ sqTask'.ns = ns
        /\ \A m \in C : OnFile(m)'
    BY <1>2, <1>3
  <2>2. sqExits' \in Nat /\ sqExits' >= sqExits /\ sqExits \in Nat
    BY <1>1, <1>2, Types
  <2>3. \A m \in SqNode : ns[m].veto >= sqTask.ns[m].veto
    BY <1>3, Fields
  <2>4. \A m \in SqNode \ C :
           /\ ns[m] = sqTask.ns[m] /\ sqExecs'[m] = sqExecs[m] /\ sqSentBack'[m] = sqSentBack[m]
           /\ sqAllowance'[m] \in Nat /\ sqAllowance'[m] >= sqAllowance[m]
           /\ m \in sqOwed' => m \in sqOwed
           /\ m \in sqTorn => m \in sqTorn'
           /\ Plugged(m) => Plugged(m)'
           /\ sqExits' = 0 /\ Asking(m) => Asking(m)'
           /\ sqExits + Unsaved(m) <= sqExits' + Unsaved(m)'
    BY <1>1, <1>2, <1>5, <2>2, Types
  <2> HIDE DEF C, ns
  <2> QED
    BY <1>1, <2>1, <2>2, <2>3, <2>4, FileMoves DEF SeqInv
<1>8. Kept' /\ Accepted'
  BY <1>6 DEF Kept, Accepted
<1>9. RejectionsBounded'
  BY <1>1, <1>2 DEF RejectionsBounded
<1>10. CASE sqCtl' = "next"
  <2>1. PICK n \in SqNode : PassNode(n)
    BY <1>2, <1>10 DEF SequenceDone, Blocked, Return
  <2>2. /\ sqPos' = sqPos + 1 /\ sqOutcome' = sqOutcome /\ sqPos <= Len(Order)
        /\ n = Order[sqPos] /\ Done(sqMem[n])
    BY <2>1 DEF PassNode, Here
  <2>3. sqPos' \in 1..(Len(Order) + 1)
    BY <1>2, <2>2, Nodes
  <2>4. SeqTypeOK'
    BY <1>1, <1>2, <1>10, <2>2, <2>3 DEF SeqTypeOK, SqControl
  <2>5. Walk'
    BY <1>2, <1>3, <1>6, <1>10 DEF Walk, Within
  <2>6. \A j \in 1..(sqPos' - 1) : SqAnswered(sqMem'[Order[j]])
    <3>1. ASSUME NEW j \in 1..(sqPos' - 1) PROVE SqAnswered(sqMem[Order[j]])
      <4>1. j \in 1..(sqPos - 1) \/ j = sqPos
        BY <1>2, <2>2
      <4> QED
        BY <1>4, <2>2, <4>1 DEF SqAnswered
    <3> QED
      BY <1>2, <3>1
  <2>7. Before'
    BY <2>6 DEF Before
  <2>8. Outcomes'
    BY <1>2, <1>3, <1>10 DEF Outcomes
  <2> QED
    BY <1>7, <1>8, <1>9, <2>4, <2>5, <2>7, <2>8 DEF SeqInv
<1>11. CASE sqCtl' = "end"
  <2>1. SequenceDone \/ (\E n \in SqNode : Blocked(n))
    BY <1>11 DEF PassNode, Here
  <2>2. sqPos' = sqPos /\ sqOutcome' \in {"completed", "failed", "retry_waiting"}
    BY <2>1 DEF SequenceDone, Blocked, Return
  <2>3. SeqTypeOK'
    BY <1>1, <1>2, <1>11, <2>2 DEF SeqTypeOK, SqControl
  <2>4. Walk'
    BY <1>2, <1>3, <1>6, <1>11 DEF Walk, Within
  <2>5. Before'
    BY <1>11 DEF Before
  <2>6. sqOutcome' = "completed" => \A m \in SqNode : SqAnswered(sqMem[m])
    <3>1. SUFFICES ASSUME sqOutcome' = "completed", NEW m \in SqNode PROVE SqAnswered(sqMem[m])
      OBVIOUS
    <3>2. sqPos > Len(Order)
      BY <2>1, <3>1 DEF SequenceDone, Blocked, Return
    <3>3. PICK i \in 1..Len(Order) : m = Order[i]
      BY Nodes
    <3>4. i \in 1..(sqPos - 1)
      BY <1>2, <3>2, Nodes
    <3> QED
      BY <1>4, <3>3, <3>4
  <2>7. sqOutcome' = "failed" => Broken(sqMem)
    <3>1. SUFFICES ASSUME sqOutcome' = "failed" PROVE Broken(sqMem)
      OBVIOUS
    <3>2. PICK n \in SqNode : Blocked(n)
      BY <2>1, <3>1 DEF SequenceDone, Return
    <3>3. sqMem[n].st \in {"failed", "rejected", "running"}
      BY <3>1, <3>2 DEF Blocked, Return, Blocking
    <3>4. sqMem[n].st = "running" => Left(sqMem, n)
      BY <1>1, <1>3, <1>5 DEF File, OnFile
    <3> QED
      BY <3>3, <3>4 DEF Broken, SqFound
  <2>8. Outcomes'
    <3>1. Broken(sqMem)' <=> Broken(sqMem)
      BY <1>2 DEF Broken, SqFound, Left
    <3> QED
      BY <1>2, <1>3, <2>6, <2>7, <3>1 DEF Outcomes
  <2> QED
    BY <1>7, <1>8, <1>9, <2>3, <2>4, <2>5, <2>8 DEF SeqInv
<1> QED
  BY <1>2, <1>10, <1>11

\* The next node is executed: everything before it is answered.
LEMMA StartSafe ==
  ASSUME SeqInv, NEW n \in SqNode, SqStartNode(n)
  PROVE  SeqInv' /\ \A j \in 1..(sqPos - 1) : SqAnswered(sqTask'.ns[Order[j]])
<1> DEFINE s == sqMem[n]
           t == BeginAttempt(s)
           ns == [sqMem EXCEPT ![n] = t]
           e == sqExecs[n] + 1
<1>1. SeqTypeOK /\ Walk /\ File /\ RejectionsBounded
  BY DEF SeqInv
<1>2. /\ sqCtl = "next" /\ sqPos <= Len(Order) /\ n = At
      /\ ~Done(s) /\ s.st \notin Blocking /\ SqCheckpoint(ns)
      /\ sqCtl' = "exec" /\ sqTarget' = NoTarget
      /\ sqExecs' = [sqExecs EXCEPT ![n] = e] /\ sqOwed' = sqOwed \ {n}
      /\ sqPos' = sqPos /\ sqOutcome' = sqOutcome /\ sqAllowance' = sqAllowance
      /\ sqSentBack' = sqSentBack /\ sqTorn' = sqTorn /\ sqExits' = sqExits /\ sqSent' = sqSent
  BY DEF SqStartNode, Here, At
<1>3. ~Rejecting /\ sqCtl \in {"next", "exec", "wait", "skipDown"}
  BY <1>2 DEF Rejecting
<1>4. /\ sqTask.st = "running" /\ sqMem = sqTask.ns /\ OnFile(n)
      /\ \A j \in 1..(sqPos - 1) : SqAnswered(sqMem[Order[j]])
      /\ \A m \in SqNode \ {n} : ~Plugged(m)
      /\ \A m \in SqNode : ~Asking(m) /\ Unsaved(m) = 0
  BY <1>2, <1>3, HereFacts
<1>5. /\ sqMem \in [SqNode -> SeqState] /\ s \in SeqState
      /\ s.auto \in Nat /\ s.rej \in Nat /\ s.veto \in Nat /\ s.att \in Nat /\ s.st \in SeqStatus
      /\ sqExecs[n] \in Nat /\ sqAllowance[n] \in Nat /\ sqSentBack[n] \in Nat /\ sqExits \in Nat
      /\ e \in Nat /\ e >= 1 /\ RetryBudget(n) \in Nat /\ sqPos \in 1..Len(Order)
  BY <1>1, <1>2, Types, Fields, Nodes, SMTT(40)
<1>6. /\ t \in SeqState /\ t.st = "running" /\ t.att = s.att + 1 /\ t.att >= 1
      /\ t.auto = s.auto /\ t.rej = s.rej /\ t.veto = s.veto
  BY <1>5, BeginFacts DEF Alike
<1>7. ~Plugged(n)
  BY <1>2 DEF Plugged
<1>8. s.st \in {"pending", "waiting_retry"}
  <2>1. s.st # "waiting_approval"
    BY <1>4, <1>7 DEF OnFile, Left
  <2> QED
    BY <1>2, <1>5, <2>1 DEF SeqStatus, NodeStatus, Done, Blocking
<1> HIDE DEF t
<1>9. /\ ns \in [SqNode -> SeqState] /\ ns[n] = t /\ \A m \in SqNode \ {n} : ns[m] = sqMem[m]
  BY <1>5, <1>6
<1> HIDE DEF s, ns
<1>10. /\ sqTask'.st = sqTask.st /\ sqTask'.ns = ns /\ sqMem' = ns
       /\ sqTask' \in [st: SqTaskStatus, ns: [SqNode -> SeqState]]
  BY <1>1, <1>2, <1>9, Saved
<1>11. /\ sqExecs \in [SqNode -> Nat] /\ sqExecs' \in [SqNode -> Nat] /\ sqExecs'[n] = e
       /\ \A m \in SqNode \ {n} : sqExecs'[m] = sqExecs[m]
  BY <1>1, <1>2, <1>5 DEF SeqTypeOK
<1>12. SeqTypeOK'
  BY <1>1, <1>2, <1>9, <1>10, <1>11 DEF SeqTypeOK, SqControl
<1>13. ~Rejecting' /\ ~InRework' /\ Live' /\ At' = At
  BY <1>2 DEF Rejecting, InRework, Live, At
<1>14. Walk'
  BY <1>2, <1>4, <1>6, <1>9, <1>10, <1>13 DEF Walk, Within
<1>15. OnFile(n)'
  <2>1. n \notin sqTorn' => t.att = e
    BY <1>2, <1>4, <1>5, <1>6 DEF OnFile, s
  <2>2. Fits(n, t, e, sqAllowance[n])
    <3>1. Due(s) = 1 /\ Due(t) = 0
      BY <1>6, <1>8 DEF Due
    <3>2. Fits(n, s, sqExecs[n], sqAllowance[n])
      BY <1>4 DEF OnFile, s
    <3> QED
      BY <1>5, <1>6, <3>1, <3>2, SMTT(40) DEF Fits
  <2>3. sqSentBack'[n] <= t.rej + sqExits' + Unsaved(n)'
    <3>1. sqSentBack[n] <= s.rej + sqExits + 0
      BY <1>4 DEF OnFile, s
    <3>2. Unsaved(n)' = 0
      BY <1>13 DEF Unsaved
    <3> QED
      BY <1>2, <1>5, <1>6, <3>1, <3>2
  <2>4. Plugged(n)' /\ n \notin sqOwed'
    BY <1>2, <1>13 DEF Plugged
  <2> QED
    BY <1>2, <1>5, <1>9, <1>10, <1>11, <2>1, <2>2, <2>3, <2>4, NodeOnFile
<1>16. File'
  <2> DEFINE C == {n}
  <2>1. C \in SUBSET SqNode /\ \A m \in C : OnFile(m)'
    BY <1>15
  <2>2. \A m \in SqNode : ns[m].veto >= sqTask.ns[m].veto
    <3>1. \A m \in SqNode : m = n \/ ns[m] = sqMem[m]
      BY <1>9
    <3>2. \A m \in SqNode : sqMem[m].veto \in Nat
      BY <1>5, Fields
    <3> QED
      BY <1>4, <1>6, <1>9, <3>1, <3>2 DEF s
  <2>3. \A m \in SqNode \ C :
           /\ ns[m] = sqTask.ns[m] /\ sqExecs'[m] = sqExecs[m] /\ sqSentBack'[m] = sqSentBack[m]
           /\ sqAllowance'[m] \in Nat /\ sqAllowance'[m] >= sqAllowance[m]
           /\ m \in sqOwed' => m \in sqOwed
           /\ m \in sqTorn => m \in sqTorn'
           /\ Plugged(m) => Plugged(m)'
           /\ sqExits' = 0 /\ Asking(m) => Asking(m)'
           /\ sqExits + Unsaved(m) <= sqExits' + Unsaved(m)'
    <3>1. \A m \in SqNode : Unsaved(m)' = 0 /\ sqAllowance[m] \in Nat
      BY <1>1, <1>13, Types DEF Unsaved
    <3> QED
      BY <1>2, <1>4, <1>5, <1>9, <1>11, <3>1
  <2> HIDE DEF C
  <2> QED
    <3>1. sqExits' \in Nat /\ sqExits' >= sqExits
      BY <1>2, <1>5
    <3> QED
      BY <1>9, <1>10, <2>1, <2>2, <2>3, <3>1, FileMoves
<1>17. Kept' /\ Accepted'
  BY <1>13 DEF Kept, Accepted
<1>18. \A j \in 1..(sqPos - 1) : SqAnswered(ns[Order[j]])
  <2>1. ASSUME NEW j \in 1..(sqPos - 1) PROVE SqAnswered(ns[Order[j]])
    <3>1. j \in 1..Len(Order) /\ j # sqPos
      BY <1>5
    <3>2. Order[j] \in SqNode \ {n}
      BY <1>2, <1>5, <3>1, Nodes DEF At
    <3> QED
      BY <1>4, <1>9, <3>2
  <2> QED
    BY <2>1
<1>19. Before'
  BY <1>2, <1>10, <1>18 DEF Before
<1>20. Outcomes'
  BY <1>2, <1>4, <1>10 DEF Outcomes
<1>21. RejectionsBounded'
  BY <1>1, <1>2 DEF RejectionsBounded
<1> QED
  BY <1>10, <1>12, <1>14, <1>16, <1>17, <1>18, <1>19, <1>20, <1>21 DEF SeqInv

\* A rejected approval goes back to the node before it, which stays running.
LEMMA RollBackSafe ==
  ASSUME SeqInv, NEW n \in SqNode, RollBack(n)
  PROVE  SeqInv'
<1>1. SeqTypeOK /\ Walk /\ File /\ RejectionsBounded
  BY DEF SeqInv
<1>5. sqPos \in 1..Len(Order) /\ sqPos - 1 \in 1..Len(Order) /\ sqPos - 1 \in Nat
  <2>1. sqPos \in Nat /\ sqPos >= 1 /\ Len(Order) \in Nat /\ sqPos # 1
    BY <1>1, Types, Nodes DEF RollBack, CanRollBack
  <2> QED
    BY <2>1 DEF RollBack, Here
<1>6. PICK u \in SqNode : u = Order[sqPos - 1]
  BY <1>5, Nodes
<1> DEFINE s == sqMem[n]
           p == sqMem[u]
           v == s.veto + 1
           t == [s EXCEPT !.st = "pending", !.veto = v]
           q == [p EXCEPT !.st = "running"]
           ns == [sqMem EXCEPT ![n] = t, ![u] = q]
           a == sqAllowance[n] + 1
<1>2. /\ sqCtl = "wait" /\ sqPos <= Len(Order) /\ n = At /\ u # n
      /\ sqMem[u].st = "completed"
      /\ sqCtl' = "next" /\ sqPos' = sqPos - 1
      /\ sqAllowance' = [sqAllowance EXCEPT ![n] = a]
      /\ sqTarget' = sqTarget /\ sqOutcome' = sqOutcome /\ sqExecs' = sqExecs
      /\ sqSentBack' = sqSentBack /\ sqOwed' = sqOwed /\ sqTorn' = sqTorn
      /\ sqExits' = sqExits /\ sqSent' = sqSent
  <2>1. u # Order[sqPos]
    BY <1>5, <1>6, Nodes
  <2> QED
    BY <1>6, <2>1 DEF RollBack, CanRollBack, Here, At
<1>3. ~Rejecting /\ sqCtl \in {"next", "exec", "wait", "skipDown"}
  BY <1>2 DEF Rejecting
<1>4. /\ sqTask.st = "running" /\ sqMem = sqTask.ns /\ OnFile(n)
      /\ \A j \in 1..(sqPos - 1) : SqAnswered(sqMem[Order[j]])
      /\ \A m \in SqNode \ {n} : ~Plugged(m)
      /\ \A m \in SqNode : ~Asking(m) /\ Unsaved(m) = 0
  BY <1>2, <1>3, HereFacts
<1>7. /\ sqMem \in [SqNode -> SeqState] /\ s \in SeqState /\ p \in SeqState /\ OnFile(u)
      /\ s.auto \in Nat /\ s.rej \in Nat /\ s.veto \in Nat /\ p.auto \in Nat
      /\ sqExecs[n] \in Nat /\ sqAllowance[n] \in Nat /\ sqSentBack[n] \in Nat /\ sqExits \in Nat
      /\ sqExecs[u] \in Nat /\ sqAllowance[u] \in Nat
      /\ a \in Nat /\ a >= sqAllowance[n] /\ v \in Nat /\ v > 0 /\ RetryBudget(n) \in Nat
  <2>1. s \in SeqState /\ p \in SeqState /\ sqMem \in [SqNode -> SeqState]
    BY <1>1, Types
  <2>2. s.auto \in Nat /\ s.rej \in Nat /\ s.veto \in Nat /\ p.auto \in Nat
    BY <2>1, Fields
  <2>3. /\ sqExecs[n] \in Nat /\ sqAllowance[n] \in Nat /\ sqSentBack[n] \in Nat
        /\ sqExits \in Nat /\ sqExecs[u] \in Nat /\ sqAllowance[u] \in Nat
    BY <1>1, Types
  <2>4. OnFile(u) /\ RetryBudget(n) \in Nat
    BY <1>1, Nodes DEF File
  <2> QED
    BY <2>1, <2>2, <2>3, <2>4
<1>8. s.st = "waiting_approval" /\ p.st = "completed"
  BY <1>1, <1>2 DEF Walk
<1>9. SqCheckpoint(ns)
  <2> DEFINE w == Vetoed(n)
             x == [s EXCEPT !.veto = v]
  <2>1. SqCheckpoint([w EXCEPT ![n].st = "pending", ![u].st = "running"])
    BY <1>6 DEF RollBack
  <2>2. w = [sqMem EXCEPT ![n] = x] /\ x \in SeqState
    BY <1>7 DEF Vetoed, RollBack, CanRollBack, SeqState
  <2> HIDE DEF w, x
  <2>3. /\ w \in [SqNode -> SeqState] /\ w[n] = x /\ w[u] = p
        /\ \A m \in SqNode \ {n} : w[m] = sqMem[m]
    BY <1>2, <1>7, <2>2
  <2>4. [w[n] EXCEPT !.st = "pending"] = t /\ [w[u] EXCEPT !.st = "running"] = q
    BY <1>7, <2>3 DEF SeqState, x
  <2> HIDE DEF t, q, s, p
  <2>5. [w EXCEPT ![n].st = "pending", ![u].st = "running"] = [w EXCEPT ![n] = t, ![u] = q]
    BY <1>2, <2>4
  <2>6. [w EXCEPT ![n] = t, ![u] = q] = [sqMem EXCEPT ![n] = t, ![u] = q]
    BY <1>2, <1>7, <2>3
  <2> QED
    BY <2>1, <2>5, <2>6
<1>10. /\ t \in SeqState /\ t.st = "pending" /\ t.att = s.att /\ t.auto = s.auto /\ t.rej = s.rej
       /\ t.veto = v
       /\ q \in SeqState /\ q.st = "running" /\ q.att = p.att /\ q.auto = p.auto /\ q.rej = p.rej
       /\ q.veto = p.veto
  BY <1>7 DEF SeqState, SeqStatus, NodeStatus
<1> HIDE DEF t, q, v
<1>11. /\ ns \in [SqNode -> SeqState] /\ ns[n] = t /\ ns[u] = q
       /\ \A m \in SqNode \ {n, u} : ns[m] = sqMem[m]
  BY <1>2, <1>7, <1>10
<1> HIDE DEF s, p, ns, a
<1>12. /\ sqTask'.st = sqTask.st /\ sqTask'.ns = ns /\ sqMem' = ns
       /\ sqTask' \in [st: SqTaskStatus, ns: [SqNode -> SeqState]]
  BY <1>1, <1>9, <1>11, Saved
<1>13. /\ sqAllowance' \in [SqNode -> Nat] /\ sqAllowance'[n] = a
       /\ \A m \in SqNode \ {n} : sqAllowance'[m] = sqAllowance[m]
  BY <1>1, <1>2, <1>7 DEF SeqTypeOK
<1>14. sqPos' \in 1..(Len(Order) + 1)
  BY <1>2, <1>5
<1>15. SeqTypeOK'
  BY <1>1, <1>2, <1>12, <1>13, <1>14 DEF SeqTypeOK, SqControl
<1>16. ~Rejecting' /\ ~InRework' /\ Live'
  BY <1>2 DEF Rejecting, InRework, Live
<1>17. Walk'
  BY <1>2, <1>4, <1>12, <1>16 DEF Walk, Within
<1>18. Left(ns, u)
  <2>1. sqPos - 1 \in DOMAIN Order /\ (sqPos - 1) + 1 \in DOMAIN Order /\ (sqPos - 1) + 1 = sqPos
    BY <1>5, Nodes
  <2>2. ns[Order[sqPos]].veto > 0
    BY <1>2, <1>7, <1>10, <1>11 DEF At
  <2> QED
    BY <1>6, <1>10, <1>11, <2>1, <2>2 DEF Left
<1>19. \A m \in SqNode : Unsaved(m)' = 0
  BY <1>16 DEF Unsaved
<1>20. OnFile(n)'
  <2>1. Fits(n, t, sqExecs[n], a)
    <3>1. Due(s) = 0 /\ Due(t) = 1
      BY <1>8, <1>10 DEF Due
    <3>2. Fits(n, s, sqExecs[n], sqAllowance[n])
      BY <1>4 DEF OnFile, s
    <3> QED
      BY <1>7, <1>10, <3>1, <3>2 DEF Fits, a
  <2>2. sqSentBack'[n] <= t.rej + sqExits' + Unsaved(n)'
    <3>1. sqSentBack[n] <= s.rej + sqExits + 0
      BY <1>4 DEF OnFile, s
    <3> QED
      BY <1>2, <1>7, <1>10, <1>19, <3>1
  <2>3. (n \notin sqTorn' => t.att = sqExecs[n]) /\ ~Begun(t) /\ t.st \in Unseen
    BY <1>2, <1>4, <1>10 DEF OnFile, s, Begun, Unseen
  <2> QED
    BY <1>2, <1>7, <1>10, <1>11, <1>12, <1>13, <2>1, <2>2, <2>3, NodeOnFile
<1>21. OnFile(u)'
  <2>1. /\ u \notin sqTorn => p.att = sqExecs[u]
        /\ Begun(p) => sqExecs[u] >= 1
        /\ Fits(u, p, sqExecs[u], sqAllowance[u])
        /\ sqSentBack[u] <= p.rej + sqExits + 0
        /\ sqExits = 0 /\ u \in sqOwed => p.st \in Unseen
    BY <1>4, <1>6, <1>7 DEF OnFile, p
  <2>2. Fits(u, q, sqExecs[u], sqAllowance[u])
    <3>1. Due(p) = Due(q)
      BY <1>8, <1>10 DEF Due
    <3> QED
      BY <1>10, <2>1, <3>1 DEF Fits
  <2>3. sqSentBack'[u] <= q.rej + sqExits' + Unsaved(u)'
    BY <1>2, <1>6, <1>10, <1>19, <2>1
  <2>4. sqExecs[u] >= 1 /\ (u \notin sqTorn' => q.att = sqExecs[u])
    BY <1>2, <1>8, <1>10, <2>1 DEF Begun
  <2>5. ~(sqExits' = 0 /\ u \in sqOwed')
    BY <1>2, <1>8, <2>1 DEF Unseen
  <2> QED
    BY <1>2, <1>6, <1>7, <1>11, <1>12, <1>13, <1>18, <2>2, <2>3, <2>4, <2>5, NodeOnFile
<1>22. File'
  <2> DEFINE C == {n, u}
  <2>1. C \in SUBSET SqNode /\ \A m \in C : OnFile(m)'
    BY <1>6, <1>20, <1>21
  <2>2. \A m \in SqNode : ns[m].veto >= sqTask.ns[m].veto
    <3>1. \A m \in SqNode : m = n \/ m = u \/ ns[m] = sqMem[m]
      BY <1>11
    <3>2. \A m \in SqNode : sqMem[m].veto \in Nat
      BY <1>7, Fields
    <3>3. ns[n].veto >= sqMem[n].veto /\ ns[u].veto = sqMem[u].veto
      BY <1>7, <1>10, <1>11 DEF s, p, v
    <3> QED
      BY <1>4, <1>6, <3>1, <3>2, <3>3
  <2>3. \A m \in SqNode \ C :
           /\ ns[m] = sqTask.ns[m] /\ sqExecs'[m] = sqExecs[m] /\ sqSentBack'[m] = sqSentBack[m]
           /\ sqAllowance'[m] \in Nat /\ sqAllowance'[m] >= sqAllowance[m]
           /\ m \in sqOwed' => m \in sqOwed
           /\ m \in sqTorn => m \in sqTorn'
           /\ Plugged(m) => Plugged(m)'
           /\ sqExits' = 0 /\ Asking(m) => Asking(m)'
           /\ sqExits + Unsaved(m) <= sqExits' + Unsaved(m)'
    <3>1. \A m \in SqNode : sqAllowance[m] \in Nat
      BY <1>1, Types
    <3> QED
      BY <1>2, <1>4, <1>7, <1>11, <1>13, <1>19, <3>1, SMTT(40)
  <2> HIDE DEF C
  <2> QED
    <3>1. sqExits' \in Nat /\ sqExits' >= sqExits
      BY <1>2, <1>7
    <3> QED
      BY <1>11, <1>12, <2>1, <2>2, <2>3, <3>1, FileMoves
<1>23. Kept' /\ Accepted'
  BY <1>16 DEF Kept, Accepted
<1>24. Before'
  <2>1. ASSUME NEW j \in 1..(sqPos' - 1) PROVE SqAnswered(ns[Order[j]])
    <3>1. j \in 1..Len(Order) /\ j \in 1..(sqPos - 1) /\ j # sqPos /\ j # sqPos - 1
      BY <1>2, <1>5, Nodes
    <3>2. Order[j] \in SqNode \ {n, u}
      BY <1>2, <1>5, <1>6, <3>1, Nodes DEF At
    <3> QED
      BY <1>4, <1>11, <3>1, <3>2
  <2> QED
    BY <1>12, <2>1 DEF Before
<1>25. Outcomes'
  BY <1>2, <1>4, <1>12 DEF Outcomes
<1>26. RejectionsBounded'
  BY <1>1, <1>2 DEF RejectionsBounded
<1> QED
  BY <1>15, <1>17, <1>22, <1>23, <1>24, <1>25, <1>26 DEF SeqInv

-----------------------------------------------------------------------------
(***************************************************************************)
(* A rejection, from its acceptance to the answer.                         *)
(***************************************************************************)
\* What is known of the node that rejected, n, and of the one it rejected, u.
LEMMA ReworkFacts ==
  ASSUME SeqInv, InRework
  PROVE  /\ sqTask.st = "running" /\ sqPos \in 1..Len(Order)
         /\ At \in SqNode /\ sqTarget \in SqNode /\ sqTarget # At
         /\ OnFile(At) /\ OnFile(sqTarget)
         /\ ~Rejecting => sqMem = sqTask.ns
         /\ \A j \in 1..(sqPos - 1) : SqAnswered(sqMem[Order[j]]) \/ Order[j] = sqTarget
         /\ \A j \in 1..(sqPos - 1) : Order[j] \in SqNode /\ Order[j] # At
         /\ \A m \in SqNode : m # At => ~Asking(m)
         /\ \A m \in SqNode : m # sqTarget => Unsaved(m) = 0
         /\ \A m \in SqNode : m \notin {At, sqTarget} => ~Plugged(m)
         /\ sqExecs[At] + (RetryBudget(At) - sqMem[At].auto) + 1 <= sqAllowance[At]
<1>1. SeqTypeOK /\ Walk /\ File /\ Kept /\ Before
  BY DEF SeqInv
<1>2. Live /\ sqCtl # "end" /\ sqCtl \in Within
  BY DEF InRework, Rejecting, Live, Within
<1>3. sqTask.st = "running" /\ sqPos <= Len(Order) /\ sqTarget \in SqNode /\ sqTarget # At
  BY <1>1, <1>2 DEF Walk
<1>4. sqPos \in 1..Len(Order) /\ At \in SqNode
  BY <1>1, <1>3, Types, Nodes
<1>5. ~Rejecting => sqMem = sqTask.ns
  BY <1>1, <1>2 DEF Walk
<1>6. \A j \in 1..(sqPos - 1) : SqAnswered(sqMem[Order[j]]) \/ Order[j] = sqTarget
  BY <1>1, <1>2 DEF Before
<1>7. ASSUME NEW j \in 1..(sqPos - 1) PROVE Order[j] \in SqNode /\ Order[j] # At
  <2>1. j \in 1..Len(Order) /\ j # sqPos
    BY <1>4, Nodes
  <2> QED
    BY <1>4, <2>1, Nodes DEF At
<1>8. \A m \in SqNode : m # At => ~Asking(m)
  BY DEF Asking
<1>9. \A m \in SqNode : m # sqTarget => Unsaved(m) = 0
  BY DEF Unsaved
<1>10. \A m \in SqNode : m \notin {At, sqTarget} => ~Plugged(m)
  BY <1>2 DEF Plugged, Live
<1>11. OnFile(At) /\ OnFile(sqTarget)
  BY <1>1, <1>3, <1>4 DEF File
<1>12. sqExecs[At] + (RetryBudget(At) - sqMem[At].auto) + 1 <= sqAllowance[At]
  BY <1>1 DEF Kept
<1> QED
  BY <1>3, <1>4, <1>5, <1>6, <1>7, <1>8, <1>9, <1>10, <1>11, <1>12

\* The rework of u waits for a person, ends, is skipped or fails; but for the
\* first, the node n that asked for it is to execute again, or is skipped too.
LEMMA ReworkStep ==
  ASSUME SeqInv, NEW n \in SqNode, NEW u \in SqNode, n = At, u = sqTarget,
         sqCtl \in {"rework", "reworkWait"},
         NEW t \in SeqState, NEW a \in SeqState,
         SqCheckpoint([sqMem EXCEPT ![u] = t, ![n] = a]),
         sqPos' = sqPos, sqTarget' = sqTarget,
         UNCHANGED <<sqLedger, sqExits, sqSent>>,
         t.att = sqMem[u].att, t.rej = sqMem[u].rej, t.veto = sqMem[u].veto,
         t.auto <= RetryBudget(u), Due(t) - t.auto <= Due(sqMem[u]) - sqMem[u].auto,
         \/ /\ t.st = "waiting_approval" /\ a = sqMem[n]
            /\ sqCtl' = "reworkWait" /\ sqOutcome' = sqOutcome
         \/ /\ a = [sqMem[n] EXCEPT !.st = "pending"]
            /\ \/ /\ t.st \in {"completed", "rejected"}
                  /\ sqCtl' = "next" /\ sqOutcome' = sqOutcome
               \/ t.st = "skipped" /\ sqCtl' = "skipDown" /\ sqOutcome' = sqOutcome
               \/ /\ t.st \in {"failed", "retry_waiting"}
                  /\ sqCtl' = "end" /\ sqOutcome' = t.st
  PROVE  SeqInv'
<1> DEFINE ns == [sqMem EXCEPT ![u] = t, ![n] = a]
<1>1. SeqTypeOK /\ Walk /\ File /\ RejectionsBounded
  BY DEF SeqInv
<1>2. InRework /\ ~Rejecting
  BY DEF InRework, Rejecting
<1>3. /\ sqTask.st = "running" /\ sqPos \in 1..Len(Order)
      /\ u # n /\ OnFile(n) /\ OnFile(u) /\ sqMem = sqTask.ns
      /\ \A j \in 1..(sqPos - 1) : SqAnswered(sqMem[Order[j]]) \/ Order[j] = u
      /\ \A j \in 1..(sqPos - 1) : Order[j] \in SqNode /\ Order[j] # n
      /\ \A m \in SqNode : m # n => ~Asking(m)
      /\ \A m \in SqNode : m \notin {n, u} => ~Plugged(m)
      /\ sqExecs[n] + (RetryBudget(n) - sqMem[n].auto) + 1 <= sqAllowance[n]
  BY <1>2, ReworkFacts
<1>4. /\ sqMem \in [SqNode -> SeqState] /\ sqMem[u] \in SeqState /\ sqMem[n] \in SeqState
      /\ \A m \in SqNode : sqMem[m].veto \in Nat /\ sqMem[m].auto \in Nat /\ sqMem[m].rej \in Nat
      /\ \A m \in SqNode : sqExecs[m] \in Nat /\ sqAllowance[m] \in Nat /\ sqSentBack[m] \in Nat
      /\ \A m \in SqNode : RetryBudget(m) \in Nat
      /\ sqExits \in Nat
  BY <1>1, Types, Fields, Nodes
<1>5. /\ sqMem[u].st \in {"running", "waiting_approval"}
      /\ sqMem[n].st \in {"completed", "failed"}
  BY <1>1 DEF Walk
<1>6. /\ a.att = sqMem[n].att /\ a.auto = sqMem[n].auto /\ a.rej = sqMem[n].rej
      /\ a.veto = sqMem[n].veto
      /\ a.st = "pending" \/ (a.st = sqMem[n].st /\ sqCtl' = "reworkWait")
      /\ sqCtl' # "reworkWait" => a.st = "pending"
  BY <1>4 DEF SeqState
<1>7. /\ ns \in [SqNode -> SeqState] /\ ns[n] = a /\ ns[u] = t
      /\ \A m \in SqNode \ {n, u} : ns[m] = sqMem[m]
  BY <1>3, <1>4
<1> HIDE DEF ns
<1>8. /\ sqTask'.st = sqTask.st /\ sqTask'.ns = ns /\ sqMem' = ns
      /\ sqTask' \in [st: SqTaskStatus, ns: [SqNode -> SeqState]]
  BY <1>1, <1>7, Saved DEF ns
<1>9. /\ sqExecs' = sqExecs /\ sqAllowance' = sqAllowance
      /\ sqSentBack' = sqSentBack /\ sqOwed' = sqOwed /\ sqTorn' = sqTorn
      /\ sqExits' = sqExits /\ sqSent' = sqSent
      /\ sqCtl' \in {"reworkWait", "next", "skipDown", "end"}
      /\ sqOutcome' = sqOutcome \/ sqOutcome' \in {"failed", "retry_waiting"}
  BY DEF sqLedger
<1>10. SeqTypeOK'
  BY <1>1, <1>7, <1>8, <1>9 DEF SeqTypeOK, SqControl
<1>11. /\ At' = n /\ Live' /\ ~Rejecting' /\ sqPos' <= Len(Order) /\ sqTarget' = u
       /\ InRework' <=> sqCtl' = "reworkWait"
  BY <1>3, <1>9 DEF At, Live, Rejecting, InRework
<1>12. Walk'
  <2>1. sqCtl' = "reworkWait" => t.st = "waiting_approval" /\ a.st \in {"completed", "failed"}
    BY <1>5
  <2>2. sqCtl' = "skipDown" => t.st = "skipped" /\ a.st = "pending"
    BY <1>6
  <2> QED
    BY <1>3, <1>7, <1>8, <1>9, <1>11, <2>1, <2>2 DEF Walk, Within
<1>13. \A m \in SqNode : Unsaved(m)' = 0
  BY <1>11 DEF Unsaved
<1>14. OnFile(u)'
  <2>1. /\ u \notin sqTorn => sqMem[u].att = sqExecs[u]
        /\ sqExecs[u] >= 1
        /\ Fits(u, sqMem[u], sqExecs[u], sqAllowance[u])
        /\ sqSentBack[u] <= sqMem[u].rej + sqExits + Unsaved(u)
        /\ ~(sqExits = 0 /\ u \in sqOwed)
    BY <1>3, <1>5 DEF OnFile, Begun, Unseen
  <2>2. Unsaved(u) = 0
    BY <1>2 DEF Unsaved
  <2>3. Fits(u, t, sqExecs[u], sqAllowance[u])
    BY <1>4, <2>1, FitsOn
  <2>4. sqSentBack'[u] <= t.rej + sqExits' + Unsaved(u)'
    BY <1>4, <1>9, <1>13, <2>1, <2>2
  <2>5. t.st \in {"running", "waiting_approval"} => Plugged(u)'
    BY <1>11 DEF Plugged
  <2> QED
    BY <1>4, <1>7, <1>8, <1>9, <2>1, <2>3, <2>4, <2>5, NodeOnFile
<1>15. OnFile(n)'
  <2>1. /\ n \notin sqTorn => sqMem[n].att = sqExecs[n]
        /\ Begun(sqMem[n]) => sqExecs[n] >= 1
        /\ sqMem[n].auto <= RetryBudget(n)
        /\ sqSentBack[n] <= sqMem[n].rej + sqExits + Unsaved(n)
    BY <1>3 DEF OnFile, Fits
  <2>2. Unsaved(n) = 0
    BY <1>2 DEF Unsaved
  <2>3. Fits(n, a, sqExecs[n], sqAllowance[n])
    <3>1. Due(a) \in {0, 1}
      BY DEF Due
    <3>2. /\ sqExecs[n] \in Nat /\ sqAllowance[n] \in Nat /\ sqMem[n].auto \in Nat
          /\ RetryBudget(n) \in Nat /\ a.auto = sqMem[n].auto
      BY <1>4, <1>6
    <3>3. sqExecs[n] + (RetryBudget(n) - a.auto) + Due(a) <= sqAllowance[n]
      BY <1>3, <3>1, <3>2
    <3> QED
      BY <2>1, <3>2, <3>3 DEF Fits
  <2>4. sqSentBack'[n] <= a.rej + sqExits' + Unsaved(n)'
    BY <1>4, <1>6, <1>9, <1>13, <2>1, <2>2
  <2>5. a.st \notin {"running", "waiting_approval"}
    BY <1>5, <1>6
  <2>6. a.st \in Unseen \/ Asking(n)'
    BY <1>6, <1>11 DEF Unseen, Asking
  <2>7. Begun(a) => sqExecs[n] >= 1
    BY <1>6, <2>1 DEF Begun
  <2> QED
    BY <1>4, <1>6, <1>7, <1>8, <1>9, <2>1, <2>3, <2>4, <2>5, <2>6, <2>7, NodeOnFile
<1>16. File'
  <2> DEFINE C == {n, u}
  <2>1. C \in SUBSET SqNode /\ \A m \in C : OnFile(m)'
    BY <1>14, <1>15
  <2>2. \A m \in SqNode : ns[m].veto >= sqTask.ns[m].veto
    <3>1. \A m \in SqNode : m = n \/ m = u \/ ns[m] = sqMem[m]
      BY <1>7
    <3>2. ns[n].veto = sqMem[n].veto /\ ns[u].veto = sqMem[u].veto
      BY <1>6, <1>7
    <3>3. \A m \in SqNode : ns[m].veto = sqMem[m].veto
      BY <3>1, <3>2
    <3> QED
      BY <1>3, <1>4, <3>3, SMTT(40)
  <2>3. \A m \in SqNode \ C :
           /\ ns[m] = sqTask.ns[m] /\ sqExecs'[m] = sqExecs[m] /\ sqSentBack'[m] = sqSentBack[m]
           /\ sqAllowance'[m] \in Nat /\ sqAllowance'[m] >= sqAllowance[m]
           /\ m \in sqOwed' => m \in sqOwed
           /\ m \in sqTorn => m \in sqTorn'
           /\ Plugged(m) => Plugged(m)'
           /\ sqExits' = 0 /\ Asking(m) => Asking(m)'
           /\ sqExits + Unsaved(m) <= sqExits' + Unsaved(m)'
    <3>1. \A m \in SqNode : Unsaved(m) = 0
      BY <1>2 DEF Unsaved
    <3> QED
      BY <1>3, <1>4, <1>7, <1>9, <1>13, <3>1, SMTT(40)
  <2> HIDE DEF C
  <2> QED
    <3>1. sqExits' \in Nat /\ sqExits' >= sqExits
      BY <1>4, <1>9
    <3> QED
      BY <1>7, <1>8, <2>1, <2>2, <2>3, <3>1, FileMoves
<1>17. Accepted'
  BY <1>11 DEF Accepted
<1>18. Kept'
  <2>1. RetryBudget(At)' = RetryBudget(n)
    BY <1>11 DEF RetryBudget, MAX_AUTO_RETRY_COUNT
  <2> QED
    BY <1>3, <1>6, <1>7, <1>8, <1>9, <1>11, <2>1 DEF Kept
<1>19. Before'
  <2>1. ASSUME NEW j \in 1..(sqPos - 1), sqCtl' # "end"
        PROVE  SqAnswered(ns[Order[j]]) \/ (InRework' /\ Order[j] = u)
    <3>1. CASE Order[j] = u
      BY <1>7, <1>11, <2>1, <3>1 DEF SqAnswered, Done
    <3>2. CASE Order[j] # u
      BY <1>3, <1>7, <3>2
    <3> QED
      BY <3>1, <3>2
  <2> QED
    BY <1>8, <1>11, <2>1 DEF Before
<1>20. Outcomes'
  <2>1. sqTask'.st = "running"
    BY <1>3, <1>8
  <2>2. sqCtl' = "end" => sqOutcome' \in {"failed", "retry_waiting"}
                          /\ (sqOutcome' = "failed" => sqMem'[u].st = "failed")
    BY <1>7, <1>8
  <2>3. sqCtl' = "end" /\ sqOutcome' = "failed" => SqFound(sqMem', "failed")
    BY <2>2 DEF SqFound
  <2> QED
    BY <2>1, <2>2, <2>3 DEF Outcomes, Broken, SqFound
<1>21. RejectionsBounded'
  BY <1>1, <1>9 DEF RejectionsBounded
<1> QED
  BY <1>10, <1>12, <1>16, <1>17, <1>18, <1>19, <1>20, <1>21 DEF SeqInv

\* The ways a rework goes on.
LEMMA ReworkSafe ==
  ASSUME SeqInv, AwaitRework \/ ReworkCompletes \/ ReworkVetoed \/ ReworkFails
  PROVE  SeqInv'
<1>1. SeqTypeOK /\ Walk
  BY DEF SeqInv
<1>2. sqCtl \in {"rework", "reworkWait"} /\ sqPos' = sqPos /\ sqTarget' = sqTarget
  BY DEF AwaitRework, ReworkCompletes, ReworkVetoed, ReworkFails, ReworkEnds, ReworkRuns
<1>3. UNCHANGED <<sqLedger, sqExits, sqSent>>
  BY DEF AwaitRework, ReworkCompletes, ReworkVetoed, ReworkFails, ReworkEnds
<1>4. InRework /\ ~Rejecting
  BY <1>2 DEF InRework, Rejecting
<1>5. At \in SqNode /\ sqTarget \in SqNode /\ sqTarget # At /\ OnFile(sqTarget) /\ sqMem = sqTask.ns
  BY <1>4, ReworkFacts
<1>6. PICK n \in SqNode, u \in SqNode : n = At /\ u = sqTarget
  BY <1>5
<1>7. /\ sqMem \in [SqNode -> SeqState] /\ sqMem[u] \in SeqState /\ sqMem[n] \in SeqState
      /\ sqMem[u].auto \in Nat /\ RetryBudget(u) \in Nat /\ sqMem[u].auto <= RetryBudget(u)
      /\ u # n /\ Due(sqMem[u]) \in {0, 1}
  BY <1>1, <1>5, <1>6, Types, Fields, Nodes DEF OnFile, Fits, Due
<1>8. [sqMem[n] EXCEPT !.st = "pending"] \in SeqState
  BY <1>7 DEF SeqState, SeqStatus, NodeStatus
<1>9. CASE AwaitRework
  <2> DEFINE t == [sqMem[u] EXCEPT !.st = "waiting_approval"]
  <2>1. SqCheckpoint([sqMem EXCEPT ![u].st = "waiting_approval"])
        /\ sqCtl' = "reworkWait" /\ sqOutcome' = sqOutcome
    BY <1>6, <1>9 DEF AwaitRework, With
  <2>2. [sqMem EXCEPT ![u].st = "waiting_approval"] = [sqMem EXCEPT ![u] = t, ![n] = sqMem[n]]
    BY <1>7
  <2>3. /\ t \in SeqState /\ t.st = "waiting_approval" /\ t.att = sqMem[u].att
        /\ t.auto = sqMem[u].auto /\ t.rej = sqMem[u].rej /\ t.veto = sqMem[u].veto
    BY <1>7 DEF SeqState, SeqStatus, NodeStatus
  <2> HIDE DEF t
  <2>4. t.auto <= RetryBudget(u) /\ Due(t) - t.auto <= Due(sqMem[u]) - sqMem[u].auto
    <3>1. Due(t) = 0
      BY <2>3 DEF Due
    <3> QED
      BY <1>7, <2>3, <3>1
  <2> QED
    BY <1>2, <1>3, <1>6, <1>7, <2>1, <2>2, <2>3, <2>4, ReworkStep
<1>10. CASE ReworkCompletes \/ ReworkVetoed
  <2>1. PICK v \in {"completed", "rejected"} : ReworkEnds(v)
    BY <1>10 DEF ReworkCompletes, ReworkVetoed
  <2> DEFINE t == [sqMem[u] EXCEPT !.st = v]
             a == [sqMem[n] EXCEPT !.st = "pending"]
             w == [sqMem EXCEPT ![u].st = v]
  <2>2. SqCheckpoint([w EXCEPT ![n].st = "pending"]) /\ sqCtl' = "next" /\ sqOutcome' = sqOutcome
    BY <1>6, <2>1 DEF ReworkEnds, Revalidate, With, At
  <2>3. /\ t \in SeqState /\ t.st = v /\ t.att = sqMem[u].att
        /\ t.auto = sqMem[u].auto /\ t.rej = sqMem[u].rej /\ t.veto = sqMem[u].veto
    BY <1>7 DEF SeqState, SeqStatus, NodeStatus
  <2>4. [w EXCEPT ![n].st = "pending"] = [sqMem EXCEPT ![u] = t, ![n] = a]
    <3>1. w = [sqMem EXCEPT ![u] = t] /\ w[n] = sqMem[n]
      BY <1>7
    <3> QED
      BY <3>1
  <2>5. t.auto <= RetryBudget(u) /\ Due(t) - t.auto <= Due(sqMem[u]) - sqMem[u].auto
    <3>1. Due(t) = 0
      BY <2>3 DEF Due
    <3> HIDE DEF t
    <3> QED
      BY <1>7, <2>3, <3>1
  <2> HIDE DEF t, w
  <2> QED
    BY <1>2, <1>3, <1>6, <1>8, <2>2, <2>3, <2>4, <2>5, ReworkStep
<1>11. CASE ReworkFails
  <2> DEFINE w == Policy(sqMem, u)
             t == w[u]
             a == [sqMem[n] EXCEPT !.st = "pending"]
  <2>1. /\ w \in [SqNode -> SeqState]
        /\ \A m \in SqNode \ {u} : w[m] = sqMem[m]
        /\ t \in SeqState /\ t.att = sqMem[u].att /\ Alike(sqMem[u], t)
        /\ t.st \in {"retry_waiting", "skipped", "failed"}
        /\ t.st = "retry_waiting" => sqMem[u].auto < RetryBudget(u) /\ t.auto = sqMem[u].auto + 1
        /\ t.st # "retry_waiting" => t.auto = sqMem[u].auto
    BY <1>7, PolicyFacts
  <2>2. /\ SqCheckpoint([w EXCEPT ![n].st = "pending"])
        /\ IF [w EXCEPT ![n].st = "pending"][u].st = "skipped"
           THEN sqCtl' = "skipDown" /\ sqOutcome' = sqOutcome
           ELSE sqCtl' = "end" /\ sqOutcome' = [w EXCEPT ![n].st = "pending"][u].st
    BY <1>6, <1>11 DEF ReworkFails, Revalidate, Return, At
  <2> HIDE DEF w
  <2>3. [w EXCEPT ![n].st = "pending"][u] = t
    BY <1>7, <2>1
  <2>4. w[n] = sqMem[n]
    BY <1>7, <2>1
  <2>5. w = [sqMem EXCEPT ![u] = t]
    BY <1>7, <2>1
  <2> HIDE DEF t
  <2>6. [w EXCEPT ![n].st = "pending"] = [sqMem EXCEPT ![u] = t, ![n] = a]
    BY <2>4, <2>5
  <2>7. t.auto <= RetryBudget(u) /\ Due(t) - t.auto <= Due(sqMem[u]) - sqMem[u].auto
    <3>1. Due(t) = (IF t.st = "retry_waiting" THEN 1 ELSE 0)
      BY <2>1 DEF Due
    <3> QED
      BY <1>7, <2>1, <3>1
  <2>8. t.rej = sqMem[u].rej /\ t.veto = sqMem[u].veto
    BY <2>1 DEF Alike
  <2>9. SqCheckpoint([sqMem EXCEPT ![u] = t, ![n] = a])
    BY <2>2, <2>6
  <2>10. \/ t.st = "skipped" /\ sqCtl' = "skipDown" /\ sqOutcome' = sqOutcome
         \/ t.st \in {"failed", "retry_waiting"} /\ sqCtl' = "end" /\ sqOutcome' = t.st
    BY <2>1, <2>2, <2>3
  <2> QED
    BY <1>2, <1>3, <1>6, <1>8, <2>1, <2>7, <2>8, <2>9, <2>10, ReworkStep
<1> QED
  BY <1>9, <1>10, <1>11

\* More executions allowed fit no worse; those begun never exceed them.
LEMMA FitsMore ==
  ASSUME NEW n \in SqNode, NEW s \in SeqState, NEW e \in Nat, NEW a \in Nat, NEW b \in Nat,
         Fits(n, s, e, a), b >= a
  PROVE  /\ Fits(n, s, e, b)
         /\ e + (RetryBudget(n) - s.auto) <= a /\ e <= a
<1>1. s.auto \in Nat /\ RetryBudget(n) \in Nat /\ Due(s) \in {0, 1}
  BY Fields, Nodes DEF Due
<1> QED
  BY <1>1 DEF Fits

\* A rejection is accepted: the file does not know of it yet.
LEMMA RejectSafe ==
  ASSUME SeqInv, NEW n \in SqNode, NEW u \in SqNode, RejectUpstream(n, u)
  PROVE  SeqInv'
<1> DEFINE s == sqMem[n]
           p == sqMem[u]
           k == s.att - 1
           r == p.rej + 1
           t == [s EXCEPT !.att = k]
           q == [p EXCEPT !.st = "waiting_retry", !.rej = r]
           ns == [sqMem EXCEPT ![u] = q, ![n] = t]
           a == sqAllowance[u] + RetryBudget(u) + 1
           b == sqAllowance[n] + 1
           c == sqSentBack[u] + 1
<1>1. SeqTypeOK /\ Walk /\ File /\ RejectionsBounded
  BY DEF SeqInv
<1>2. /\ sqCtl = "exec" /\ sqPos <= Len(Order) /\ n = At /\ sqTarget = NoTarget
      /\ u \in Targets[n] /\ u # n /\ n \notin Approval /\ p.rej < MaxReject[n]
      /\ sqTarget' = u
      /\ sqTask' = sqTask /\ sqCtl' = sqCtl /\ sqPos' = sqPos /\ sqOutcome' = sqOutcome
      /\ sqExecs' = sqExecs /\ sqTorn' = sqTorn /\ sqExits' = sqExits /\ sqSent' = sqSent
      /\ sqOwed' = sqOwed \cup {n}
  <2>1. u \in Targets[n]
    BY DEF RejectUpstream
  <2>2. u # n /\ n \notin Approval
    BY <2>1, SequenceAssumption
  <2> QED
    BY <2>1, <2>2 DEF RejectUpstream, Here, At
<1>3. ~Rejecting /\ sqCtl \in {"next", "exec", "wait", "skipDown"}
  BY <1>2 DEF Rejecting
<1>4. /\ sqTask.st = "running" /\ sqMem = sqTask.ns /\ OnFile(n)
      /\ \A j \in 1..(sqPos - 1) : SqAnswered(sqMem[Order[j]])
      /\ \A m \in SqNode \ {n} : ~Plugged(m)
      /\ \A m \in SqNode : ~Asking(m) /\ Unsaved(m) = 0
  BY <1>2, <1>3, HereFacts
<1>5. /\ sqMem \in [SqNode -> SeqState] /\ s \in SeqState /\ p \in SeqState
      /\ s.st = "running" /\ s.att >= 1 /\ OnFile(u)
  BY <1>1, <1>2, Types DEF Walk, File
<1>6. /\ s.auto \in Nat /\ s.rej \in Nat /\ s.att \in Nat /\ p.auto \in Nat /\ p.rej \in Nat
      /\ sqExecs[n] \in Nat /\ sqAllowance[n] \in Nat /\ sqSentBack[n] \in Nat /\ sqExits \in Nat
      /\ sqExecs[u] \in Nat /\ sqAllowance[u] \in Nat /\ sqSentBack[u] \in Nat
      /\ RetryBudget(n) \in Nat /\ RetryBudget(u) \in Nat /\ MaxReject[n] \in Nat
      /\ sqPos \in 1..Len(Order)
  BY <1>1, <1>2, <1>5, Types, Fields, Nodes
<1>7. /\ a \in Nat /\ a >= sqAllowance[u] /\ a = sqAllowance[u] + RetryBudget(u) + 1
      /\ b \in Nat /\ b = sqAllowance[n] + 1 /\ c \in Nat /\ c = sqSentBack[u] + 1
      /\ k \in Nat /\ k + 1 = s.att /\ r \in Nat /\ r = p.rej + 1
  <2>1. k \in Nat /\ k + 1 = s.att /\ r \in Nat /\ r = p.rej + 1
    <3>1. s.att \in Nat /\ s.att >= 1 /\ p.rej \in Nat
      BY <1>5, <1>6
    <3> HIDE DEF s, p
    <3> QED
      BY <3>1
  <2>2. b \in Nat /\ b = sqAllowance[n] + 1 /\ c \in Nat /\ c = sqSentBack[u] + 1
    BY <1>6, SMTT(40)
  <2>3. a \in Nat /\ a >= sqAllowance[u] /\ a = sqAllowance[u] + RetryBudget(u) + 1
    BY <1>6, SMTT(40)
  <2> QED
    BY <2>1, <2>2, <2>3
<1> HIDE DEF k, r, a, b, c
<1>8. /\ t \in SeqState /\ t.st = "running" /\ t.att = k /\ t.auto = s.auto /\ t.rej = s.rej
      /\ t.veto = s.veto
      /\ q \in SeqState /\ q.st = "waiting_retry" /\ q.att = p.att /\ q.auto = p.auto
      /\ q.rej = r /\ q.veto = p.veto
  BY <1>5, <1>7 DEF SeqState, SeqStatus
<1>9. sqMem' = ns
  <2> DEFINE w == [sqMem EXCEPT ![u].st = "waiting_retry", ![u].rej = r]
  <2>1. sqMem' = [w EXCEPT ![n].att = k]
    BY <1>2 DEF RejectUpstream, r, k
  <2>2. w = [sqMem EXCEPT ![u] = q] /\ w[n] = s
    BY <1>2, <1>5, <1>7 DEF SeqState
  <2> QED
    BY <2>1, <2>2
<1> HIDE DEF t, q
<1>10. /\ ns \in [SqNode -> SeqState] /\ ns[n] = t /\ ns[u] = q
       /\ \A m \in SqNode \ {n, u} : ns[m] = sqMem[m]
  BY <1>2, <1>5, <1>8
<1> HIDE DEF s, p, ns
<1>11. /\ sqAllowance' \in [SqNode -> Nat] /\ sqAllowance'[n] = b /\ sqAllowance'[u] = a
       /\ \A m \in SqNode \ {n, u} : sqAllowance'[m] = sqAllowance[m]
  <2>1. sqAllowance \in [SqNode -> Nat] /\ sqAllowance' = [sqAllowance EXCEPT ![u] = a, ![n] = b]
    BY <1>1, <1>2 DEF SeqTypeOK, RejectUpstream, a, b
  <2> QED
    BY <1>2, <1>7, <2>1
<1>12. /\ sqSentBack' \in [SqNode -> Nat] /\ sqSentBack'[u] = c
       /\ \A m \in SqNode \ {u} : sqSentBack'[m] = sqSentBack[m]
  <2>1. sqSentBack \in [SqNode -> Nat] /\ sqSentBack' = [sqSentBack EXCEPT ![u] = c]
    BY <1>1 DEF SeqTypeOK, RejectUpstream, c
  <2> QED
    BY <1>7, <2>1
<1>13. SeqTypeOK'
  BY <1>1, <1>2, <1>9, <1>10, <1>11, <1>12 DEF SeqTypeOK
<1>14. Rejecting' /\ InRework' /\ Live' /\ At' = n
  BY <1>2, Nodes DEF Rejecting, InRework, Live, At
<1>15. Walk'
  BY <1>2, <1>4, <1>8, <1>9, <1>10, <1>14, Nodes DEF Walk, Within
<1>16. Unsaved(n)' = 0 /\ Unsaved(u)' = 1
  BY <1>2, <1>14 DEF Unsaved
<1>17. OnFile(n)'
  <2>1. /\ n \notin sqTorn => s.att = sqExecs[n]
        /\ Begun(s) => sqExecs[n] >= 1
        /\ Fits(n, s, sqExecs[n], sqAllowance[n])
        /\ sqSentBack[n] <= s.rej + sqExits + 0
    BY <1>4 DEF OnFile, s
  <2>2. Fits(n, s, sqExecs[n], b)
    <3>1. b >= sqAllowance[n] /\ s \in SeqState
      BY <1>5, <1>6, <1>7
    <3> QED
      BY <1>6, <1>7, <2>1, <3>1, FitsMore, ZenonT(90)
  <2>3. Plugged(n)' /\ Asking(n)'
    BY <1>2, <1>14 DEF Plugged, Asking
  <2>4. sqTask'.ns[n] = s /\ sqTask'.ns \in [SqNode -> SeqState]
    BY <1>2, <1>4, <1>5 DEF s
  <2>5. sqSentBack'[n] <= s.rej + sqExits' + Unsaved(n)'
    BY <1>2, <1>12, <1>16, <2>1
  <2> QED
    BY <1>2, <1>6, <1>7, <1>11, <2>1, <2>2, <2>3, <2>4, <2>5, NodeOnFile
<1>18. OnFile(u)'
  <2>1. /\ u \notin sqTorn => p.att = sqExecs[u]
        /\ Begun(p) => sqExecs[u] >= 1
        /\ Fits(u, p, sqExecs[u], sqAllowance[u])
        /\ sqSentBack[u] <= p.rej + sqExits + 0
        /\ p.st \in {"running", "waiting_approval"} => Left(sqMem, u)
        /\ sqExits = 0 /\ u \in sqOwed => p.st \in Unseen
    BY <1>2, <1>4, <1>5 DEF OnFile, p
  <2>2. Fits(u, p, sqExecs[u], a)
    <3>1. a >= sqAllowance[u] /\ p \in SeqState
      BY <1>5, <1>6, <1>7
    <3> QED
      BY <1>6, <1>7, <2>1, <3>1, FitsMore, ZenonT(90)
  <2>3. sqTask'.ns = sqMem /\ sqTask'.ns[u] = p
    BY <1>2, <1>4 DEF p
  <2>4. sqSentBack'[u] <= p.rej + sqExits' + Unsaved(u)'
    BY <1>2, <1>6, <1>7, <1>12, <1>16, <2>1, SMTT(40)
  <2>5. u \in sqOwed' => u \in sqOwed
    BY <1>2
  <2> QED
    BY <1>2, <1>5, <1>6, <1>7, <1>11, <2>1, <2>2, <2>3, <2>4, <2>5, NodeOnFile DEF p
<1>19. File'
  <2> DEFINE C == {n, u}
             ms == sqTask.ns
  <2>1. C \in SUBSET SqNode /\ \A m \in C : OnFile(m)'
    BY <1>17, <1>18
  <2>2. /\ \A m \in SqNode : ms[m].veto >= sqTask.ns[m].veto
        /\ ms \in [SqNode -> SeqState] /\ sqTask'.ns = ms
    BY <1>2, <1>4, <1>5, Fields
  <2>3. \A m \in SqNode \ C :
           /\ ms[m] = sqTask.ns[m] /\ sqExecs'[m] = sqExecs[m] /\ sqSentBack'[m] = sqSentBack[m]
           /\ sqAllowance'[m] \in Nat /\ sqAllowance'[m] >= sqAllowance[m]
           /\ m \in sqOwed' => m \in sqOwed
           /\ m \in sqTorn => m \in sqTorn'
           /\ Plugged(m) => Plugged(m)'
           /\ sqExits' = 0 /\ Asking(m) => Asking(m)'
           /\ sqExits + Unsaved(m) <= sqExits' + Unsaved(m)'
    <3>1. \A m \in SqNode : sqAllowance[m] \in Nat /\ Unsaved(m)' \in {0, 1}
      BY <1>1, Types DEF Unsaved
    <3>2. \A m \in SqNode : sqExits + Unsaved(m) <= sqExits' + Unsaved(m)'
      BY <1>2, <1>4, <1>6, <3>1, SMTT(40)
    <3> QED
      BY <1>2, <1>4, <1>11, <1>12, <3>1, <3>2
  <2> HIDE DEF C, ms
  <2> QED
    <3>1. sqExits' \in Nat /\ sqExits' >= sqExits
      BY <1>2, <1>6
    <3> QED
      BY <2>1, <2>2, <2>3, <3>1, FileMoves
<1>20. /\ Fits(n, s, sqExecs[n], sqAllowance[n]) /\ Fits(u, p, sqExecs[u], sqAllowance[u])
       /\ n \notin sqTorn => s.att = sqExecs[n]
  BY <1>4, <1>5 DEF OnFile, s, p
<1>21. Kept'
  <2>1. sqExecs[n] + (RetryBudget(n) - t.auto) + 1 <= b
    <3>1. sqExecs[n] + (RetryBudget(n) - s.auto) <= sqAllowance[n]
      BY <1>5, <1>6, <1>20, FitsMore, SMTT(40)
    <3>2. t.auto = s.auto /\ b = sqAllowance[n] + 1
      BY <1>7, <1>8
    <3>3. /\ sqExecs[n] \in Nat /\ sqAllowance[n] \in Nat /\ s.auto \in Nat
          /\ RetryBudget(n) \in Nat
      BY <1>6
    <3> QED
      BY <3>1, <3>2, <3>3
  <2>2. RetryBudget(At)' = RetryBudget(n)
    BY <1>14 DEF RetryBudget, MAX_AUTO_RETRY_COUNT
  <2> QED
    BY <1>2, <1>9, <1>10, <1>11, <1>14, <2>1, <2>2 DEF Kept
<1>22. Accepted'
  <2>1. \A m \in SqNode : /\ m \notin {n, u} => ns[m] = sqTask.ns[m]
                          /\ ns[m].veto = sqTask.ns[m].veto
                          /\ ns[m].auto = sqTask.ns[m].auto
    <3>1. \A m \in SqNode : m = n \/ m = u \/ ns[m] = sqMem[m]
      BY <1>10
    <3>2. ns[n].veto = sqMem[n].veto /\ ns[u].veto = sqMem[u].veto
          /\ ns[n].auto = sqMem[n].auto /\ ns[u].auto = sqMem[u].auto
      BY <1>8, <1>10 DEF s, p
    <3> QED
      BY <1>4, <1>10, <3>1, <3>2
  <2>2. \A m \in SqNode : sqSentBack'[m] <= ns[m].rej + sqExits
    <3>1. \A m \in SqNode : sqSentBack[m] <= sqMem[m].rej + sqExits + 0
      BY <1>1, <1>4 DEF File, OnFile
    <3>2. \A m \in SqNode : sqMem[m].rej \in Nat /\ sqSentBack[m] \in Nat
      BY <1>1, Types, Fields
    <3>3. sqSentBack'[u] <= ns[u].rej + sqExits
      <4>1. sqSentBack[u] <= p.rej + sqExits + 0
        BY <3>1 DEF p
      <4> QED
        BY <1>6, <1>7, <1>8, <1>10, <1>12, <4>1, SMTT(40)
    <3>4. sqSentBack'[n] <= ns[n].rej + sqExits
      <4>1. sqSentBack[n] <= s.rej + sqExits + 0
        BY <3>1 DEF s
      <4> QED
        BY <1>2, <1>6, <1>8, <1>10, <1>12, <4>1
    <3>5. ASSUME NEW m \in SqNode \ {n, u} PROVE sqSentBack'[m] <= ns[m].rej + sqExits
      <4>1. sqSentBack'[m] = sqSentBack[m] /\ ns[m] = sqMem[m]
        BY <1>10, <1>12
      <4>2. sqSentBack[m] <= sqMem[m].rej + sqExits + 0 /\ sqMem[m].rej \in Nat
        BY <3>1, <3>2
      <4> QED
        BY <1>6, <4>1, <4>2
    <3> QED
      BY <3>3, <3>4, <3>5
  <2>3. n \notin sqTorn => t.att + 1 = sqExecs[n]
    BY <1>7, <1>8, <1>20
  <2>4. sqExecs[u] + RetryBudget(u) + 1 <= a
    <3>1. sqExecs[u] <= sqAllowance[u]
      BY <1>5, <1>6, <1>20, FitsMore
    <3> QED
      BY <1>6, <1>7, <3>1
  <2>5. RetryBudget(u)' = RetryBudget(u) /\ RetryBudget(sqTarget)' = RetryBudget(u)
    BY <1>2 DEF RetryBudget, MAX_AUTO_RETRY_COUNT
  <2>6. sqTask.ns[n].st = "running" /\ q.att = sqTask.ns[u].att
    BY <1>4, <1>5, <1>8 DEF s, p
  <2> QED
    BY <1>2, <1>8, <1>9, <1>10, <1>11, <1>14, <2>1, <2>2, <2>3, <2>4, <2>5, <2>6 DEF Accepted
<1>23. Before'
  <2>1. ASSUME NEW j \in 1..(sqPos - 1) PROVE SqAnswered(ns[Order[j]]) \/ Order[j] = u
    <3>1. j \in 1..Len(Order) /\ j # sqPos
      BY <1>6, Nodes, SMTT(40)
    <3>2. Order[j] \in SqNode \ {n}
      BY <1>2, <1>6, <3>1, Nodes DEF At
    <3> QED
      BY <1>4, <1>10, <3>2
  <2> QED
    BY <1>2, <1>9, <1>14, <2>1 DEF Before
<1>24. Outcomes'
  BY <1>2, <1>4 DEF Outcomes
<1>25. RejectionsBounded'
  <2>1. c <= MaxReject[n] + sqExits
    <3>1. sqSentBack[u] <= p.rej + sqExits + 0
      BY <1>4, <1>5 DEF OnFile, p
    <3>2. p.rej < MaxReject[n]
      BY <1>2 DEF p
    <3> QED
      BY <1>6, <1>7, <3>1, <3>2, SMTT(40)
  <2> QED
    BY <1>1, <1>2, <1>12, <2>1 DEF RejectionsBounded
<1> QED
  BY <1>13, <1>15, <1>19, <1>21, <1>22, <1>23, <1>24, <1>25 DEF SeqInv

\* The node that rejected ends, or a parallel branch saves the task before it
\* does: either way the file learns of the rejection.
LEMMA RejectingMoves ==
  ASSUME SeqInv, NEW n \in SqNode, SiblingSaves(n) \/ EndsRejecting(n)
  PROVE  SeqInv'
<1>1. SeqTypeOK /\ Walk /\ File /\ Accepted /\ RejectionsBounded
  BY DEF SeqInv
<1>2. /\ Rejecting /\ InRework /\ sqCtl = "exec" /\ n = At
  BY DEF SiblingSaves, EndsRejecting, Here, At, Rejecting, InRework
<1>3. At \in SqNode /\ sqTarget \in SqNode
  BY <1>2, ReworkFacts
<1>4. PICK u \in SqNode : u = sqTarget
  BY <1>3
<1>5. /\ sqTask.st = "running" /\ sqPos \in 1..Len(Order)
      /\ u # n /\ OnFile(n) /\ OnFile(u)
      /\ \A j \in 1..(sqPos - 1) : SqAnswered(sqMem[Order[j]]) \/ Order[j] = u
      /\ \A j \in 1..(sqPos - 1) : Order[j] \in SqNode /\ Order[j] # n
      /\ \A m \in SqNode : m # n => ~Asking(m)
      /\ \A m \in SqNode : m # u => Unsaved(m) = 0
      /\ \A m \in SqNode : m \notin {n, u} => ~Plugged(m)
      /\ sqExecs[n] + (RetryBudget(n) - sqMem[n].auto) + 1 <= sqAllowance[n]
  BY <1>2, <1>4, ReworkFacts
<1>6. /\ \A m \in SqNode : /\ m \notin {n, u} => sqMem[m] = sqTask.ns[m]
                           /\ sqMem[m].veto = sqTask.ns[m].veto
                           /\ sqMem[m].auto = sqTask.ns[m].auto
                           /\ sqSentBack[m] <= sqMem[m].rej + sqExits
      /\ n \notin Approval /\ sqTask.ns[n].st = "running"
      /\ n \notin sqTorn => sqMem[n].att + 1 = sqExecs[n]
      /\ sqMem[u].st = "waiting_retry" /\ sqMem[u].att = sqTask.ns[u].att
      /\ sqExecs[u] + RetryBudget(u) + 1 <= sqAllowance[u]
  BY <1>1, <1>2, <1>4 DEF Accepted
<1>7. sqMem[n].st = "running"
  BY <1>1, <1>2 DEF Walk
<1>8. /\ sqMem \in [SqNode -> SeqState] /\ sqMem[n] \in SeqState /\ sqMem[u] \in SeqState
      /\ \A m \in SqNode : /\ sqMem[m].veto \in Nat /\ sqMem[m].auto \in Nat /\ sqMem[m].rej \in Nat
                           /\ sqMem[m].att \in Nat
      /\ \A m \in SqNode : sqExecs[m] \in Nat /\ sqAllowance[m] \in Nat /\ sqSentBack[m] \in Nat
      /\ \A m \in SqNode : RetryBudget(m) \in Nat
      /\ sqExits \in Nat /\ sqTask.ns \in [SqNode -> SeqState]
  BY <1>1, Types, Fields, Nodes
<1>9. /\ sqExecs[n] >= 1 /\ (u \notin sqTorn => sqMem[u].att = sqExecs[u])
      /\ sqMem[n].auto <= RetryBudget(n) /\ sqMem[u].auto <= RetryBudget(u)
  BY <1>5, <1>6 DEF OnFile, Begun, Fits
<1>10. sqExecs[n] + (RetryBudget(n) - sqMem[n].auto) + 1 <= sqAllowance[n]
  BY <1>5
<1>11. Fits(n, sqMem[n], sqExecs[n], sqAllowance[n])
  <2>1. Due(sqMem[n]) = 0
    BY <1>7 DEF Due
  <2>2. /\ sqExecs[n] \in Nat /\ sqAllowance[n] \in Nat /\ sqMem[n].auto \in Nat
        /\ RetryBudget(n) \in Nat
    BY <1>8
  <2> QED
    BY <1>9, <1>10, <2>1, <2>2 DEF Fits
<1>12. /\ sqExecs' = sqExecs /\ sqAllowance' = sqAllowance /\ sqSentBack' = sqSentBack
       /\ sqOwed' = sqOwed /\ sqExits' = sqExits /\ sqSent' = sqSent
       /\ sqPos' = sqPos /\ sqTarget' = sqTarget /\ sqOutcome' = sqOutcome
  BY DEF SiblingSaves, EndsRejecting, sqRunner, sqLedger
<1>13. RejectionsBounded'
  BY <1>1, <1>12 DEF RejectionsBounded
<1>14. CASE SiblingSaves(n)
  <2>1. /\ sqTask' = [sqTask EXCEPT !.ns = sqMem] /\ sqTorn' = sqTorn \cup {n}
        /\ sqMem' = sqMem /\ sqCtl' = sqCtl
    BY <1>14 DEF SiblingSaves, SqSave, sqRunner
  <2>2. sqTask'.st = sqTask.st /\ sqTask'.ns = sqMem
        /\ sqTask' \in [st: SqTaskStatus, ns: [SqNode -> SeqState]]
    BY <1>1, <2>1 DEF SeqTypeOK
  <2>3. SeqTypeOK'
    BY <1>1, <1>12, <2>1, <2>2 DEF SeqTypeOK
  <2>4. Rejecting' /\ InRework' /\ Live' /\ At' = n /\ sqTarget' = u
    BY <1>2, <1>4, <1>12, <2>1 DEF Rejecting, InRework, Live, At
  <2>5. Walk'
    BY <1>2, <1>3, <1>5, <1>7, <1>12, <2>1, <2>2, <2>4, Nodes DEF Walk, Within
  <2>6. Unsaved(u)' = 1 /\ \A m \in SqNode : Unsaved(m)' = Unsaved(m)
    BY <1>2, <1>4, <1>12, <2>1, <2>4 DEF Unsaved
  <2>7. OnFile(n)'
    <3>1. Plugged(n)' /\ Asking(n)' /\ n \in sqTorn'
      BY <1>2, <2>1, <2>4 DEF Plugged, Asking
    <3>2. sqSentBack'[n] <= sqMem[n].rej + sqExits' + Unsaved(n)'
      <4>1. sqSentBack[n] <= sqMem[n].rej + sqExits /\ sqMem[n].rej \in Nat
        BY <1>6, <1>8
      <4>2. Unsaved(n) = 0
        BY <1>5
      <4> QED
        BY <1>8, <1>12, <2>6, <4>1, <4>2
    <3> QED
      BY <1>8, <1>9, <1>11, <1>12, <2>2, <3>1, <3>2, NodeOnFile
  <2>8. OnFile(u)'
    <3>1. ~Begun(sqMem[u]) /\ sqMem[u].st \in Unseen
          /\ sqMem[u].st \notin {"running", "waiting_approval"}
      BY <1>6 DEF Begun, Unseen
    <3>2. sqSentBack'[u] <= sqMem[u].rej + sqExits' + Unsaved(u)'
      <4>1. sqSentBack[u] <= sqMem[u].rej + sqExits /\ sqMem[u].rej \in Nat /\ sqSentBack[u] \in Nat
        BY <1>6, <1>8
      <4> QED
        BY <1>8, <1>12, <2>6, <4>1
    <3>3. Fits(u, sqMem[u], sqExecs[u], sqAllowance[u])
      <4>1. Due(sqMem[u]) = 1
        BY <1>6 DEF Due
      <4>2. /\ sqExecs[u] \in Nat /\ sqAllowance[u] \in Nat /\ sqMem[u].auto \in Nat
            /\ RetryBudget(u) \in Nat /\ sqExecs[u] + RetryBudget(u) + 1 <= sqAllowance[u]
        BY <1>6, <1>8
      <4> QED
        BY <1>9, <4>1, <4>2 DEF Fits
    <3>4. u \notin sqTorn' => sqMem[u].att = sqExecs[u]
      BY <1>9, <2>1
    <3> QED
      BY <1>8, <1>12, <2>2, <3>1, <3>2, <3>3, <3>4, NodeOnFile
  <2>9. File'
    <3> DEFINE C == {n, u}
    <3>1. C \in SUBSET SqNode /\ \A m \in C : OnFile(m)'
      BY <2>7, <2>8
    <3>2. \A m \in SqNode : sqMem[m].veto >= sqTask.ns[m].veto
      <4>1. \A m \in SqNode : sqMem[m].veto \in Nat /\ sqMem[m].veto = sqTask.ns[m].veto
        BY <1>6, <1>8
      <4> QED
        BY <4>1
    <3>3. \A m \in SqNode \ C :
             /\ sqMem[m] = sqTask.ns[m] /\ sqExecs'[m] = sqExecs[m] /\ sqSentBack'[m] = sqSentBack[m]
             /\ sqAllowance'[m] \in Nat /\ sqAllowance'[m] >= sqAllowance[m]
             /\ m \in sqOwed' => m \in sqOwed
             /\ m \in sqTorn => m \in sqTorn'
             /\ Plugged(m) => Plugged(m)'
             /\ sqExits' = 0 /\ Asking(m) => Asking(m)'
             /\ sqExits + Unsaved(m) <= sqExits' + Unsaved(m)'
      <4>1. \A m \in SqNode : m # u => sqExits + Unsaved(m) <= sqExits' + Unsaved(m)'
        BY <1>5, <1>8, <1>12, <2>6
      <4> QED
        BY <1>5, <1>6, <1>8, <1>12, <2>1, <4>1, SMTT(40)
    <3> HIDE DEF C
    <3> QED
      <4>1. sqExits' \in Nat /\ sqExits' >= sqExits
        BY <1>8, <1>12
      <4> QED
        BY <1>8, <2>2, <3>1, <3>2, <3>3, <4>1, FileMoves
  <2>10. RetryBudget(At)' = RetryBudget(n) /\ RetryBudget(sqTarget)' = RetryBudget(u)
    BY <2>4 DEF RetryBudget, MAX_AUTO_RETRY_COUNT
  <2>11. Kept'
    BY <1>5, <1>12, <2>1, <2>4, <2>10 DEF Kept
  <2>12. Accepted'
    BY <1>6, <1>7, <1>12, <2>1, <2>2, <2>4, <2>10 DEF Accepted
  <2>13. Before'
    BY <1>5, <1>12, <2>1, <2>4 DEF Before
  <2>14. Outcomes'
    BY <1>2, <1>5, <2>1, <2>2 DEF Outcomes
  <2> QED
    BY <1>13, <2>3, <2>5, <2>9, <2>11, <2>12, <2>13, <2>14 DEF SeqInv
<1>15. CASE EndsRejecting(n)
  <2>1. PICK v \in {"completed", "failed"} :
          SqCheckpoint([sqMem EXCEPT
            ![n]        = Concluded(@, v),
            ![sqTarget] = [ManualRetry(@) EXCEPT !.trig = "validator_retry"]])
    BY <1>15 DEF EndsRejecting
  <2> DEFINE k == sqMem[n].att + 1
             t == [sqMem[n] EXCEPT !.st = v, !.att = k]
             q == [ManualRetry(sqMem[u]) EXCEPT !.trig = "validator_retry"]
             ns == [sqMem EXCEPT ![n] = t, ![u] = q]
  <2>2. SqCheckpoint(ns) /\ sqCtl' = "reissue" /\ sqTorn' = sqTorn
    <3>1. Concluded(sqMem[n], v) = t
      BY <1>8 DEF SeqState, Concluded
    <3> HIDE DEF t
    <3>2. SqCheckpoint(ns)
      BY <1>4, <2>1, <3>1
    <3> QED
      BY <1>15, <3>2 DEF EndsRejecting, sqLedger
  <2>3. k \in Nat /\ k = sqMem[n].att + 1
    BY <1>8
  <2> HIDE DEF k
  <2>4. /\ t \in SeqState /\ t.st = v /\ t.att = k /\ t.auto = sqMem[n].auto
        /\ t.rej = sqMem[n].rej /\ t.veto = sqMem[n].veto
    BY <1>8, <2>3 DEF SeqState, SeqStatus, NodeStatus
  <2>5. /\ q \in SeqState /\ q.st = "pending" /\ q.att = sqMem[u].att /\ q.auto = 0
        /\ q.rej = sqMem[u].rej /\ q.veto = sqMem[u].veto
    BY <1>8, RetryFacts DEF Alike, SeqTrigger
  <2> HIDE DEF t, q
  <2>6. /\ ns \in [SqNode -> SeqState] /\ ns[n] = t /\ ns[u] = q
        /\ \A m \in SqNode \ {n, u} : ns[m] = sqMem[m]
    BY <1>5, <1>8, <2>4, <2>5
  <2> HIDE DEF ns
  <2>7. /\ sqTask'.st = sqTask.st /\ sqTask'.ns = ns /\ sqMem' = ns
        /\ sqTask' \in [st: SqTaskStatus, ns: [SqNode -> SeqState]]
    BY <1>1, <2>2, <2>6, Saved
  <2>8. SeqTypeOK'
    BY <1>1, <1>12, <2>2, <2>6, <2>7 DEF SeqTypeOK, SqControl
  <2>9. ~Rejecting' /\ InRework' /\ Live' /\ At' = n /\ sqTarget' = u
    BY <1>2, <1>4, <1>12, <2>2 DEF Rejecting, InRework, Live, At
  <2>10. Walk'
    BY <1>3, <1>5, <1>12, <2>2, <2>4, <2>5, <2>6, <2>7, <2>9, Nodes DEF Walk, Within
  <2>11. \A m \in SqNode : Unsaved(m)' = 0
    BY <2>9 DEF Unsaved
  <2>12. OnFile(n)'
    <3>1. Asking(n)' /\ t.st \notin {"running", "waiting_approval"}
      BY <2>4, <2>9 DEF Asking
    <3>2. sqSentBack'[n] <= t.rej + sqExits' + Unsaved(n)'
      <4>1. sqSentBack[n] <= sqMem[n].rej + sqExits /\ sqMem[n].rej \in Nat /\ Unsaved(n)' = 0
        BY <1>6, <1>8, <2>11
      <4> QED
        BY <1>8, <1>12, <2>4, <4>1
    <3>3. Fits(n, t, sqExecs[n], sqAllowance[n])
      <4>1. Due(t) = 0 /\ Due(sqMem[n]) = 0
        BY <1>7, <2>4 DEF Due
      <4> QED
        BY <1>11, <2>4, <4>1 DEF Fits
    <3>4. n \notin sqTorn' => t.att = sqExecs[n]
      BY <1>6, <2>2, <2>3, <2>4
    <3> QED
      BY <1>8, <1>9, <1>12, <2>6, <2>7, <3>1, <3>2, <3>3, <3>4, NodeOnFile
  <2>13. OnFile(u)'
    <3>1. ~Begun(q) /\ q.st \in Unseen /\ q.st \notin {"running", "waiting_approval"}
      BY <2>5 DEF Begun, Unseen
    <3>2. sqSentBack'[u] <= q.rej + sqExits' + Unsaved(u)'
      <4>1. sqSentBack[u] <= sqMem[u].rej + sqExits /\ sqMem[u].rej \in Nat /\ Unsaved(u)' = 0
        BY <1>6, <1>8, <2>11
      <4> QED
        BY <1>8, <1>12, <2>5, <4>1
    <3>3. Fits(u, q, sqExecs[u], sqAllowance[u])
      <4>1. Due(q) = 1
        BY <2>5 DEF Due
      <4>2. /\ sqExecs[u] \in Nat /\ sqAllowance[u] \in Nat
            /\ RetryBudget(u) \in Nat /\ sqExecs[u] + RetryBudget(u) + 1 <= sqAllowance[u]
        BY <1>6, <1>8
      <4> QED
        BY <2>5, <4>1, <4>2 DEF Fits
    <3>4. u \notin sqTorn' => q.att = sqExecs[u]
      BY <1>9, <2>2, <2>5
    <3> QED
      BY <1>8, <1>12, <2>6, <2>7, <3>1, <3>2, <3>3, <3>4, NodeOnFile
  <2>14. File'
    <3> DEFINE C == {n, u}
    <3>1. C \in SUBSET SqNode /\ \A m \in C : OnFile(m)'
      BY <2>12, <2>13
    <3>2. \A m \in SqNode : ns[m].veto >= sqTask.ns[m].veto
      <4>1. \A m \in SqNode : sqMem[m].veto \in Nat /\ sqMem[m].veto = sqTask.ns[m].veto
        BY <1>6, <1>8
      <4>2. \A m \in SqNode : m = n \/ m = u \/ ns[m] = sqMem[m]
        BY <2>6
      <4>3. \A m \in SqNode : ns[m].veto = sqMem[m].veto
        BY <2>4, <2>5, <2>6, <4>2
      <4> QED
        BY <4>1, <4>3
    <3>3. \A m \in SqNode \ C :
             /\ ns[m] = sqTask.ns[m] /\ sqExecs'[m] = sqExecs[m] /\ sqSentBack'[m] = sqSentBack[m]
             /\ sqAllowance'[m] \in Nat /\ sqAllowance'[m] >= sqAllowance[m]
             /\ m \in sqOwed' => m \in sqOwed
             /\ m \in sqTorn => m \in sqTorn'
             /\ Plugged(m) => Plugged(m)'
             /\ sqExits' = 0 /\ Asking(m) => Asking(m)'
             /\ sqExits + Unsaved(m) <= sqExits' + Unsaved(m)'
      <4>1. \A m \in SqNode : m # u => sqExits + Unsaved(m) <= sqExits' + Unsaved(m)'
        BY <1>5, <1>8, <1>12, <2>11
      <4> QED
        BY <1>5, <1>6, <1>8, <1>12, <2>2, <2>6, <4>1, SMTT(40)
    <3> HIDE DEF C
    <3> QED
      <4>1. sqExits' \in Nat /\ sqExits' >= sqExits
        BY <1>8, <1>12
      <4> QED
        BY <2>6, <2>7, <3>1, <3>2, <3>3, <4>1, FileMoves
  <2>15. RetryBudget(At)' = RetryBudget(n)
    BY <2>9 DEF RetryBudget, MAX_AUTO_RETRY_COUNT
  <2>16. Kept'
    BY <1>5, <1>12, <2>4, <2>6, <2>7, <2>9, <2>15 DEF Kept
  <2>17. Accepted'
    BY <2>9 DEF Accepted
  <2>18. Before'
    <3>1. ASSUME NEW j \in 1..(sqPos - 1) PROVE SqAnswered(ns[Order[j]]) \/ Order[j] = u
      BY <1>5, <2>6
    <3> QED
      BY <1>12, <2>7, <2>9, <3>1 DEF Before
  <2>19. Outcomes'
    BY <1>5, <2>2, <2>7 DEF Outcomes
  <2> QED
    BY <1>13, <2>8, <2>10, <2>14, <2>16, <2>17, <2>18, <2>19 DEF SeqInv
<1> QED
  BY <1>14, <1>15

\* The rejected node is executed again.
LEMMA StartReworkSafe ==
  ASSUME SeqInv, StartRework
  PROVE  SeqInv'
<1>1. SeqTypeOK /\ Walk /\ File /\ RejectionsBounded
  BY DEF SeqInv
<1>2. InRework /\ ~Rejecting /\ sqCtl = "reissue"
  BY DEF StartRework, InRework, Rejecting
<1>3. At \in SqNode /\ sqTarget \in SqNode
  BY <1>2, ReworkFacts
<1>4. PICK n \in SqNode, u \in SqNode : n = At /\ u = sqTarget
  BY <1>3
<1> DEFINE p == sqMem[u]
           q == BeginAttempt(p)
           ns == [sqMem EXCEPT ![u] = q]
           e == sqExecs[u] + 1
<1>5. /\ sqTask.st = "running" /\ sqPos \in 1..Len(Order)
      /\ u # n /\ OnFile(n) /\ OnFile(u) /\ sqMem = sqTask.ns
      /\ \A j \in 1..(sqPos - 1) : SqAnswered(sqMem[Order[j]]) \/ Order[j] = u
      /\ \A j \in 1..(sqPos - 1) : Order[j] \in SqNode
      /\ \A m \in SqNode : m # n => ~Asking(m)
      /\ \A m \in SqNode : m \notin {n, u} => ~Plugged(m)
      /\ sqExecs[n] + (RetryBudget(n) - sqMem[n].auto) + 1 <= sqAllowance[n]
  BY <1>2, <1>4, ReworkFacts
<1>6. ~Plugged(n) /\ \A m \in SqNode : Unsaved(m) = 0
  BY <1>2, <1>5 DEF Plugged, Unsaved
<1>7. /\ sqMem \in [SqNode -> SeqState] /\ p \in SeqState /\ p.st = "pending"
      /\ p.auto \in Nat /\ p.rej \in Nat /\ p.veto \in Nat /\ p.att \in Nat
      /\ sqExecs[u] \in Nat /\ sqAllowance[u] \in Nat /\ sqSentBack[u] \in Nat /\ sqExits \in Nat
      /\ e \in Nat /\ e >= 1 /\ e = sqExecs[u] + 1 /\ RetryBudget(u) \in Nat
      /\ sqMem[n].st \in {"completed", "failed"}
  BY <1>1, <1>2, <1>4, Types, Fields, Nodes, SMTT(40) DEF Walk
<1>8. /\ q \in SeqState /\ q.st = "running" /\ q.att = p.att + 1
      /\ q.auto = p.auto /\ q.rej = p.rej /\ q.veto = p.veto
  BY <1>7, BeginFacts DEF Alike
<1> HIDE DEF q
<1>9. /\ ns \in [SqNode -> SeqState] /\ ns[u] = q /\ \A m \in SqNode \ {u} : ns[m] = sqMem[m]
  BY <1>7, <1>8
<1>10. /\ SqCheckpoint(ns) /\ sqExecs' = [sqExecs EXCEPT ![u] = e] /\ sqOwed' = sqOwed \ {u}
       /\ sqCtl' = "rework" /\ sqPos' = sqPos /\ sqTarget' = sqTarget /\ sqOutcome' = sqOutcome
       /\ sqAllowance' = sqAllowance /\ sqSentBack' = sqSentBack /\ sqTorn' = sqTorn
       /\ sqExits' = sqExits /\ sqSent' = sqSent
  BY <1>4 DEF StartRework, q
<1> HIDE DEF p, ns, e
<1>11. /\ sqTask'.st = sqTask.st /\ sqTask'.ns = ns /\ sqMem' = ns
       /\ sqTask' \in [st: SqTaskStatus, ns: [SqNode -> SeqState]]
  BY <1>1, <1>9, <1>10, Saved
<1>12. /\ sqExecs \in [SqNode -> Nat] /\ sqExecs' \in [SqNode -> Nat] /\ sqExecs'[u] = e
       /\ \A m \in SqNode \ {u} : sqExecs'[m] = sqExecs[m]
  BY <1>1, <1>7, <1>10 DEF SeqTypeOK
<1>13. SeqTypeOK'
  BY <1>1, <1>9, <1>10, <1>11, <1>12 DEF SeqTypeOK, SqControl
<1>14. ~Rejecting' /\ InRework' /\ Live' /\ At' = n /\ sqTarget' = u
  BY <1>4, <1>10 DEF Rejecting, InRework, Live, At
<1>15. Walk'
  BY <1>3, <1>5, <1>7, <1>8, <1>9, <1>10, <1>11, <1>14, Nodes, SMTT(40) DEF Walk, Within
<1>16. \A m \in SqNode : Unsaved(m)' = 0
  BY <1>14 DEF Unsaved
<1>17. OnFile(u)'
  <2>1. /\ u \notin sqTorn => p.att = sqExecs[u]
        /\ Fits(u, p, sqExecs[u], sqAllowance[u])
        /\ sqSentBack[u] <= p.rej + sqExits + 0
    BY <1>5, <1>6 DEF OnFile, p
  <2>2. Fits(u, q, e, sqAllowance[u])
    <3>1. Due(p) = 1 /\ Due(q) = 0
      BY <1>7, <1>8 DEF Due
    <3> QED
      BY <1>7, <1>8, <2>1, <3>1 DEF Fits
  <2>3. sqSentBack'[u] <= q.rej + sqExits' + Unsaved(u)'
    BY <1>7, <1>8, <1>10, <1>16, <2>1
  <2>4. Plugged(u)' /\ u \notin sqOwed'
    BY <1>10, <1>14 DEF Plugged
  <2>5. u \notin sqTorn' => q.att = e
    BY <1>7, <1>8, <1>10, <2>1
  <2> QED
    BY <1>7, <1>9, <1>10, <1>11, <1>12, <2>2, <2>3, <2>4, <2>5, NodeOnFile
<1>18. File'
  <2> DEFINE C == {u}
  <2>1. C \in SUBSET SqNode /\ \A m \in C : OnFile(m)'
    BY <1>17
  <2>2. \A m \in SqNode : ns[m].veto >= sqTask.ns[m].veto
    <3>1. \A m \in SqNode : m = u \/ ns[m] = sqMem[m]
      BY <1>9
    <3>2. \A m \in SqNode : sqMem[m].veto \in Nat
      BY <1>7, Fields
    <3>3. \A m \in SqNode : ns[m].veto = sqMem[m].veto
      BY <1>8, <1>9, <3>1 DEF p
    <3> QED
      BY <1>5, <3>2, <3>3
  <2>3. \A m \in SqNode \ C :
           /\ ns[m] = sqTask.ns[m] /\ sqExecs'[m] = sqExecs[m] /\ sqSentBack'[m] = sqSentBack[m]
           /\ sqAllowance'[m] \in Nat /\ sqAllowance'[m] >= sqAllowance[m]
           /\ m \in sqOwed' => m \in sqOwed
           /\ m \in sqTorn => m \in sqTorn'
           /\ Plugged(m) => Plugged(m)'
           /\ sqExits' = 0 /\ Asking(m) => Asking(m)'
           /\ sqExits + Unsaved(m) <= sqExits' + Unsaved(m)'
    <3>1. \A m \in SqNode : sqAllowance[m] \in Nat
      BY <1>1, Types
    <3>2. Asking(n)'
      BY <1>14 DEF Asking
    <3> QED
      BY <1>5, <1>6, <1>7, <1>9, <1>10, <1>12, <1>16, <3>1, <3>2, SMTT(40)
  <2> HIDE DEF C
  <2> QED
    <3>1. sqExits' \in Nat /\ sqExits' >= sqExits
      BY <1>7, <1>10
    <3> QED
      BY <1>9, <1>11, <2>1, <2>2, <2>3, <3>1, FileMoves
<1>19. Accepted'
  BY <1>14 DEF Accepted
<1>20. Kept'
  <2>1. RetryBudget(At)' = RetryBudget(n)
    BY <1>14 DEF RetryBudget, MAX_AUTO_RETRY_COUNT
  <2> QED
    BY <1>5, <1>9, <1>10, <1>11, <1>12, <1>14, <2>1 DEF Kept
<1>21. Before'
  <2>1. ASSUME NEW j \in 1..(sqPos - 1) PROVE SqAnswered(ns[Order[j]]) \/ Order[j] = u
    BY <1>5, <1>9
  <2> QED
    BY <1>10, <1>11, <1>14, <2>1 DEF Before
<1>22. Outcomes'
  BY <1>5, <1>10, <1>11 DEF Outcomes
<1>23. RejectionsBounded'
  BY <1>1, <1>10 DEF RejectionsBounded
<1> QED
  BY <1>13, <1>15, <1>18, <1>19, <1>20, <1>21, <1>22, <1>23 DEF SeqInv

-----------------------------------------------------------------------------
(***************************************************************************)
(* Around the sequence.                                                    *)
(***************************************************************************)
\* Without a runner, and with none that died, a node is running only if a
\* roll-back left it so.
LEMMA RestFacts ==
  ASSUME SeqInv, sqCtl = "rest" \/ (sqCtl = "down" /\ sqTask.st # "running"), NEW m \in SqNode
  PROVE  LET s == sqTask.ns[m]
         IN  /\ m \notin sqTorn => s.att = sqExecs[m]
             /\ Fits(m, s, sqExecs[m], sqAllowance[m])
             /\ s.st # "waiting_approval" /\ (s.st = "running" => Left(sqTask.ns, m))
             /\ sqExits = 0 /\ m \in sqOwed => s.st \in Unseen
<1>1. OnFile(m) /\ Walk
  BY DEF SeqInv, File
<1>2. ~Plugged(m) /\ ~Asking(m)
  BY <1>1 DEF Plugged, Asking, InRework, Rejecting, Walk
<1> QED
  BY <1>1, <1>2 DEF OnFile, Left

\* A launch, and what a restart settles without one.
LEMMA RelaunchStep ==
  ASSUME SeqInv, sqCtl \in {"rest", "down"}, NEW ns \in [SqNode -> SeqState],
         NEW v \in {"running", "retry_waiting", "failed"},
         sqTask' = [st |-> v, ns |-> ns],
         sqExecs' = sqExecs, sqSentBack' = sqSentBack, sqOwed' = sqOwed, sqTorn' = sqTorn,
         sqExits' = sqExits, sqSent' \in Nat, sqAllowance' \in [SqNode -> Nat],
         sqOutcome' = sqOutcome,
         \/ /\ v = "running" /\ sqMem' = ns
            /\ sqCtl' = "next" /\ sqPos' = 1 /\ sqTarget' = NoTarget
         \/ /\ v # "running" /\ sqMem' = sqMem
            /\ sqCtl' = "rest" /\ sqPos' = sqPos /\ sqTarget' = sqTarget
            /\ v = "failed" => SqFound(ns, "failed"),
         \A m \in SqNode :
           /\ ns[m].rej = sqTask.ns[m].rej /\ ns[m].veto = sqTask.ns[m].veto
           /\ m \notin sqTorn => ns[m].att = sqExecs[m]
           /\ Begun(ns[m]) => Begun(sqTask.ns[m])
           /\ Fits(m, ns[m], sqExecs[m], sqAllowance'[m])
           /\ ns[m].st # "waiting_approval" /\ (ns[m].st = "running" => Left(sqTask.ns, m))
           /\ sqExits = 0 /\ m \in sqOwed => ns[m].st \in Unseen
  PROVE  SeqInv'
<1>1. SeqTypeOK /\ File /\ RejectionsBounded
  BY DEF SeqInv
<1>2. sqTask'.ns = ns /\ sqTask'.st = v /\ sqCtl' \in {"next", "rest"}
  OBVIOUS
<1>3. SeqTypeOK'
  <2>1. 1 \in 1..(Len(Order) + 1)
    BY Nodes
  <2>2. sqTask' \in [st: SqTaskStatus, ns: [SqNode -> SeqState]]
    BY DEF SqTaskStatus
  <2> QED
    BY <1>1, <2>1, <2>2 DEF SeqTypeOK, SqControl
<1>4. ~Rejecting' /\ ~InRework' /\ (Live' <=> v = "running")
  BY DEF Rejecting, InRework, Live
<1>5. Walk'
  BY <1>2, <1>4 DEF Walk, Within
<1>6. ASSUME NEW m \in SqNode PROVE OnFile(m)'
  <2>1. OnFile(m)
    BY <1>1 DEF File
  <2>2. Unsaved(m)' = 0 /\ Unsaved(m) = 0
    BY <1>4 DEF Unsaved, Rejecting
  <2>3. /\ sqTask.ns[m] \in SeqState /\ sqExecs[m] \in Nat /\ sqSentBack[m] \in Nat
        /\ sqTask.ns[m].rej \in Nat /\ sqExits \in Nat /\ sqAllowance'[m] \in Nat
        /\ sqTask.ns \in [SqNode -> SeqState]
        /\ \A k \in SqNode : sqTask.ns[k].veto \in Nat
    BY <1>1, Types, Fields
  <2>4. sqSentBack'[m] <= ns[m].rej + sqExits' + Unsaved(m)'
    BY <2>1, <2>2, <2>3 DEF OnFile
  <2>5. Begun(ns[m]) => sqExecs[m] >= 1
    BY <2>1 DEF OnFile
  <2>6. ns[m].st \in {"running", "waiting_approval"} => Left(ns, m)
    <3>1. SUFFICES ASSUME ns[m].st = "running" PROVE Left(ns, m)
      OBVIOUS
    <3>2. \A k \in SqNode : ns[k].veto >= sqTask.ns[k].veto
      BY <2>3
    <3> QED
      BY <2>3, <3>1, <3>2, LeftStays
  <2> QED
    BY <1>2, <2>3, <2>4, <2>5, <2>6, NodeOnFile
<1>7. File'
  BY <1>6 DEF File
<1>8. Kept' /\ Accepted'
  BY <1>4 DEF Kept, Accepted
<1>9. Before'
  BY <1>4 DEF Before
<1>10. Outcomes'
  BY <1>2 DEF Outcomes, Broken, SqFound
<1>11. RejectionsBounded'
  BY <1>1 DEF RejectionsBounded
<1> QED
  BY <1>3, <1>5, <1>7, <1>8, <1>9, <1>10, <1>11 DEF SeqInv

\* The task starts, its retry timer fires, or a person retries or skips a node.
LEMMA RequestsSafe ==
  ASSUME SeqInv, SqRunTask \/ SqTimerFires \/ (\E n \in SqNode : SqRetryNode(n) \/ SqSkipNode(n))
  PROVE  SeqInv'
<1>1. SeqTypeOK
  BY DEF SeqInv
<1>2. /\ sqCtl = "rest" /\ sqExecs' = sqExecs /\ sqSentBack' = sqSentBack /\ sqOwed' = sqOwed
      /\ sqTorn' = sqTorn /\ sqExits' = sqExits /\ sqOutcome' = sqOutcome
      /\ sqCtl' = "next" /\ sqPos' = 1 /\ sqTarget' = NoTarget
  BY DEF SqRunTask, SqTimerFires, SqRetryNode, SqSkipNode, SqMayControl, SqLaunch, sqLedger
<1>3. sqSent' \in Nat
  <2>1. sqSent \in Nat
    BY <1>1 DEF SeqTypeOK
  <2>2. sqSent' = sqSent \/ sqSent' = sqSent + 1
    BY DEF SqRunTask, SqTimerFires, SqRetryNode, SqSkipNode, SqMayControl
  <2> QED
    BY <2>1, <2>2
<1>4. \A m \in SqNode :
        LET s == sqTask.ns[m]
        IN  /\ m \notin sqTorn => s.att = sqExecs[m]
            /\ Fits(m, s, sqExecs[m], sqAllowance[m])
            /\ s.st # "waiting_approval" /\ (s.st = "running" => Left(sqTask.ns, m))
            /\ sqExits = 0 /\ m \in sqOwed => s.st \in Unseen
  BY <1>2, RestFacts
<1>5. /\ sqTask.ns \in [SqNode -> SeqState] /\ sqAllowance \in [SqNode -> Nat]
      /\ \A m \in SqNode : /\ sqTask.ns[m] \in SeqState /\ sqTask.ns[m].auto \in Nat
                           /\ sqExecs[m] \in Nat /\ sqAllowance[m] \in Nat /\ RetryBudget(m) \in Nat
  BY <1>1, Types, Fields, Nodes DEF SeqTypeOK
<1>6. CASE SqRunTask
  <2>1. /\ sqTask' = [st |-> "running", ns |-> sqTask.ns] /\ sqMem' = sqTask.ns
        /\ sqAllowance' = sqAllowance
    BY <1>6 DEF SqRunTask, SqLaunch, sqLedger
  <2> QED
    BY <1>2, <1>3, <1>4, <1>5, <2>1, RelaunchStep
<1>7. CASE SqTimerFires
  <2> DEFINE ns == [m \in SqNode |-> IF sqTask.ns[m].st = "retry_waiting"
                                     THEN ActivateRetry(sqTask.ns[m]) ELSE sqTask.ns[m]]
  <2>1. sqTask' = [st |-> "running", ns |-> ns] /\ sqMem' = ns /\ sqAllowance' = sqAllowance
    BY <1>7 DEF SqTimerFires, SqLaunch, sqLedger
  <2>2. ASSUME NEW m \in SqNode
        PROVE  /\ ns[m] \in SeqState /\ ns[m].rej = sqTask.ns[m].rej
               /\ ns[m].veto = sqTask.ns[m].veto /\ ns[m].att = sqTask.ns[m].att
               /\ Due(ns[m]) = Due(sqTask.ns[m]) /\ ns[m].auto = sqTask.ns[m].auto
               /\ ns[m] = sqTask.ns[m] \/ ns[m].st = "pending"
    <3>1. CASE sqTask.ns[m].st = "retry_waiting"
      <4>1. ns[m] = [sqTask.ns[m] EXCEPT !.st = "pending"]
        BY <3>1 DEF ActivateRetry
      <4> HIDE DEF ns
      <4>2. /\ ns[m] \in SeqState /\ ns[m].st = "pending" /\ ns[m].att = sqTask.ns[m].att
            /\ ns[m].auto = sqTask.ns[m].auto /\ ns[m].rej = sqTask.ns[m].rej
            /\ ns[m].veto = sqTask.ns[m].veto
        BY <1>5, <4>1 DEF SeqState, SeqStatus, NodeStatus
      <4> QED
        BY <3>1, <4>2 DEF Due
    <3>2. CASE sqTask.ns[m].st # "retry_waiting"
      BY <1>5, <3>2
    <3> QED
      BY <3>1, <3>2
  <2>3. ns \in [SqNode -> SeqState]
    <3> DEFINE f(m) == IF sqTask.ns[m].st = "retry_waiting"
                       THEN ActivateRetry(sqTask.ns[m]) ELSE sqTask.ns[m]
    <3>1. \A m \in SqNode : f(m) \in SeqState
      BY <2>2
    <3> HIDE DEF f
    <3>2. [m \in SqNode |-> f(m)] \in [SqNode -> SeqState]
      BY <3>1
    <3> QED
      BY <3>2 DEF f
  <2> HIDE DEF ns
  <2>4. ASSUME NEW m \in SqNode
        PROVE  /\ ns[m].rej = sqTask.ns[m].rej /\ ns[m].veto = sqTask.ns[m].veto
               /\ m \notin sqTorn => ns[m].att = sqExecs[m]
               /\ Begun(ns[m]) => Begun(sqTask.ns[m])
               /\ Fits(m, ns[m], sqExecs[m], sqAllowance'[m])
               /\ ns[m].st # "waiting_approval" /\ (ns[m].st = "running" => Left(sqTask.ns, m))
               /\ sqExits = 0 /\ m \in sqOwed => ns[m].st \in Unseen
    <3>1. Fits(m, ns[m], sqExecs[m], sqAllowance'[m])
      BY <1>4, <2>1, <2>2 DEF Fits
    <3> QED
      BY <1>4, <2>2, <3>1 DEF Begun, Unseen
  <2> QED
    BY <1>2, <1>3, <1>5, <2>1, <2>3, <2>4, RelaunchStep
<1>8. ASSUME NEW n \in SqNode, SqRetryNode(n) PROVE SeqInv'
  <2> DEFINE t == ManualRetry(sqTask.ns[n])
             ns == [sqTask.ns EXCEPT ![n] = t]
             a == sqAllowance[n] + RetryBudget(n) + 1
  <2>1. /\ sqTask' = [st |-> "running", ns |-> ns] /\ sqMem' = ns
        /\ sqAllowance' = [sqAllowance EXCEPT ![n] = a]
    BY <1>8 DEF SqRetryNode, SqLaunch
  <2>2. /\ t \in SeqState /\ t.st = "pending" /\ t.att = sqTask.ns[n].att /\ t.auto = 0
        /\ t.rej = sqTask.ns[n].rej /\ t.veto = sqTask.ns[n].veto
    <3>1. "initial" \in SeqTrigger
      BY DEF SeqTrigger, Trigger
    <3> QED
      BY <1>5, <3>1, RetryFacts DEF Alike
  <2>3. a \in Nat /\ a = sqAllowance[n] + RetryBudget(n) + 1
    BY <1>5
  <2> HIDE DEF t, a
  <2>4. /\ ns \in [SqNode -> SeqState] /\ ns[n] = t /\ \A m \in SqNode \ {n} : ns[m] = sqTask.ns[m]
        /\ sqAllowance' \in [SqNode -> Nat] /\ sqAllowance'[n] = a
        /\ \A m \in SqNode \ {n} : sqAllowance'[m] = sqAllowance[m]
    BY <1>5, <2>1, <2>2, <2>3
  <2> HIDE DEF ns
  <2>5. Fits(n, t, sqExecs[n], a)
    <3>1. sqExecs[n] <= sqAllowance[n]
      BY <1>4, <1>5, FitsMore
    <3>2. Due(t) = 1
      BY <2>2 DEF Due
    <3>3. sqExecs[n] \in Nat /\ sqAllowance[n] \in Nat /\ RetryBudget(n) \in Nat
      BY <1>5
    <3> QED
      BY <2>2, <2>3, <3>1, <3>2, <3>3 DEF Fits
  <2>6. ASSUME NEW m \in SqNode
        PROVE  /\ ns[m].rej = sqTask.ns[m].rej /\ ns[m].veto = sqTask.ns[m].veto
               /\ m \notin sqTorn => ns[m].att = sqExecs[m]
               /\ Begun(ns[m]) => Begun(sqTask.ns[m])
               /\ Fits(m, ns[m], sqExecs[m], sqAllowance'[m])
               /\ ns[m].st # "waiting_approval" /\ (ns[m].st = "running" => Left(sqTask.ns, m))
               /\ sqExits = 0 /\ m \in sqOwed => ns[m].st \in Unseen
    <3>1. CASE m = n
      BY <1>4, <2>2, <2>4, <2>5, <3>1 DEF Begun, Unseen
    <3>2. CASE m # n
      BY <1>4, <2>4, <3>2
    <3> QED
      BY <3>1, <3>2
  <2> QED
    BY <1>2, <1>3, <2>1, <2>4, <2>6, RelaunchStep
<1>9. ASSUME NEW n \in SqNode, SqSkipNode(n) PROVE SeqInv'
  <2> DEFINE t == [sqTask.ns[n] EXCEPT !.st = "skipped"]
             ns == [sqTask.ns EXCEPT ![n] = t]
  <2>1. /\ sqTask' = [st |-> "running", ns |-> ns] /\ sqMem' = ns /\ sqAllowance' = sqAllowance
    BY <1>9 DEF SqSkipNode, SqLaunch, FailureSkip, sqLedger
  <2>2. /\ t \in SeqState /\ t.st = "skipped" /\ t.att = sqTask.ns[n].att
        /\ t.auto = sqTask.ns[n].auto
        /\ t.rej = sqTask.ns[n].rej /\ t.veto = sqTask.ns[n].veto
    <3>1. "skipped" \in SeqStatus
      BY DEF SeqStatus, NodeStatus
    <3> QED
      BY <1>5, <3>1, StatusFacts DEF Alike
  <2> HIDE DEF t
  <2>4. ns \in [SqNode -> SeqState] /\ ns[n] = t /\ \A m \in SqNode \ {n} : ns[m] = sqTask.ns[m]
    BY <1>5, <2>2
  <2> HIDE DEF ns
  <2>5. Fits(n, t, sqExecs[n], sqAllowance[n])
    <3>1. Due(t) = 0 /\ Due(sqTask.ns[n]) \in {0, 1}
      BY <2>2 DEF Due
    <3>2. Due(t) - t.auto <= Due(sqTask.ns[n]) - sqTask.ns[n].auto
      BY <1>5, <2>2, <3>1
    <3>3. Fits(n, sqTask.ns[n], sqExecs[n], sqAllowance[n]) /\ t.auto <= RetryBudget(n)
      BY <1>4, <2>2 DEF Fits
    <3> QED
      BY <1>5, <2>2, <3>2, <3>3, FitsOn
  <2>6. ASSUME NEW m \in SqNode
        PROVE  /\ ns[m].rej = sqTask.ns[m].rej /\ ns[m].veto = sqTask.ns[m].veto
               /\ m \notin sqTorn => ns[m].att = sqExecs[m]
               /\ Begun(ns[m]) => Begun(sqTask.ns[m])
               /\ Fits(m, ns[m], sqExecs[m], sqAllowance'[m])
               /\ ns[m].st # "waiting_approval" /\ (ns[m].st = "running" => Left(sqTask.ns, m))
               /\ sqExits = 0 /\ m \in sqOwed => ns[m].st \in Unseen
    <3>1. CASE m = n
      BY <1>4, <2>1, <2>2, <2>4, <2>5, <3>1 DEF Begun, Unseen
    <3>2. CASE m # n
      BY <1>4, <2>1, <2>4, <3>2
    <3> QED
      BY <3>1, <3>2
  <2> QED
    BY <1>2, <1>3, <1>5, <2>1, <2>4, <2>6, RelaunchStep
<1> QED
  BY <1>6, <1>7, <1>8, <1>9

\* A restart finds the task as the crash left it.
LEMMA RestartSafe ==
  ASSUME SeqInv, SqRestart
  PROVE  SeqInv'
<1> DEFINE ns == SqRecovered
<1>1. SeqTypeOK /\ Walk /\ File /\ Outcomes /\ RejectionsBounded
  BY DEF SeqInv
<1>2. /\ sqCtl = "down" /\ sqExecs' = sqExecs /\ sqSentBack' = sqSentBack /\ sqOwed' = sqOwed
      /\ sqTorn' = sqTorn /\ sqExits' = sqExits /\ sqSent' = sqSent
      /\ sqAllowance' = [n \in SqNode |->
           IF sqTask.st \in SqRecoverable /\ sqTask.ns[n].st = "waiting_approval"
           THEN sqAllowance[n] + 1 ELSE sqAllowance[n]]
  BY DEF SqRestart
<1>3. /\ sqTask.ns \in [SqNode -> SeqState] /\ sqSent \in Nat /\ sqExits \in Nat
      /\ \A m \in SqNode : /\ sqTask.ns[m] \in SeqState /\ sqTask.ns[m].auto \in Nat
                           /\ sqTask.ns[m].att \in Nat /\ sqTask.ns[m].veto \in Nat
                           /\ sqExecs[m] \in Nat /\ sqAllowance[m] \in Nat /\ RetryBudget(m) \in Nat
  BY <1>1, Types, Fields, Nodes DEF SeqTypeOK
<1>4. /\ sqAllowance' \in [SqNode -> Nat]
      /\ \A m \in SqNode : sqAllowance'[m] >= sqAllowance[m]
  <2>1. \A m \in SqNode : sqAllowance'[m] \in Nat /\ sqAllowance'[m] >= sqAllowance[m]
    BY <1>2, <1>3
  <2> QED
    BY <1>2, <2>1
<1>5. CASE sqTask.st \notin SqRecoverable
  <2>1. /\ sqCtl' = "rest" /\ sqTask' = sqTask /\ sqMem' = sqMem /\ sqPos' = sqPos
        /\ sqTarget' = sqTarget /\ sqOutcome' = sqOutcome
    BY <1>5 DEF SqRestart
  <2>2. SeqTypeOK'
    BY <1>1, <1>2, <1>4, <2>1 DEF SeqTypeOK, SqControl
  <2>3. ~Rejecting' /\ ~InRework' /\ ~Live' /\ sqTask.st # "running"
    BY <1>5, <2>1 DEF Rejecting, InRework, Live, SqRecoverable
  <2>4. Walk'
    BY <2>1, <2>3 DEF Walk, Within
  <2>5. File'
    <3> DEFINE C == {}
               ms == sqTask.ns
    <3>1. /\ C \in SUBSET SqNode /\ ms \in [SqNode -> SeqState] /\ sqTask'.ns = ms
          /\ \A m \in C : OnFile(m)'
      BY <1>3, <2>1
    <3>2. \A m \in SqNode : ms[m].veto >= sqTask.ns[m].veto
      BY <1>3
    <3>3. \A m \in SqNode : ~Plugged(m) /\ ~Asking(m) /\ Unsaved(m) = 0 /\ Unsaved(m)' = 0
      BY <1>2, <2>3 DEF Plugged, Asking, Unsaved, InRework, Rejecting
    <3>4. \A m \in SqNode \ C :
             /\ ms[m] = sqTask.ns[m] /\ sqExecs'[m] = sqExecs[m] /\ sqSentBack'[m] = sqSentBack[m]
             /\ sqAllowance'[m] \in Nat /\ sqAllowance'[m] >= sqAllowance[m]
             /\ m \in sqOwed' => m \in sqOwed
             /\ m \in sqTorn => m \in sqTorn'
             /\ Plugged(m) => Plugged(m)'
             /\ sqExits' = 0 /\ Asking(m) => Asking(m)'
             /\ sqExits + Unsaved(m) <= sqExits' + Unsaved(m)'
      BY <1>2, <1>3, <1>4, <3>3
    <3> HIDE DEF C, ms
    <3> QED
      <4>1. sqExits' \in Nat /\ sqExits' >= sqExits
        BY <1>2, <1>3
      <4> QED
        BY <3>1, <3>2, <3>4, <4>1, FileMoves
  <2>6. Kept' /\ Accepted' /\ Before'
    BY <2>3 DEF Kept, Accepted, Before
  <2>7. Outcomes'
    BY <1>1, <2>1 DEF Outcomes, Broken, SqFound, Left
  <2>8. RejectionsBounded'
    BY <1>1, <1>2 DEF RejectionsBounded
  <2> QED
    BY <2>2, <2>4, <2>5, <2>6, <2>7, <2>8 DEF SeqInv
<1>6. CASE sqTask.st \in SqRecoverable
  <2>1. ASSUME NEW m \in SqNode
        PROVE  LET s == sqTask.ns[m]
                   t == ns[m]
               IN  /\ t \in SeqState /\ Alike(s, t)
                   /\ s.st \notin {"running", "waiting_approval"} => t = s
                   /\ s.att >= 1 => t.att = s.att
                   /\ s.st = "running" =>
                        /\ t.st \in {"retry_waiting", "skipped", "failed"}
                        /\ t.st = "retry_waiting" => s.auto < RetryBudget(m) /\ t.auto = s.auto + 1
                        /\ t.st # "retry_waiting" => t.auto = s.auto
                   /\ s.st = "waiting_approval" => t.st = "pending" /\ t.auto = s.auto
    <3>1. ns[m] = RecoverNode(m, sqTask.ns[m])
      BY DEF SqRecovered
    <3> QED
      BY <1>3, <3>1, RecoverFacts
  <2>2. ns \in [SqNode -> SeqState]
    <3>1. \A m \in SqNode : RecoverNode(m, sqTask.ns[m]) \in SeqState
      BY <1>3, RecoverFacts
    <3> QED
      BY <3>1 DEF SqRecovered
  <2> HIDE DEF ns
  <2>3. ASSUME NEW m \in SqNode
        PROVE  /\ ns[m].rej = sqTask.ns[m].rej /\ ns[m].veto = sqTask.ns[m].veto
               /\ m \notin sqTorn => ns[m].att = sqExecs[m]
               /\ Begun(ns[m]) => Begun(sqTask.ns[m])
               /\ Fits(m, ns[m], sqExecs[m], sqAllowance'[m])
               /\ ns[m].st # "waiting_approval" /\ (ns[m].st = "running" => Left(sqTask.ns, m))
               /\ sqExits = 0 /\ m \in sqOwed => ns[m].st \in Unseen
    <3> DEFINE s == sqTask.ns[m]
               t == ns[m]
    <3>1. /\ t \in SeqState /\ t.rej = s.rej /\ t.veto = s.veto
          /\ s.st \notin {"running", "waiting_approval"} => t = s
          /\ s.att >= 1 => t.att = s.att
          /\ s.st = "running" =>
               /\ t.st \in {"retry_waiting", "skipped", "failed"}
               /\ t.st = "retry_waiting" => s.auto < RetryBudget(m) /\ t.auto = s.auto + 1
               /\ t.st # "retry_waiting" => t.auto = s.auto
          /\ s.st = "waiting_approval" => t.st = "pending" /\ t.auto = s.auto
      BY <2>1 DEF Alike
    <3>2. ~Asking(m)
      BY <1>2 DEF Asking, InRework, Rejecting
    <3>3. /\ m \notin sqTorn => s.att = sqExecs[m]
          /\ Begun(s) => sqExecs[m] >= 1
          /\ Fits(m, s, sqExecs[m], sqAllowance[m])
          /\ sqExits = 0 /\ m \in sqOwed => s.st \in Unseen
      BY <1>1, <3>2 DEF File, OnFile
    <3>4. /\ s \in SeqState /\ s.auto \in Nat /\ s.att \in Nat
          /\ sqExecs[m] \in Nat /\ sqAllowance[m] \in Nat /\ RetryBudget(m) \in Nat
          /\ sqAllowance'[m] \in Nat /\ sqAllowance'[m] >= sqAllowance[m]
          /\ s.st = "waiting_approval" => sqAllowance'[m] = sqAllowance[m] + 1
      BY <1>2, <1>3, <1>4, <1>6
    <3> HIDE DEF s, t
    <3>5. CASE s.st = "running"
      <4>1. Begun(s) /\ t.st \notin {"running", "waiting_approval", "completed"}
        BY <3>1, <3>5 DEF Begun
      <4>2. m \notin sqTorn => t.att = sqExecs[m]
        BY <3>1, <3>3, <4>1
      <4>3. ~(sqExits = 0 /\ m \in sqOwed)
        BY <3>3, <3>5 DEF Unseen
      <4>4. Fits(m, t, sqExecs[m], sqAllowance[m])
        <5>1. Due(s) = 0 /\ Due(t) = (IF t.st = "retry_waiting" THEN 1 ELSE 0)
          BY <3>1, <3>5 DEF Due
        <5>2. s.auto <= RetryBudget(m)
          BY <3>3 DEF Fits
        <5>3. t.auto <= RetryBudget(m) /\ Due(t) - t.auto <= Due(s) - s.auto
          BY <3>1, <3>4, <3>5, <5>1, <5>2
        <5> QED
          BY <3>1, <3>3, <3>4, <5>3, FitsOn
      <4>5. Fits(m, t, sqExecs[m], sqAllowance'[m])
        BY <3>1, <3>4, <4>4, FitsMore
      <4> QED
        BY <3>1, <4>1, <4>2, <4>3, <4>5 DEF s, t, Begun
    <3>6. CASE s.st = "waiting_approval"
      <4>1. Begun(s) /\ t.st = "pending" /\ t.auto = s.auto
        BY <3>1, <3>6 DEF Begun
      <4>2. m \notin sqTorn => t.att = sqExecs[m]
        BY <3>1, <3>3, <4>1
      <4>3. Fits(m, t, sqExecs[m], sqAllowance'[m])
        <5>1. Due(s) = 0 /\ Due(t) = 1
          BY <3>6, <4>1 DEF Due
        <5> QED
          BY <3>3, <3>4, <3>6, <4>1, <5>1 DEF Fits
      <4> QED
        BY <3>1, <4>1, <4>2, <4>3 DEF s, t, Begun, Unseen
    <3>7. CASE s.st \notin {"running", "waiting_approval"}
      <4>1. t = s
        BY <3>1, <3>7
      <4>2. Fits(m, s, sqExecs[m], sqAllowance'[m])
        BY <3>3, <3>4, FitsMore
      <4> QED
        BY <3>3, <3>7, <4>1, <4>2 DEF s, t
    <3> QED
      BY <3>5, <3>6, <3>7
  <2>4. \/ SqLaunch(ns)
        \/ SqSettle("retry_waiting", ns)
        \/ SqSettle("failed", ns) /\ SqFound(ns, "failed")
    BY <1>6 DEF SqRestart, ns
  <2>5. CASE SqLaunch(ns)
    BY <1>2, <1>3, <1>4, <2>2, <2>3, <2>5, RelaunchStep DEF SqLaunch
  <2>6. CASE SqSettle("retry_waiting", ns)
    BY <1>2, <1>3, <1>4, <2>2, <2>3, <2>6, RelaunchStep DEF SqSettle
  <2>7. CASE SqSettle("failed", ns) /\ SqFound(ns, "failed")
    BY <1>2, <1>3, <1>4, <2>2, <2>3, <2>7, RelaunchStep DEF SqSettle
  <2> QED
    BY <2>4, <2>5, <2>6, <2>7
<1> QED
  BY <1>5, <1>6

\* The outcome is persisted, or the process dies: no node state changes.
LEMMA EndingsSafe ==
  ASSUME SeqInv, SqPersist \/ SqCrash
  PROVE  SeqInv'
<1>1. SeqTypeOK /\ Walk /\ File /\ Outcomes /\ RejectionsBounded
  BY DEF SeqInv
<1>2. /\ sqExecs' = sqExecs /\ sqSentBack' = sqSentBack /\ sqOwed' = sqOwed
      /\ sqAllowance' = sqAllowance /\ sqTorn' = sqTorn /\ sqSent' = sqSent
      /\ sqMem' = sqMem /\ sqPos' = sqPos /\ sqTarget' = sqTarget /\ sqOutcome' = sqOutcome
      /\ sqCtl' \in {"rest", "down"}
  BY DEF SqPersist, SqCrash, sqLedger
<1>3. /\ sqTask.ns \in [SqNode -> SeqState] /\ sqExits \in Nat
      /\ \A m \in SqNode : sqTask.ns[m].veto \in Nat /\ sqAllowance[m] \in Nat
      /\ \A m \in SqNode : sqSentBack[m] \in Nat /\ MaxReject[m] \in Nat
  BY <1>1, Types, Fields, Nodes
<1>4. ~Rejecting' /\ ~InRework' /\ ~Live'
  BY <1>2 DEF Rejecting, InRework, Live
<1>5. Kept' /\ Accepted' /\ Before'
  BY <1>4 DEF Kept, Accepted, Before
<1>6. /\ sqTask'.ns = sqTask.ns /\ sqTask' \in [st: SqTaskStatus, ns: [SqNode -> SeqState]]
      /\ sqExits' \in Nat /\ sqExits' >= sqExits
      /\ SqPersist => /\ sqMem = sqTask.ns /\ sqTask'.st = sqOutcome /\ sqCtl' = "rest"
                      /\ sqExits' = sqExits
      /\ SqCrash => sqTask' = sqTask /\ sqCtl' = "down" /\ sqExits' = sqExits + 1
  <2>1. CASE SqPersist
    <3>1. sqMem = sqTask.ns
      BY <1>1, <2>1 DEF SqPersist, Walk, Live, Rejecting
    <3>2. sqTask' = [st |-> sqOutcome, ns |-> sqTask.ns] /\ sqCtl' = "rest" /\ sqExits' = sqExits
          /\ ~SqCrash
      BY <2>1, <3>1 DEF SqPersist, SqCrash
    <3>3. sqOutcome \in SqTaskStatus
      BY <1>1 DEF SeqTypeOK, SqTaskStatus
    <3> QED
      BY <1>3, <3>1, <3>2, <3>3
  <2>2. CASE SqCrash
    <3>1. sqTask' = sqTask /\ sqCtl' = "down" /\ sqExits' = sqExits + 1 /\ ~SqPersist
      BY <2>2 DEF SqPersist, SqCrash
    <3> QED
      BY <1>1, <1>3, <3>1 DEF SeqTypeOK
  <2> QED
    BY <2>1, <2>2
<1>7. SeqTypeOK'
  BY <1>1, <1>2, <1>6 DEF SeqTypeOK, SqControl
<1>8. Walk'
  <2>1. sqCtl' = "rest" => sqTask'.st # "running"
    BY <1>1, <1>6 DEF SeqTypeOK
  <2> QED
    BY <1>2, <1>4, <2>1 DEF Walk, Within
<1>9. File'
  <2> DEFINE C == {}
             ns == sqTask.ns
  <2>1. /\ C \in SUBSET SqNode /\ ns \in [SqNode -> SeqState] /\ sqTask'.ns = ns
        /\ \A m \in C : OnFile(m)'
    BY <1>3, <1>6
  <2>2. \A m \in SqNode : ns[m].veto >= sqTask.ns[m].veto
    BY <1>3
  <2>3. ASSUME NEW m \in SqNode
        PROVE  /\ Plugged(m) => Plugged(m)'
               /\ sqExits' = 0 /\ Asking(m) => Asking(m)'
               /\ sqExits + Unsaved(m) <= sqExits' + Unsaved(m)'
    <3>1. Unsaved(m)' = 0 /\ Unsaved(m) \in {0, 1}
      BY <1>4 DEF Unsaved
    <3>2. CASE SqPersist
      <4>1. ~Plugged(m) /\ ~Asking(m) /\ Unsaved(m) = 0
        BY <3>2 DEF SqPersist, Plugged, Asking, Unsaved, InRework, Rejecting
      <4> QED
        BY <1>3, <1>6, <3>1, <3>2, <4>1
    <3>3. CASE SqCrash
      <4>1. Plugged(m) => sqTask.st = "running"
        BY <1>1 DEF Plugged, Walk, Live
      <4>2. Plugged(m) => Plugged(m)'
        BY <1>6, <3>3, <4>1 DEF Plugged
      <4> QED
        BY <1>3, <1>6, <3>1, <3>3, <4>2
    <3> QED
      BY <3>2, <3>3
  <2>4. \A m \in SqNode \ C :
           /\ ns[m] = sqTask.ns[m] /\ sqExecs'[m] = sqExecs[m] /\ sqSentBack'[m] = sqSentBack[m]
           /\ sqAllowance'[m] \in Nat /\ sqAllowance'[m] >= sqAllowance[m]
           /\ m \in sqOwed' => m \in sqOwed
           /\ m \in sqTorn => m \in sqTorn'
           /\ Plugged(m) => Plugged(m)'
           /\ sqExits' = 0 /\ Asking(m) => Asking(m)'
           /\ sqExits + Unsaved(m) <= sqExits' + Unsaved(m)'
    BY <1>2, <1>3, <2>3
  <2> HIDE DEF C, ns
  <2> QED
    BY <1>6, <2>1, <2>2, <2>4, FileMoves
<1>10. Outcomes'
  <2>1. Broken(sqTask.ns)' <=> Broken(sqTask.ns)
    BY <1>6 DEF Broken, SqFound, Left
  <2>2. CASE SqPersist
    <3>1. sqCtl = "end"
      BY <2>2 DEF SqPersist
    <3> QED
      BY <1>1, <1>6, <2>1, <2>2, <3>1 DEF Outcomes
  <2>3. CASE SqCrash
    BY <1>1, <1>6, <2>1, <2>3 DEF Outcomes
  <2> QED
    BY <2>2, <2>3
<1>11. RejectionsBounded'
  <2>1. SUFFICES ASSUME NEW u \in SqNode, sqSentBack[u] > 0
                 PROVE  \E n \in SqNode : u \in Targets[n] /\ sqSentBack[u] <= MaxReject[n] + sqExits'
    BY <1>2 DEF RejectionsBounded
  <2>2. PICK n \in SqNode : u \in Targets[n] /\ sqSentBack[u] <= MaxReject[n] + sqExits
    BY <1>1, <2>1 DEF RejectionsBounded
  <2>3. sqSentBack[u] <= MaxReject[n] + sqExits'
    <3>1. sqSentBack[u] \in Nat /\ MaxReject[n] \in Nat
      BY <1>3
    <3> QED
      BY <1>3, <1>6, <2>2, <3>1
  <2> QED
    BY <2>2, <2>3
<1> QED
  BY <1>5, <1>7, <1>8, <1>9, <1>10, <1>11 DEF SeqInv

-----------------------------------------------------------------------------
(***************************************************************************)
(* The invariant, and what it says of the sequence.                        *)
(***************************************************************************)
LEMMA InitSeqInv ==
  ASSUME SqInit PROVE SeqInv
<1>1. /\ sqTask.st = "pending" /\ sqTask.ns = [n \in SqNode |-> NewState] /\ sqMem = sqTask.ns
      /\ sqCtl = "rest" /\ sqPos = 1 /\ sqTarget = NoTarget /\ sqOutcome = "failed"
      /\ sqExecs = [n \in SqNode |-> 0]
      /\ sqAllowance = [n \in SqNode |-> RetryBudget(n) + 1]
      /\ sqSentBack = [n \in SqNode |-> 0]
      /\ sqOwed = {} /\ sqTorn = {} /\ sqExits = 0 /\ sqSent = 0
  BY DEF SqInit
<1>2. NewState \in SeqState /\ NewState.st = "pending" /\ NewState.auto = 0 /\ NewState.att = 0
      /\ NewState.rej = 0
  BY DEF NewState, SeqState, SeqStatus, NodeStatus, SeqTrigger, Trigger
<1>3. [n \in SqNode |-> NewState] \in [SqNode -> SeqState]
  BY <1>2
<1>4. SeqTypeOK
  <2>1. [n \in SqNode |-> RetryBudget(n) + 1] \in [SqNode -> Nat]
    <3>1. \A n \in SqNode : RetryBudget(n) + 1 \in Nat
      BY Nodes
    <3> QED
      BY <3>1
  <2>2. [n \in SqNode |-> 0] \in [SqNode -> Nat]
    OBVIOUS
  <2>3. sqTask \in [st: SqTaskStatus, ns: [SqNode -> SeqState]]
    BY <1>3 DEF SqInit, SqTaskStatus
  <2>4. 1 \in 1..(Len(Order) + 1)
    BY Nodes
  <2> QED
    BY <1>1, <1>3, <2>1, <2>2, <2>3, <2>4 DEF SeqTypeOK, SqControl
<1>5. ~Rejecting /\ ~InRework /\ ~Live
  BY <1>1 DEF Rejecting, InRework, Live
<1>6. Walk
  BY <1>1, <1>5 DEF Walk, Within
<1>7. ASSUME NEW n \in SqNode PROVE OnFile(n)
  <2>1. sqTask.ns[n] = NewState /\ sqExecs[n] = 0 /\ sqSentBack[n] = 0
        /\ sqAllowance[n] = RetryBudget(n) + 1 /\ RetryBudget(n) \in Nat
    BY <1>1, Nodes
  <2>2. Fits(n, NewState, 0, RetryBudget(n) + 1)
    <3>1. Due(NewState) = 1
      BY <1>2 DEF Due
    <3> QED
      BY <1>2, <2>1, <3>1 DEF Fits
  <2>3. ~Begun(NewState) /\ NewState.st \notin {"running", "waiting_approval"}
    BY <1>2 DEF Begun
  <2>4. Unsaved(n) = 0
    BY <1>5 DEF Unsaved
  <2> QED
    BY <1>1, <1>2, <2>1, <2>2, <2>3, <2>4 DEF OnFile
<1>8. File
  BY <1>7 DEF File
<1>9. Kept /\ Accepted /\ Before
  BY <1>5 DEF Kept, Accepted, Before
<1>10. Outcomes /\ RejectionsBounded
  BY <1>1 DEF Outcomes, RejectionsBounded
<1> QED
  BY <1>4, <1>6, <1>8, <1>9, <1>10 DEF SeqInv

\* Where nothing moves, the invariant stays.
LEMMA SeqStutter ==
  ASSUME SeqInv, UNCHANGED sqVars
  PROVE  SeqInv'
<1>1. /\ sqTask' = sqTask /\ sqMem' = sqMem /\ sqCtl' = sqCtl /\ sqPos' = sqPos
      /\ sqTarget' = sqTarget /\ sqOutcome' = sqOutcome
      /\ sqExecs' = sqExecs /\ sqAllowance' = sqAllowance /\ sqSentBack' = sqSentBack
      /\ sqOwed' = sqOwed /\ sqTorn' = sqTorn /\ sqExits' = sqExits /\ sqSent' = sqSent
  BY DEF sqVars, sqRunner, sqLedger
<1>2. /\ At' = At /\ Rejecting' = Rejecting /\ InRework' = InRework /\ Live' = Live
  BY <1>1 DEF At, Rejecting, InRework, Live
<1>3. SeqTypeOK' /\ RejectionsBounded'
  BY <1>1 DEF SeqInv, SeqTypeOK, RejectionsBounded
<1>4. Walk' /\ Kept' /\ Before'
  <2>1. RetryBudget(At)' = RetryBudget(At)
    BY <1>2 DEF RetryBudget, MAX_AUTO_RETRY_COUNT
  <2>2. Walk /\ Kept /\ Before
    BY DEF SeqInv
  <2> QED
    BY <1>1, <1>2, <2>1, <2>2 DEF Walk, Kept, Before
<1>5. Accepted'
  <2>1. RetryBudget(sqTarget)' = RetryBudget(sqTarget)
    BY <1>1 DEF RetryBudget, MAX_AUTO_RETRY_COUNT
  <2>2. Accepted
    BY DEF SeqInv
  <2> QED
    BY <1>1, <1>2, <2>1, <2>2 DEF Accepted
<1>6. ASSUME NEW n \in SqNode PROVE OnFile(n)'
  <2>1. OnFile(n)
    BY DEF SeqInv, File
  <2>2. /\ Plugged(n)' = Plugged(n) /\ Asking(n)' = Asking(n) /\ Unsaved(n)' = Unsaved(n)
        /\ Left(sqTask.ns, n)' = Left(sqTask.ns, n)
    BY <1>1, <1>2 DEF Plugged, Asking, Unsaved, Left
  <2>3. Fits(n, sqTask.ns[n], sqExecs[n], sqAllowance[n])' = Fits(n, sqTask.ns[n], sqExecs[n], sqAllowance[n])
    BY <1>1 DEF Fits, Due, RetryBudget, MAX_AUTO_RETRY_COUNT
  <2> QED
    BY <1>1, <2>1, <2>2, <2>3 DEF OnFile, Begun
<1>7. Outcomes'
  <2>1. Outcomes
    BY DEF SeqInv
  <2> QED
    BY <1>1, <2>1 DEF Outcomes, Broken, SqFound, Left
<1> QED
  BY <1>3, <1>4, <1>5, <1>6, <1>7 DEF SeqInv, File

LEMMA SeqStep ==
  ASSUME SeqInv, [SqNext]_sqVars PROVE SeqInv'
<1>1. CASE UNCHANGED sqVars
  BY <1>1, SeqStutter
<1>2. ASSUME NEW n \in SqNode, SqStartNode(n) PROVE SeqInv'
  BY <1>2, StartSafe
<1>3. ASSUME SequenceDone \/ (\E n \in SqNode : PassNode(n) \/ Blocked(n)) PROVE SeqInv'
  BY <1>3, PassingSafe
<1>4. ASSUME NEW n \in SqNode, SqCompletes(n) \/ Approve(n) \/ AwaitApproval(n) PROVE SeqInv'
  BY <1>4, AnswerSafe
<1>5. ASSUME NEW n \in SqNode, SqFails(n) \/ ApprovalFails(n) PROVE SeqInv'
  BY <1>5, FailureSafe
<1>6. ASSUME NEW n \in SqNode, Veto(n) PROVE SeqInv'
  BY <1>6, GiveUpSafe
<1>7. ASSUME SkipDown PROVE SeqInv'
  <2>1. sqCtl = "skipDown" /\ Walk /\ SeqTypeOK
    BY <1>7 DEF SkipDown, SeqInv
  <2>2. At \in SqNode
    BY <2>1, Types DEF Walk, Within
  <2>3. PICK n \in SqNode : n = At
    BY <2>2
  <2> QED
    BY <1>7, <2>3, GiveUpSafe
<1>8. ASSUME NEW n \in SqNode, RollBack(n) PROVE SeqInv'
  BY <1>8, RollBackSafe
<1>9. ASSUME NEW n \in SqNode, NEW u \in SqNode, RejectUpstream(n, u) PROVE SeqInv'
  BY <1>9, RejectSafe
<1>10. ASSUME NEW n \in SqNode, SiblingSaves(n) \/ EndsRejecting(n) PROVE SeqInv'
  BY <1>10, RejectingMoves
<1>11. ASSUME StartRework PROVE SeqInv'
  BY <1>11, StartReworkSafe
<1>12. ASSUME AwaitRework \/ ReworkCompletes \/ ReworkVetoed \/ ReworkFails PROVE SeqInv'
  BY <1>12, ReworkSafe
<1>13. ASSUME SqRunTask \/ SqTimerFires \/ (\E n \in SqNode : SqRetryNode(n) \/ SqSkipNode(n))
       PROVE SeqInv'
  BY <1>13, RequestsSafe
<1>14. ASSUME SqRestart PROVE SeqInv'
  BY <1>14, RestartSafe
<1>15. ASSUME SqPersist \/ SqCrash PROVE SeqInv'
  BY <1>15, EndingsSafe
<1>16. CASE SqSystem
  BY <1>2, <1>3, <1>4, <1>5, <1>7, <1>10, <1>11, <1>12, <1>13, <1>14, <1>15, <1>16 DEF SqSystem
<1>17. CASE SqEnvironment
  BY <1>4, <1>6, <1>8, <1>9, <1>10, <1>12, <1>13, <1>15, <1>17 DEF SqEnvironment
<1> QED
  BY <1>1, <1>16, <1>17 DEF SqNext

LEMMA SeqInvariant == SqSpec => []SeqInv
<1>1. SqInit => SeqInv
  BY InitSeqInv
<1>2. SeqInv /\ [SqNext]_sqVars => SeqInv'
  BY SeqStep
<1> QED
  BY <1>1, <1>2, PTL DEF SqSpec

LEMMA SeqInvImplies ==
  ASSUME SeqInv PROVE SeqTypeOK /\ SequenceSound
<1>1. SeqTypeOK /\ Walk /\ File /\ Outcomes /\ RejectionsBounded
  BY DEF SeqInv
<1>2. AttemptsCounted
  BY <1>1 DEF AttemptsCounted, File, OnFile
<1>3. ExecutionsBounded
  <2>1. ASSUME NEW n \in SqNode PROVE sqExecs[n] <= sqAllowance[n]
    <3>1. Fits(n, sqTask.ns[n], sqExecs[n], sqAllowance[n])
      BY <1>1 DEF File, OnFile
    <3>2. sqTask.ns[n] \in SeqState /\ sqExecs[n] \in Nat /\ sqAllowance[n] \in Nat
      BY <1>1, Types
    <3> QED
      BY <3>1, <3>2, FitsMore
  <2> QED
    BY <2>1 DEF ExecutionsBounded
<1>4. ReworkIsValidated
  <2>1. SUFFICES ASSUME sqExits = 0, sqTask.st = "completed", NEW n \in sqOwed
                 PROVE  sqTask.ns[n].st = "skipped"
    BY DEF ReworkIsValidated, Validated
  <2>2. n \in SqNode
    BY <1>1, <2>1 DEF SeqTypeOK
  <2>3. SqAnswered(sqTask.ns[n])
    BY <1>1, <2>1, <2>2 DEF Outcomes
  <2>4. ~Asking(n)
    BY <1>1, <2>1 DEF Asking, InRework, Rejecting, Walk, Live
  <2>5. sqTask.ns[n].st \in Unseen
    BY <1>1, <2>1, <2>2, <2>4 DEF File, OnFile
  <2> QED
    BY <2>3, <2>5 DEF SqAnswered, Done, Unseen
<1>5. RepairableUnlessRejected
  <2>1. SUFFICES ASSUME sqTask.st = "failed"
                 PROVE  \/ SqFound(sqTask.ns, "failed")
                        \/ SqFound(sqTask.ns, "rejected")
                        \/ \E i \in DOMAIN Order : RolledBack(i)
    BY DEF RepairableUnlessRejected
  <2>2. Broken(sqTask.ns)
    BY <1>1, <2>1 DEF Outcomes
  <2>3. ASSUME NEW n \in SqNode, Left(sqTask.ns, n) PROVE \E i \in DOMAIN Order : RolledBack(i)
    BY <2>3 DEF Left, RolledBack
  <2> QED
    BY <2>2, <2>3 DEF Broken
<1> QED
  BY <1>1, <1>2, <1>3, <1>4, <1>5 DEF SequenceSound, CountsHold

\* Where the runner goes on to the next node, it is the only one to execute.
LEMMA OrderStep ==
  ASSUME SeqInv, SqNext, NEW i \in DOMAIN Order, sqCtl = "next",
         sqExecs'[Order[i]] > sqExecs[Order[i]]
  PROVE  \A j \in 1..(i - 1) : SqAnswered(sqTask'.ns[Order[j]])
<1>1. i \in 1..Len(Order) /\ Order[i] \in SqNode
  BY Nodes
<1>2. SeqTypeOK
  BY DEF SeqInv
<1>3. sqExecs \in [SqNode -> Nat] /\ sqExecs[Order[i]] \in Nat
  BY <1>1, <1>2 DEF SeqTypeOK
<1>4. sqExecs' # sqExecs
  BY <1>3
<1>5. PICK n \in SqNode : SqStartNode(n)
  <2>1. ASSUME NEW n \in SqNode, PassNode(n) \/ Blocked(n) PROVE FALSE
    BY <1>4, <2>1 DEF PassNode, Blocked, sqLedger
  <2>2. ASSUME NEW n \in SqNode, SqCompletes(n) \/ SqFails(n) \/ AwaitApproval(n)
               \/ ApprovalFails(n) \/ EndsRejecting(n) \/ Approve(n) \/ RollBack(n)
               \/ Veto(n) \/ SiblingSaves(n)
        PROVE FALSE
    BY <2>2 DEF SqCompletes, SqFails, AwaitApproval, ApprovalFails, EndsRejecting, Approve,
                RollBack, Veto, SiblingSaves, Here
  <2>3. ~SequenceDone /\ ~SqCrash
    BY <1>4 DEF SequenceDone, SqCrash, sqLedger
  <2>4. ~(StartRework \/ AwaitRework \/ ReworkCompletes \/ ReworkVetoed \/ ReworkFails
          \/ SkipDown \/ SqPersist)
    BY DEF StartRework, AwaitRework, ReworkCompletes, ReworkVetoed, ReworkFails, ReworkEnds,
           ReworkRuns, SkipDown, SqPersist
  <2>5. ~(SqRunTask \/ SqTimerFires \/ SqRestart)
    BY DEF SqRunTask, SqTimerFires, SqRestart
  <2>6. ASSUME NEW n \in SqNode, SqRetryNode(n) \/ SqSkipNode(n) PROVE FALSE
    BY <2>6 DEF SqRetryNode, SqSkipNode, SqMayControl
  <2>7. ASSUME NEW n \in SqNode, NEW u \in SqNode, RejectUpstream(n, u) PROVE FALSE
    BY <2>7 DEF RejectUpstream, Here
  <2> QED
    BY <2>1, <2>2, <2>3, <2>4, <2>5, <2>6, <2>7 DEF SqNext, SqSystem, SqEnvironment
<1>6. \A j \in 1..(sqPos - 1) : SqAnswered(sqTask'.ns[Order[j]])
  BY <1>5, StartSafe
<1>7. Order[i] = n
  BY <1>1, <1>3, <1>5 DEF SqStartNode
<1>8. sqPos \in 1..Len(Order) /\ n = Order[sqPos]
  BY <1>2, <1>5, Types, Nodes DEF SqStartNode, Here
<1>9. i = sqPos
  BY <1>1, <1>7, <1>8, Nodes
<1> QED
  BY <1>6, <1>9

-----------------------------------------------------------------------------
\* Every variable keeps its type, whatever the sequence and the limits.
THEOREM SeqTypes == SqSpec => []SeqTypeOK
<1>1. SeqInv => SeqTypeOK
  BY SeqInvImplies
<1> QED
  BY <1>1, SeqInvariant, PTL

\* Attempts, executions and rejections are counted right, rework is seen again
\* by the node that asked for it unless the process died, and a failed task
\* can be repaired unless a person's rejection left it (execution_flow.py).
THEOREM SequenceIsSound == SqSpec => []SequenceSound
<1>1. SeqInv => SequenceSound
  BY SeqInvImplies
<1> QED
  BY <1>1, SeqInvariant, PTL

\* No step executes the next node of a sequence before everything that
\* precedes it is answered (_execute_node_sequence).
THEOREM SequenceInOrder == SqSpec => OrderKept
<1>1. SeqInv /\ [SqNext]_sqVars =>
        [\A i \in DOMAIN Order :
           sqCtl = "next" /\ sqExecs'[Order[i]] > sqExecs[Order[i]]
             => \A j \in 1..(i - 1) : SqAnswered(sqTask'.ns[Order[j]])]_sqVars
  BY OrderStep
<1> QED
  BY <1>1, SeqInvariant, PTL DEF SqSpec, OrderKept

===============================================================================
