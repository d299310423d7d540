------------------------- MODULE FailurePolicyProofs -------------------------
(***************************************************************************)
(* What each transition of a node state returns, preserves and bounds, for *)
(* every node state: the facts about failure_policy.py that the proofs     *)
(* about tasks cite.                                                       *)
(***************************************************************************)
EXTENDS FailurePolicy, TLAPS

\* Updating the control fields within their types stays in NodeState.
LEMMA Updates ==
  ASSUME NEW s \in NodeState, NEW v \in NodeStatus
  PROVE  /\ [s EXCEPT !.st = v] \in NodeState
         /\ \A x \in Nat : [s EXCEPT !.st = v, !.att = x] \in NodeState
         /\ \A t \in Trigger : [s EXCEPT !.st = v, !.trig = t] \in NodeState
         /\ \A x \in Nat, t \in Trigger :
              [s EXCEPT !.st = v, !.auto = x, !.trig = t] \in NodeState
BY DEF NodeState

\* begin_node_attempt: one more attempt, everything else kept.
LEMMA BeginAttemptFacts ==
  ASSUME NEW s \in NodeState
  PROVE  /\ BeginAttempt(s) \in NodeState
         /\ BeginAttempt(s).st = "running" /\ BeginAttempt(s).att = s.att + 1
         /\ BeginAttempt(s).auto = s.auto /\ BeginAttempt(s).trig = s.trig
<1>1. s.att + 1 \in Nat /\ "running" \in NodeStatus
  BY DEF NodeState, NodeStatus
<1>2. BeginAttempt(s) \in NodeState
  BY <1>1, Updates DEF BeginAttempt
<1> QED
  BY <1>2 DEF BeginAttempt, NodeState

\* prepare_node_retry with a deadline: the budget is charged, no attempt is.
LEMMA AutoRetryFacts ==
  ASSUME NEW s \in NodeState
  PROVE  /\ AutoRetry(s) \in NodeState
         /\ AutoRetry(s).st = "retry_waiting" /\ AutoRetry(s).att = s.att
         /\ AutoRetry(s).auto = s.auto + 1 /\ AutoRetry(s).trig = "auto_retry"
<1>1. s.auto + 1 \in Nat /\ "retry_waiting" \in NodeStatus /\ "auto_retry" \in Trigger
  BY DEF NodeState, NodeStatus, Trigger
<1>2. AutoRetry(s) \in NodeState
  BY <1>1, Updates DEF AutoRetry
<1> QED
  BY <1>2 DEF AutoRetry, NodeState

\* prepare_node_retry for a manual retry: a new failure chain, the same attempts.
LEMMA ManualRetryFacts ==
  ASSUME NEW s \in NodeState
  PROVE  /\ ManualRetry(s) \in NodeState
         /\ ManualRetry(s).st = "pending" /\ ManualRetry(s).att = s.att
         /\ ManualRetry(s).auto = 0 /\ ManualRetry(s).trig = "manual_retry"
<1>1. 0 \in Nat /\ "pending" \in NodeStatus /\ "manual_retry" \in Trigger
  BY DEF NodeStatus, Trigger
<1>2. ManualRetry(s) \in NodeState
  BY <1>1, Updates DEF ManualRetry
<1> QED
  BY <1>2 DEF ManualRetry, NodeState

\* Transitions that change the status alone.
LEMMA StatusFacts ==
  ASSUME NEW s \in NodeState, NEW v \in NodeStatus
  PROVE  /\ [s EXCEPT !.st = v] \in NodeState
         /\ [s EXCEPT !.st = v].st = v /\ [s EXCEPT !.st = v].att = s.att
         /\ [s EXCEPT !.st = v].auto = s.auto /\ [s EXCEPT !.st = v].trig = s.trig
BY DEF NodeState

\* What the policy makes of a failed node: one of three outcomes, and the
\* count of attempts is untouched.
LEMMA AfterFailureFacts ==
  ASSUME NEW n \in Node, NEW s \in NodeState, s.st = "failed"
  PROVE  /\ AfterFailure(n, s) \in NodeState
         /\ AfterFailure(n, s).att = s.att
         /\ AfterFailure(n, s).st \in {"retry_waiting", "skipped", "failed"}
         /\ AfterFailure(n, s).st = "retry_waiting"
              => s.auto < RetryBudget(n) /\ AfterFailure(n, s).auto = s.auto + 1
         /\ AfterFailure(n, s).st # "retry_waiting" => AfterFailure(n, s).auto = s.auto
<1>1. ~(CanAutoRetry(n, s) /\ ShouldAutoSkip(n, s))
  BY DEF ShouldAutoSkip
<1>2. CASE CanAutoRetry(n, s)
  <2>1. AfterFailure(n, s) = AutoRetry(s)
    BY <1>1, <1>2, Zenon DEF AfterFailure
  <2> QED
    BY <2>1, <1>2, AutoRetryFacts DEF CanAutoRetry
<1>3. CASE ShouldAutoSkip(n, s)
  <2>1. AfterFailure(n, s) = FailureSkip(s)
    BY <1>1, <1>3, Zenon DEF AfterFailure
  <2>2. "skipped" \in NodeStatus
    BY DEF NodeStatus
  <2> QED
    BY <2>1, <2>2, StatusFacts DEF FailureSkip
<1>4. CASE ~CanAutoRetry(n, s) /\ ~ShouldAutoSkip(n, s)
  <2>1. AfterFailure(n, s) = s
    BY <1>4, Zenon DEF AfterFailure
  <2> QED
    BY <2>1
<1> QED
  BY <1>2, <1>3, <1>4

\* A node found mid-attempt counts as failed in that attempt.
LEMMA InterruptedFacts ==
  ASSUME NEW s \in NodeState
  PROVE  /\ Interrupted(s) \in NodeState
         /\ Interrupted(s).st = "failed" /\ Interrupted(s).auto = s.auto
         /\ s.att >= 1 => Interrupted(s).att = s.att
<1> DEFINE k == IF s.att < 1 THEN 1 ELSE s.att
<1>1. k \in Nat /\ (s.att >= 1 => k = s.att) /\ "failed" \in NodeStatus
  BY DEF NodeState, NodeStatus
<1>2. Interrupted(s) = [s EXCEPT !.st = "failed", !.att = k]
  BY DEF Interrupted, NodeState
<1> HIDE DEF k
<1>3. \A x \in Nat : [s EXCEPT !.st = "failed", !.att = x] \in NodeState
  BY <1>1, Updates
<1>4. Interrupted(s) \in NodeState
  BY <1>1, <1>2, <1>3
<1> QED
  BY <1>1, <1>2, <1>4 DEF NodeState

\* Recovery leaves nodes that were not mid-attempt alone, and never counts an
\* attempt that was already counted.
LEMMA RecoverNodeFacts ==
  ASSUME NEW n \in Node, NEW s \in NodeState
  PROVE  /\ RecoverNode(n, s) \in NodeState
         /\ s.st \notin {"running", "waiting_approval"} => RecoverNode(n, s) = s
         /\ s.att >= 1 => RecoverNode(n, s).att = s.att
         /\ s.st = "running" =>
              /\ RecoverNode(n, s).st \in {"retry_waiting", "skipped", "failed"}
              /\ RecoverNode(n, s).st = "retry_waiting"
                   => s.auto < RetryBudget(n) /\ RecoverNode(n, s).auto = s.auto + 1
              /\ RecoverNode(n, s).st # "retry_waiting" => RecoverNode(n, s).auto = s.auto
         /\ s.st = "waiting_approval" =>
              RecoverNode(n, s).st = "pending" /\ RecoverNode(n, s).auto = s.auto
<1>1. CASE s.st = "running"
  <2>1. RecoverNode(n, s) = AfterFailure(n, Interrupted(s))
    BY <1>1, Zenon DEF RecoverNode
  <2> QED
    BY <2>1, <1>1, InterruptedFacts, AfterFailureFacts
<1>2. CASE s.st = "waiting_approval"
  <2>1. RecoverNode(n, s) = Reissue(Interrupted(s))
    BY <1>2 DEF RecoverNode
  <2>2. "pending" \in NodeStatus /\ "recovery_reissue" \in Trigger
    BY DEF NodeStatus, Trigger
  <2>3. RecoverNode(n, s) \in NodeState
    <3> DEFINE i == Interrupted(s)
    <3>1. i \in NodeState
      BY InterruptedFacts
    <3> HIDE DEF i
    <3>2. \A t \in Trigger : [i EXCEPT !.st = "pending", !.trig = t] \in NodeState
      BY <3>1, <2>2, Updates
    <3>3. Reissue(i) \in NodeState
      BY <3>2, <2>2 DEF Reissue
    <3> QED
      BY <3>3, <2>1 DEF i
  <2>4. /\ RecoverNode(n, s).st = "pending"
        /\ RecoverNode(n, s).att = Interrupted(s).att
        /\ RecoverNode(n, s).auto = Interrupted(s).auto
    BY <2>1, InterruptedFacts DEF Reissue, NodeState
  <2> QED
    BY <2>3, <2>4, <1>2, InterruptedFacts
<1>3. CASE s.st \notin {"running", "waiting_approval"}
  <2>1. RecoverNode(n, s) = s
    BY <1>3, Zenon DEF RecoverNode
  <2> QED
    BY <2>1, <1>3
<1> QED
  BY <1>1, <1>2, <1>3
=============================================================================
