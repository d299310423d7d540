---------------------------- MODULE FailurePolicy ----------------------------
(***************************************************************************)
(* The pure functions of src/src/workflow/failure_policy.py and of the     *)
(* node part of task_recovery.py: what one node's persisted execution      *)
(* state becomes when an attempt begins, ends, is retried, is skipped, or  *)
(* is found interrupted after the process died.                            *)
(*                                                                         *)
(* A node state keeps the four fields that control anything: its status,   *)
(* attempt_count, automatic_retry_count and next_attempt_trigger.  The     *)
(* payload (summary, outputs, session, token ledger, error text) is left   *)
(* out.  A deadline (next_retry_at) is present exactly in retry_waiting,   *)
(* so it needs no field of its own.                                        *)
(***************************************************************************)
EXTENDS Integers

CONSTANTS
  Node,            \* executable nodes of the frozen definition snapshot
  AutoRetryCount,  \* node_def.auto_retry_count
  AutoSkip         \* nodes whose fail_auto_skip is set

MAX_AUTO_RETRY_COUNT == 20

ASSUME PolicyAssumption ==
  /\ AutoRetryCount \in [Node -> Nat]
  /\ AutoSkip \subseteq Node

NodeStatus == {"pending", "running", "waiting_approval", "retry_waiting",
               "completed", "skipped", "failed"}
Trigger    == {"initial", "auto_retry", "manual_retry", "recovery_reissue"}
\* _PENDING_RESUME_TRIGGERS: a pending node with one of them is to be resumed.
ResumeTriggers == {"auto_retry", "manual_retry", "recovery_reissue"}
NodeState  == [st: NodeStatus, att: Nat, auto: Nat, trig: Trigger]

NewNode == [st |-> "pending", att |-> 0, auto |-> 0, trig |-> "initial"]

Done(s)         == s.st \in {"completed", "skipped"}
Controllable(s) == s.st \in {"failed", "retry_waiting"}

(***************************************************************************)
(* Deciding what a failure leads to.                                       *)
(***************************************************************************)
RetryBudget(n) == IF AutoRetryCount[n] < MAX_AUTO_RETRY_COUNT
                  THEN AutoRetryCount[n] ELSE MAX_AUTO_RETRY_COUNT

Bug_CanAutoRetryOffByOne(n, s) == s.st = "failed" /\ s.auto <= RetryBudget(n)

CanAutoRetry(n, s)   == s.st = "failed" /\ s.auto < RetryBudget(n)
ShouldAutoSkip(n, s) == s.st = "failed" /\ n \in AutoSkip /\ ~CanAutoRetry(n, s)

(***************************************************************************)
(* Transitions of one node state.                                          *)
(***************************************************************************)
BeginAttempt(s) == [s EXCEPT !.st = "running", !.att = @ + 1]

\* prepare_node_retry with a deadline (auto) and without one (manual).
AutoRetry(s)   == [s EXCEPT !.st = "retry_waiting", !.auto = @ + 1,
                            !.trig = "auto_retry"]
ManualRetry(s) == [s EXCEPT !.st = "pending", !.auto = 0,
                            !.trig = "manual_retry"]

Bug_RetryStaysWaiting(s) == [s EXCEPT !.st = "retry_waiting"]
ActivateRetry(s) == [s EXCEPT !.st = "pending"]
FailureSkip(s)   == [s EXCEPT !.st = "skipped"]

\* A failed node after the engine applied its policy.
AfterFailure(n, s) ==
  CASE CanAutoRetry(n, s)   -> AutoRetry(s)
    [] ShouldAutoSkip(n, s) -> FailureSkip(s)
    [] OTHER                -> s

(***************************************************************************)
(* What a restarted process makes of a node it finds mid-attempt.          *)
(***************************************************************************)
Interrupted(s) == [s EXCEPT !.st = "failed", !.att = IF @ < 1 THEN 1 ELSE @]
Reissue(s)     == [s EXCEPT !.st = "pending", !.trig = "recovery_reissue"]

Bug_RecoverEverything(n, s) ==
  IF s.st = "waiting_approval" THEN Reissue(Interrupted(s))
                               ELSE AfterFailure(n, Interrupted(s))

RecoverNode(n, s) ==
  CASE s.st = "running"          -> AfterFailure(n, Interrupted(s))
    [] s.st = "waiting_approval" -> Reissue(Interrupted(s))
    [] OTHER                     -> s
=============================================================================
