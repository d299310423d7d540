------------------------------ MODULE MCRunners ------------------------------
(***************************************************************************)
(* What runs tasks, under the fairness it needs: the executors, a pool     *)
(* that grows from one member to two, or shrinks, between starts; the      *)
(* frozen control flow of one task, a gateway with two branches, a loop    *)
(* with a body of two nodes, and an exit; and a sequence of a generator, a *)
(* person's approval of its result and a validator that may send back      *)
(* either.  A behaviour belongs to one of them and the state of the others *)
(* stays as it is.                                                         *)
(***************************************************************************)
EXTENDS ExecutorPool, LoopCursor, NodeSequence

CONSTANTS Parts, \* of "executors", "loop", "sequence"
          m0, m1, west, east, draft, check, done

VARIABLE part

MCPools == {{m0}, {m0, m1}}

MCNode == {west, east, draft, check, done}
MCBody == <<draft, check>>

\* The validator may send back either of the others.
MCOrder == <<draft, check, done>>
MCRejects == [n \in {draft, check, done} |-> IF n = done THEN {draft, check} ELSE {}]
MCMax == [n \in {draft, check, done} |-> 1]

\* The first node retries once; the second is skipped when it fails.
MCRetries == [n \in MCNode |-> IF n = draft THEN 1 ELSE 0]

\* A loop with a condition has no list; where a part may start in several ways the
\* others fix one.
MCInit ==
  /\ part \in Parts /\ Init /\ LpInit /\ SqInit
  /\ lpGiven.kind = "condition" => lpGiven.items = 0
  /\ part # "executors" => takeover = {} /\ recorded = {m0}
  /\ part # "loop" => lpGiven.kind = "items" /\ lpGiven.items = 0

PoolStep(A) == part = "executors" /\ A /\ UNCHANGED <<part, lpVars, sqVars>>
LoopStep(A) == part = "loop" /\ A /\ UNCHANGED <<part, vars, sqVars>>
SequenceStep(A) == part = "sequence" /\ A /\ UNCHANGED <<part, vars, lpVars>>

MCNext ==
  \/ PoolStep(Controller_) \/ (\E p \in Pid : PoolStep(Process(p))) \/ PoolStep(Environment)
  \/ LoopStep(LpSystem) \/ LoopStep(LpEnvironment)
  \/ SequenceStep(SqSystem) \/ SequenceStep(SqEnvironment)

MCVars == <<part, vars, lpVars, sqVars>>

MCSpec ==
  /\ MCInit /\ [][MCNext]_MCVars
  /\ WF_MCVars(PoolStep(Controller_)) /\ \A p \in Pid : WF_MCVars(PoolStep(Process(p)))
  /\ WF_MCVars(LoopStep(LpSystem)) /\ WF_MCVars(SequenceStep(SqSystem))

RunnersTypeOK == PoolTypeOK /\ LoopTypeOK /\ SeqTypeOK

\* OwnedTaskRuns of the executors, LoopSettles of the loop, SequenceSettles of the
\* sequence: one formula, of which each part takes its own, so that TLC builds one
\* behaviour graph.
Owes(t) == CASE part = "loop" -> lpDisk.st \in {"running", "retry_waiting"}
             [] part = "sequence" -> sqTask.st \in SqRecoverable
             [] part = "executors" -> file[t].st \in Recoverable
Content(t) == CASE part = "loop" -> lpDisk.st \in Terminal
                [] part = "sequence" -> sqTask.st \in {"completed", "failed"}
                [] part = "executors" -> runs[t] # {} \/ file[t].st \notin Recoverable
RunsGoOn == \A t \in Task : Owes(t) ~> Content(t)
===============================================================================
