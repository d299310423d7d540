---------------------------- MODULE TaskLifecycle ----------------------------
(***************************************************************************)
(* What a client of the Task API may rely on: the status of a Task and the *)
(* set of nodes that are settled (completed or skipped).  Nothing of the   *)
(* event loop, the retry timer, crashes or recovery is visible here.       *)
(***************************************************************************)
CONSTANT Node

VARIABLES
  status,   \* task.status, or "deleted"
  settled   \* nodes with a final checkpoint

lifecycle == <<status, settled>>

\* Disabled nodes are settled when the task is created.
Init == status = "pending" /\ settled \subseteq Node

\* pending and resume_pending are the only states a runner starts from.
Start == /\ status \in {"pending", "resume_pending"}
         /\ status' = "running"
         /\ UNCHANGED settled

\* Nodes settle one by one while a runner works, never backwards.
Settle == /\ status = "running"
          /\ \E n \in Node \ settled : settled' = settled \cup {n}
          /\ UNCHANGED status

\* A task is completed exactly when nothing is left to do.
Complete == /\ status = "running" /\ settled = Node
            /\ status' = "completed"
            /\ UNCHANGED settled

\* It fails or waits with work left; recovery may settle nodes that are
\* skipped on failure as it decides so.
Interrupt == /\ status = "running"
             /\ status' \in {"failed", "retry_waiting", "resume_pending"}
             /\ settled \subseteq settled' /\ settled' \subseteq Node
             /\ status' # "resume_pending" => settled' # Node

\* It fails for a reason outside the nodes, whatever is left to do.
Abort == /\ status = "running"
         /\ status' = "failed"
         /\ UNCHANGED settled

\* A retry, manual or due, or the skip of one node.
Resume == /\ status \in {"failed", "retry_waiting"}
          /\ status' = "resume_pending"
          /\ \/ UNCHANGED settled
             \/ \E n \in Node \ settled : settled' = settled \cup {n}

Stop == /\ status \in {"running", "retry_waiting", "resume_pending"}
        /\ status' = "stopped"
        /\ UNCHANGED settled

Delete == status # "deleted" /\ status' = "deleted" /\ UNCHANGED settled

Next == Start \/ Settle \/ Complete \/ Interrupt \/ Abort \/ Resume \/ Stop \/ Delete

Spec == Init /\ [][Next]_lifecycle
=============================================================================
