--------------------------- MODULE MCWorkflowTask ---------------------------
(***************************************************************************)
(* Plans on which TLC checks WorkflowTask.  Branches are sets of nodes.    *)
(*   serial:  step 1 runs a, step 2 runs b;                                *)
(*   gateway: step 1 is a gateway with the branches <<a>> and <<b>>;       *)
(*   mixed:   a gateway with <<a, c>> and <<b>>, then step 2 runs d.       *)
(***************************************************************************)
EXTENDS WorkflowTask

CONSTANTS a, b, c, d

Singles == {{n} : n \in Node}
Mixed   == {{a, c}, {b}, {d}}

Owner == [n \in Node |-> CHOOSE x \in Branch : n \in x]
Order == [n \in Node |-> IF n = c THEN 1 ELSE 0]

BySingle == [x \in Branch |-> IF x = {a} THEN 1 ELSE 2]
AllFirst == [x \in Branch |-> 1]
LastIs_d == [x \in Branch |-> IF x = {d} THEN 2 ELSE 1]

OneRetryFor_a == [n \in Node |-> IF n = a THEN 1 ELSE 0]
=============================================================================
