----------------------------- MODULE LoopSafety ------------------------------
(***************************************************************************)
(* Safety of LoopCursor for every set of branches, body, limit of          *)
(* iterations, retry budget and number of crashes and requests: the cursor *)
(* on disk and the recorded iterations agree, a node that settled in an    *)
(* iteration is not executed again in it, an iteration keeps to its retry  *)
(* budget, and what follows the loop waits for its end.                    *)
(***************************************************************************)
EXTENDS LoopCursor, FailurePolicyProofs, FiniteSetTheorems

-----------------------------------------------------------------------------
(***************************************************************************)
(* The inductive invariant.                                                *)
(***************************************************************************)
\* The runner, when there is one, works on what the file holds, and a plugin
\* runs only under it.
Runner ==
  /\ lpMem = lpDisk
  /\ lpCtl = "rest" => lpDisk.st # "running"
  /\ lpCtl \notin {"rest", "down"} => lpDisk.st = "running"
  /\ lpBusy # None => /\ lpDisk.st = "running" /\ lpCtl \in {"branch", "body", "exit"}
                      /\ lpDisk.ns[lpBusy].st = "running"

\* No approval is awaited here, and a node mid-attempt is the one that runs,
\* or did when the process died.
Attempt(n, s) ==
  /\ s.st # "waiting_approval"
  /\ s.st = "running" => s.att >= 1 /\ (lpBusy = n \/ (lpCtl = "down" /\ lpDisk.st = "running"))

Attempts == \A n \in Node : Attempt(n, lpDisk.ns[n])

Recorded == Len(lpDisk.hist)
Frontier == First + Recorded \* the iteration after the last recorded
Open     == lpDisk.active # None

\* The list is frozen whole before anything is recorded.
Frozen ==
  /\ lpGiven.kind = "items" =>
       IF lpDisk.items = None
       THEN Recorded = 0 /\ lpDisk.phase = "ready"
       ELSE /\ lpDisk.items = lpGiven.items /\ lpDisk.items <= MAX_LOOP_ITERATIONS
            /\ Recorded <= lpDisk.items
  /\ lpGiven.kind = "condition" => lpDisk.items = None /\ Recorded <= MAX_LOOP_ITERATIONS

\* Is i an iteration of the list, or up to the limit?
Within(i) ==
  /\ lpGiven.kind = "items" => lpDisk.items # None /\ i < lpDisk.items
  /\ lpGiven.kind = "condition" => i <= MAX_LOOP_ITERATIONS

\* The loop ended: its list is exhausted, its condition no longer holds, or it
\* ran into the limit.
Over ==
  \/ lpDisk.phase = "completed"
  \/ lpGiven.kind = "items" /\ lpDisk.items = 0

Cursor ==
  /\ lpDisk.hist = [i \in 1..Recorded |-> First + i - 1]
  /\ Frozen
  /\ Open => lpDisk.active = Frontier /\ Within(lpDisk.active)
  /\ Open <=> lpDisk.phase \notin {"ready", "completed"}
  /\ ~Open /\ (lpGiven.kind = "items" \/ lpDisk.phase # "completed")
       => lpDisk.next = Frontier
  /\ lpDisk.phase = "completed" /\ lpGiven.kind = "items" => Recorded = lpDisk.items

Place ==
  /\ lpCtl = "branch" => lpDisk.choice # None
  /\ lpCtl = "body" => Open
  /\ lpCtl = "exit" => Over
  /\ lpDisk.ns[ExitNode].att > 0 => Over
  /\ \A b \in Branches : lpExecs[b][0] > 0 => b = lpDisk.choice

\* The iteration of a node is open: the loop's for its body, always for others.
InIteration(n) == n \in InBody => Open

\* What is settled is over, or is done in the file; of an iteration that is
\* open or recorded nothing done is missing.
Settlement ==
  /\ ~Open => \A n \in InBody : lpDisk.ns[n].st \in {"pending", "completed", "skipped"}
  /\ \A n \in Node, i \in Iteration : <<n, i>> \in lpSettled =>
       \/ n \in InBody /\ i < Frontier
       \/ InIteration(n) /\ i = IterationOnDisk(n) /\ Done(lpDisk.ns[n])
  /\ Open => \A n \in InBody : Done(lpDisk.ns[n]) => <<n, lpDisk.active>> \in lpSettled
  /\ \A n \in InBody, i \in Iteration : First <= i /\ i < Frontier => <<n, i>> \in lpSettled

\* What the current iteration still owes a node fits its allowance; later
\* iterations are untouched.
Owed(s) == IF s.st \in {"pending", "retry_waiting"} THEN 1 ELSE 0

Fits(n, s, executed, allowed) ==
  /\ s.auto <= RetryBudget(n)
  /\ executed + (RetryBudget(n) - s.auto) + Owed(s) <= allowed

Now(n, f) == f[n][IterationOnDisk(n)]

Ledger ==
  \A n \in Node :
    /\ InIteration(n) => Fits(n, lpDisk.ns[n], Now(n, lpExecs), Now(n, lpAllowance))
    /\ \A i \in Iteration : lpExecs[n][i] <= lpAllowance[n][i]
    /\ n \in InBody =>
         \A i \in Iteration : i >= Frontier /\ i # lpDisk.active =>
           lpExecs[n][i] = 0 /\ lpAllowance[n][i] = RetryBudget(n) + 1

LoopInv == LoopTypeOK /\ Runner /\ Attempts /\ Cursor /\ Place /\ Settlement /\ Ledger

-----------------------------------------------------------------------------
(***************************************************************************)
(* What a transition of a node owes.                                       *)
(***************************************************************************)
LEMMA Places ==
  /\ Branches \subseteq Node /\ InBody \subseteq Node /\ ExitNode \in Node
  /\ Branches \cap InBody = {} /\ ExitNode \notin InBody /\ ExitNode \notin Branches
  /\ None \notin Node /\ None \notin Int
  /\ MAX_LOOP_ITERATIONS \in Nat /\ MAX_LOOP_ITERATIONS > 0
  /\ 0 \in Iteration /\ Iteration \subseteq Nat
<1>1. \A i \in DOMAIN Body : Body[i] \in Node
  BY LoopAssumption
<1> QED
  BY <1>1, LoopAssumption DEF InBody, Iteration

LEMMA BudgetNat == ASSUME NEW n \in Node PROVE RetryBudget(n) \in Nat
BY PolicyAssumption DEF RetryBudget, MAX_AUTO_RETRY_COUNT

LEMMA StartFits ==
  ASSUME NEW n \in Node, NEW s \in NodeState, NEW e \in Nat, NEW a \in Nat,
         s.st = "pending", Fits(n, s, e, a)
  PROVE  Fits(n, BeginAttempt(s), e + 1, a)
BY BudgetNat, BeginAttemptFacts DEF Fits, Owed, NodeState

\* Ending an attempt, and finding it interrupted.
LEMMA EndFits ==
  ASSUME NEW n \in Node, NEW s \in NodeState, NEW t \in NodeState, NEW e \in Nat, NEW a \in Nat,
         s.st = "running", Fits(n, s, e, a), t.st # "pending",
         t.st = "retry_waiting" => s.auto < RetryBudget(n) /\ t.auto = s.auto + 1,
         t.st # "retry_waiting" => t.auto = s.auto
  PROVE  Fits(n, t, e, a)
BY BudgetNat DEF Fits, Owed, NodeState

LEMMA SkipFits ==
  ASSUME NEW n \in Node, NEW s \in NodeState, NEW e \in Nat, NEW a \in Nat, Fits(n, s, e, a)
  PROVE  Fits(n, FailureSkip(s), e, a)
<1>1. FailureSkip(s).st = "skipped" /\ FailureSkip(s).auto = s.auto
  BY DEF FailureSkip, NodeState
<1> QED
  BY <1>1, BudgetNat DEF Fits, Owed, NodeState

LEMMA ActivateFits ==
  ASSUME NEW n \in Node, NEW s \in NodeState, NEW e \in Nat, NEW a \in Nat,
         s.st = "retry_waiting", Fits(n, s, e, a)
  PROVE  Fits(n, ActivateRetry(s), e, a)
<1>1. ActivateRetry(s).st = "pending" /\ ActivateRetry(s).auto = s.auto
  BY DEF ActivateRetry, NodeState
<1> QED
  BY <1>1, BudgetNat DEF Fits, Owed, NodeState

LEMMA RetryFits ==
  ASSUME NEW n \in Node, NEW s \in NodeState, NEW e \in Nat, NEW a \in Nat, e <= a
  PROVE  Fits(n, ManualRetry(s), e, a + RetryBudget(n) + 1)
BY BudgetNat, ManualRetryFacts DEF Fits, Owed, NodeState

LEMMA FitsBounds ==
  ASSUME NEW n \in Node, NEW s \in NodeState, NEW e \in Nat, NEW a \in Nat, Fits(n, s, e, a)
  PROVE  e <= a
BY BudgetNat DEF Fits, Owed, NodeState

-----------------------------------------------------------------------------
(***************************************************************************)
(* Steps that leave the cursor in its iteration.                           *)
(***************************************************************************)
LEMMA Types ==
  ASSUME LoopTypeOK
  PROVE  /\ \A n \in Node : lpDisk.ns[n] \in NodeState
         /\ \A n \in Node, i \in Iteration : lpExecs[n][i] \in Nat /\ lpAllowance[n][i] \in Nat
         /\ lpDisk.hist \in Seq(Iteration) /\ Recorded \in Nat /\ First \in {0, 1}
         /\ Frontier \in Nat
         /\ lpDisk.active \in Iteration \cup {None} /\ lpDisk.next \in Nat
         /\ lpDisk.items \in Iteration \cup {None} /\ lpGiven.kind \in Kind
         /\ lpGiven.items \in Iteration
         /\ \A n \in Node : InIteration(n) => IterationOnDisk(n) \in Iteration
<1>1. lpDisk \in LoopTask /\ lpGiven \in [kind: Kind, items: Iteration]
      /\ lpExecs \in [Node -> [Iteration -> Nat]] /\ lpAllowance \in [Node -> [Iteration -> Nat]]
  BY DEF LoopTypeOK
<1>2. /\ lpDisk.ns \in [Node -> NodeState] /\ lpDisk.hist \in Seq(Iteration)
      /\ lpDisk.active \in Iteration \cup {None} /\ lpDisk.next \in Nat
      /\ lpDisk.items \in Iteration \cup {None}
  BY <1>1 DEF LoopTask
<1>3. Recorded \in Nat
  BY <1>2 DEF Recorded
<1>4. First \in {0, 1}
  BY DEF First
<1>5. \A n \in Node : InIteration(n) => IterationOnDisk(n) \in Iteration
  BY <1>2, Places DEF InIteration, Open, IterationOnDisk
<1> QED
  BY <1>1, <1>2, <1>3, <1>4, <1>5 DEF Frontier

LEMMA SameCursor ==
  ASSUME Cursor, UNCHANGED lpGiven, lpDisk'.hist = lpDisk.hist, lpDisk'.items = lpDisk.items,
         lpDisk'.active = lpDisk.active, lpDisk'.next = lpDisk.next,
         lpDisk'.phase = lpDisk.phase
  PROVE  Cursor' /\ Open' = Open /\ Over' = Over
BY DEF Cursor, Recorded, Frontier, First, Open, Frozen, Within, Over

\* Whatever moves nodes forward within their iteration, settles what it ends
\* and keeps the accounts, keeps both.
LEMMA NodesMove ==
  ASSUME LoopInv, LoopTypeOK', UNCHANGED lpGiven,
         lpDisk'.hist = lpDisk.hist, lpDisk'.active = lpDisk.active,
         lpSettled \subseteq lpSettled',
         \A n \in Node : Done(lpDisk.ns[n]) => Done(lpDisk'.ns[n]),
         ~Open => \A n \in InBody : lpDisk'.ns[n].st \in {"pending", "completed", "skipped"},
         Open => \A n \in InBody : Done(lpDisk'.ns[n]) => <<n, lpDisk.active>> \in lpSettled',
         \A n \in Node, i \in Iteration : <<n, i>> \in lpSettled' /\ <<n, i>> \notin lpSettled =>
           InIteration(n) /\ i = IterationOnDisk(n) /\ Done(lpDisk'.ns[n]),
         \A n \in Node : InIteration(n) =>
           Fits(n, lpDisk'.ns[n], Now(n, lpExecs'), Now(n, lpAllowance')),
         \A n \in Node, i \in Iteration : ~(InIteration(n) /\ i = IterationOnDisk(n)) =>
           lpExecs'[n][i] = lpExecs[n][i] /\ lpAllowance'[n][i] = lpAllowance[n][i]
  PROVE  Settlement' /\ Ledger'
<1>1. /\ Open' = Open /\ Frontier' = Frontier /\ First' = First
      /\ \A n \in Node : InIteration(n)' = InIteration(n) /\ IterationOnDisk(n)' = IterationOnDisk(n)
  BY DEF Open, Frontier, Recorded, First, InIteration, IterationOnDisk
<1>2. Settlement /\ Ledger /\ LoopTypeOK
  BY DEF LoopInv
<1>3. Settlement'
  <2>1. \A n \in InBody : n \in Node
    BY Places
  <2>2. ~Open' => \A n \in InBody : lpDisk'.ns[n].st \in {"pending", "completed", "skipped"}
    BY <1>1
  <2>3. Open' => \A n \in InBody : Done(lpDisk'.ns[n]) => <<n, lpDisk'.active>> \in lpSettled'
    BY <1>1
  <2>4. \A n \in Node, i \in Iteration : <<n, i>> \in lpSettled' =>
          \/ n \in InBody /\ i < Frontier
          \/ InIteration(n) /\ i = IterationOnDisk(n) /\ Done(lpDisk'.ns[n])
    BY <1>2 DEF Settlement
  <2>5. \A n \in InBody, i \in Iteration : First <= i /\ i < Frontier => <<n, i>> \in lpSettled'
    BY <1>2 DEF Settlement
  <2> QED
    BY <1>1, <2>1, <2>2, <2>3, <2>4, <2>5, Zenon DEF Settlement, Done
<1>4. Ledger'
  <2>1. ASSUME NEW n \in Node, InIteration(n)
        PROVE  Now(n, lpExecs') <= Now(n, lpAllowance')
    <3>1. lpDisk'.ns[n] \in NodeState /\ IterationOnDisk(n) \in Iteration
          /\ Now(n, lpExecs') \in Nat /\ Now(n, lpAllowance') \in Nat
      <4>1. lpDisk' \in LoopTask /\ lpExecs' \in [Node -> [Iteration -> Nat]]
            /\ lpAllowance' \in [Node -> [Iteration -> Nat]]
        BY DEF LoopTypeOK
      <4>2. lpDisk'.ns[n] \in NodeState
        BY <4>1 DEF LoopTask
      <4>3. IterationOnDisk(n) \in Iteration
        BY <1>2, <2>1, Types
      <4> QED
        BY <4>1, <4>2, <4>3 DEF Now
    <3> QED
      BY <2>1, <3>1, FitsBounds
  <2>2. ASSUME NEW n \in Node, NEW i \in Iteration
        PROVE  lpExecs'[n][i] <= lpAllowance'[n][i]
    BY <1>2, <2>1 DEF Ledger, Now
  <2>3. ASSUME NEW n \in InBody, NEW i \in Iteration, i >= Frontier, i # lpDisk.active
        PROVE  lpExecs'[n][i] = 0 /\ lpAllowance'[n][i] = RetryBudget(n) + 1
    <3>1. n \in Node /\ ~(InIteration(n) /\ i = IterationOnDisk(n))
      BY <2>3, Places DEF IterationOnDisk
    <3> QED
      BY <1>2, <2>3, <3>1 DEF Ledger
  <2>4. ASSUME NEW n \in Node, InIteration(n)'
        PROVE  Fits(n, lpDisk.ns[n], Now(n, lpExecs), Now(n, lpAllowance))'
    BY <1>1, <2>4 DEF Now, Fits, Owed, RetryBudget, MAX_AUTO_RETRY_COUNT
  <2> QED
    BY <1>1, <2>2, <2>3, <2>4 DEF Ledger, RetryBudget, MAX_AUTO_RETRY_COUNT
<1> QED
  BY <1>3, <1>4

LEMMA NodesStay ==
  ASSUME LoopInv, LoopTypeOK', UNCHANGED <<lpGiven, lpExecs, lpAllowance, lpSettled>>,
         lpDisk'.hist = lpDisk.hist, lpDisk'.active = lpDisk.active, lpDisk'.ns = lpDisk.ns
  PROVE  Settlement' /\ Ledger'
<1>1. Settlement /\ Ledger
  BY DEF LoopInv
<1> QED
  BY <1>1, NodesMove DEF Settlement, Ledger, Now

\* A step of the runner between nodes: only the status and its own place.
LEMMA ControlStep ==
  ASSUME LoopInv, NEW v \in TaskStatus,
         UNCHANGED <<lpGiven, lpExecs, lpAllowance, lpSettled, lpSent>>, lpExits' \in Nat,
         lpDisk' = [lpDisk EXCEPT !.st = v], lpMem' = lpDisk', lpBusy' = None,
         lpCtl' \in {"rest", "branch", "loop", "exit", "down"} \cup Outcome,
         lpCtl' = "rest" => v # "running",
         lpCtl' \notin {"rest", "down"} => v = "running",
         (lpBusy = None /\ lpCtl # "down") \/ (lpCtl' = "down" /\ v = "running"),
         lpCtl' = "branch" => lpDisk.choice # None,
         lpCtl' = "exit" => Over
  PROVE  LoopInv'
<1>1. LoopTypeOK /\ Runner /\ Attempts /\ Cursor /\ Place
  BY DEF LoopInv
<1>2. lpDisk \in LoopTask
  BY <1>1 DEF LoopTypeOK
<1>3. /\ lpDisk' \in LoopTask /\ lpDisk'.st = v /\ lpDisk'.ns = lpDisk.ns
      /\ lpDisk'.choice = lpDisk.choice /\ lpDisk'.items = lpDisk.items
      /\ lpDisk'.phase = lpDisk.phase /\ lpDisk'.active = lpDisk.active
      /\ lpDisk'.next = lpDisk.next /\ lpDisk'.hist = lpDisk.hist
  BY <1>2 DEF LoopTask
<1>4. LoopTypeOK'
  BY <1>1, <1>3 DEF LoopTypeOK, Outcome
<1>5. Runner' /\ Attempts'
  BY <1>1, <1>3 DEF Runner, Attempts, Attempt
<1>6. Cursor' /\ Open' = Open /\ Over' = Over
  BY <1>1, <1>3, SameCursor
<1>7. Place'
  BY <1>1, <1>3, <1>6 DEF Place, Outcome
<1>8. Settlement' /\ Ledger'
  BY <1>3, <1>4, NodesStay
<1> QED
  BY <1>4, <1>5, <1>6, <1>7, <1>8 DEF LoopInv

\* A step of a plugin: one node, in its iteration, and nothing else.
LEMMA NodeStep ==
  ASSUME LoopInv, NEW n \in Node, NEW s \in NodeState, SaveNode(n, s),
         InIteration(n), ~Done(lpDisk.ns[n]),
         UNCHANGED <<lpGiven, lpCtl, lpAllowance, lpExits, lpSent>>,
         lpCtl \in {"branch", "body", "exit"}, lpBusy \in {None, n}, lpBusy' \in {None, n},
         s.st # "waiting_approval", s.st = "running" <=> lpBusy' = n,
         s.st = "running" => s.att >= 1,
         lpExecs' \in [Node -> [Iteration -> Nat]],
         Fits(n, s, Now(n, lpExecs'), Now(n, lpAllowance)),
         \A m \in Node, i \in Iteration :
           m # n \/ i # IterationOnDisk(n) => lpExecs'[m][i] = lpExecs[m][i],
         n = ExitNode /\ s.att > 0 => Over,
         \A b \in Branches : lpExecs'[b][0] > 0 => b = lpDisk.choice
  PROVE  LoopInv'
<1>1. LoopTypeOK /\ Runner /\ Attempts /\ Cursor /\ Place /\ Settlement /\ Ledger
  BY DEF LoopInv
<1>2. lpDisk \in LoopTask /\ lpMem = lpDisk
  BY <1>1 DEF LoopTypeOK, Runner
<1>3. /\ lpDisk' = [lpDisk EXCEPT !.ns[n] = s] /\ lpMem' = lpDisk'
      /\ lpSettled' = IF Done(s) THEN lpSettled \cup {<<n, IterationOnDisk(n)>>} ELSE lpSettled
  BY <1>2 DEF SaveNode, Save, IterationOf, IterationOnDisk
<1>4. /\ lpDisk' \in LoopTask /\ lpDisk'.st = lpDisk.st
      /\ lpDisk'.ns = [lpDisk.ns EXCEPT ![n] = s] /\ lpDisk.ns \in [Node -> NodeState]
      /\ lpDisk'.choice = lpDisk.choice /\ lpDisk'.items = lpDisk.items
      /\ lpDisk'.phase = lpDisk.phase /\ lpDisk'.active = lpDisk.active
      /\ lpDisk'.next = lpDisk.next /\ lpDisk'.hist = lpDisk.hist
  BY <1>2, <1>3 DEF LoopTask
<1>5. lpDisk'.ns[n] = s /\ \A m \in Node \ {n} : lpDisk'.ns[m] = lpDisk.ns[m]
  BY <1>4
<1>6. IterationOnDisk(n) \in Iteration
  BY <1>1, Types
<1>7. LoopTypeOK'
  <2>1. lpSettled' \subseteq Node \X Iteration
    BY <1>1, <1>3, <1>6 DEF LoopTypeOK
  <2> QED
    BY <1>1, <1>3, <1>4, <2>1 DEF LoopTypeOK
<1>8. Runner'
  BY <1>1, <1>3, <1>4, <1>5, Places DEF Runner
<1>9. Attempts'
  BY <1>1, <1>5, Places DEF Attempts, Attempt, Runner
<1>10. Cursor' /\ Open' = Open /\ Over' = Over
  BY <1>1, <1>4, SameCursor
<1>11. Place'
  <2>1. lpDisk'.ns[ExitNode].att > 0 => Over
    BY <1>1, <1>5, Places DEF Place
  <2> QED
    BY <1>1, <1>4, <1>10, <2>1 DEF Place
<1>12. Settlement' /\ Ledger'
  <2>1. \A m \in Node : Done(lpDisk.ns[m]) => Done(lpDisk'.ns[m])
    BY <1>5
  <2>2. ~Open => \A m \in InBody : lpDisk'.ns[m].st \in {"pending", "completed", "skipped"}
    BY <1>1, <1>5, Places DEF Settlement, InIteration
  <2>3. Open => \A m \in InBody : Done(lpDisk'.ns[m]) => <<m, lpDisk.active>> \in lpSettled'
    BY <1>1, <1>3, <1>5, Places DEF Settlement, IterationOnDisk
  <2>4. \A m \in Node, i \in Iteration : <<m, i>> \in lpSettled' /\ <<m, i>> \notin lpSettled =>
          InIteration(m) /\ i = IterationOnDisk(m) /\ Done(lpDisk'.ns[m])
    BY <1>3, <1>5
  <2>5. \A m \in Node : InIteration(m) =>
          Fits(m, lpDisk'.ns[m], Now(m, lpExecs'), Now(m, lpAllowance'))
    <3>1. ASSUME NEW m \in Node, InIteration(m), m # n
          PROVE  Now(m, lpExecs') = Now(m, lpExecs)
      <4>1. IterationOnDisk(m) \in Iteration
        BY <1>1, <3>1, Types
      <4> QED
        BY <3>1, <4>1 DEF Now
    <3>2. Now(n, lpAllowance') = Now(n, lpAllowance)
          /\ \A m \in Node : Now(m, lpAllowance') = Now(m, lpAllowance)
      BY DEF Now
    <3> QED
      BY <1>1, <1>5, <3>1, <3>2 DEF Ledger
  <2>6. \A m \in Node, i \in Iteration : ~(InIteration(m) /\ i = IterationOnDisk(m)) =>
          lpExecs'[m][i] = lpExecs[m][i] /\ lpAllowance'[m][i] = lpAllowance[m][i]
    OBVIOUS
  <2>7. lpSettled \subseteq lpSettled'
    BY <1>3
  <2> QED
    BY <1>4, <1>7, <2>1, <2>2, <2>3, <2>4, <2>5, <2>6, <2>7, NodesMove
<1> QED
  BY <1>7, <1>8, <1>9, <1>10, <1>11, <1>12 DEF LoopInv

-----------------------------------------------------------------------------
(***************************************************************************)
(* The nodes.                                                              *)
(***************************************************************************)
\* Where a node can be started: the selected branch, the body of an open
\* iteration, the exit of a loop that is over.
LEMMA AtNodeFacts ==
  ASSUME LoopInv, NEW n \in Node, AtNode(n)
  PROVE  /\ lpCtl \in {"branch", "body", "exit"} /\ ~Done(lpDisk.ns[n])
         /\ n \in InBody <=> lpCtl = "body"
         /\ n \in Branches => n = lpDisk.choice
         /\ n = ExitNode => Over
         /\ InIteration(n)
<1>1. Runner /\ Place /\ LoopTypeOK
  BY DEF LoopInv
<1>2. lpMem = lpDisk /\ lpDisk \in LoopTask
  BY <1>1 DEF Runner, LoopTypeOK
<1>3. PICK i \in DOMAIN Line : n = Line[i] /\ ~Done(lpMem.ns[n])
  BY DEF AtNode
<1>4. CASE lpCtl = "branch"
  <2>1. n = lpDisk.choice
    BY <1>2, <1>3, <1>4 DEF Line
  <2>2. n \in Branches
    BY <1>2, <2>1, Places DEF LoopTask
  <2> QED
    BY <1>2, <1>3, <1>4, <2>1, <2>2, Places DEF InIteration
<1>5. CASE lpCtl = "body"
  <2>1. Line = Body
    BY <1>5 DEF Line
  <2>2. n \in InBody
    BY <1>3, <2>1 DEF InBody
  <2> QED
    BY <1>1, <1>2, <1>3, <1>5, <2>2, Places DEF InIteration, Place
<1>6. CASE lpCtl = "exit"
  <2>1. n = ExitNode
    BY <1>3, <1>6 DEF Line
  <2> QED
    BY <1>1, <1>2, <1>3, <1>6, <2>1, Places DEF InIteration, Place
<1>7. CASE lpCtl \notin {"branch", "body", "exit"}
  <2>1. Line = <<>>
    BY <1>7 DEF Line
  <2> QED
    BY <1>3, <2>1
<1> QED
  BY <1>4, <1>5, <1>6, <1>7

LEMMA StartSafe ==
  ASSUME LoopInv, NEW n \in Node, StartNode(n)
  PROVE  LoopInv' /\ <<n, IterationOnDisk(n)>> \notin lpSettled
<1> DEFINE old == lpDisk.ns[n]
           s == BeginAttempt(old)
           i == IterationOnDisk(n)
<1>1. LoopTypeOK /\ Runner /\ Cursor /\ Settlement /\ Ledger /\ Place
  BY DEF LoopInv
<1>2. lpMem = lpDisk /\ old \in NodeState
  BY <1>1, Types DEF Runner
<1>3. /\ lpCtl \in {"branch", "body", "exit"} /\ ~Done(old) /\ InIteration(n)
      /\ n \in Branches => n = lpDisk.choice
      /\ n = ExitNode => Over
  BY AtNodeFacts DEF StartNode
<1>4. /\ old.st = "pending" /\ SaveNode(n, s) /\ lpBusy = None /\ lpBusy' = n
      /\ lpExecs' = [lpExecs EXCEPT ![n][i] = @ + 1]
      /\ UNCHANGED <<lpGiven, lpCtl, lpAllowance, lpExits, lpSent>>
  BY <1>2 DEF StartNode, IterationOf, IterationOnDisk
<1>5. s \in NodeState /\ s.st = "running" /\ s.att >= 1
  BY <1>2, BeginAttemptFacts DEF NodeState
<1>6. i \in Iteration /\ Now(n, lpExecs) \in Nat /\ Now(n, lpAllowance) \in Nat
  BY <1>1, <1>3, Types DEF Now
<1>7. lpExecs \in [Node -> [Iteration -> Nat]]
  BY <1>1 DEF LoopTypeOK
<1>8. /\ lpExecs' \in [Node -> [Iteration -> Nat]]
      /\ Now(n, lpExecs') = Now(n, lpExecs) + 1
      /\ \A m \in Node, j \in Iteration : m # n \/ j # i => lpExecs'[m][j] = lpExecs[m][j]
  <2> HIDE DEF i
  <2>1. lpExecs[n] \in [Iteration -> Nat] /\ lpExecs[n][i] \in Nat
    BY <1>6, <1>7
  <2>2. [lpExecs[n] EXCEPT ![i] = @ + 1] \in [Iteration -> Nat]
    BY <1>6, <2>1
  <2>3. lpExecs' = [lpExecs EXCEPT ![n] = [lpExecs[n] EXCEPT ![i] = @ + 1]]
    BY <1>4
  <2>4. lpExecs'[n][i] = lpExecs[n][i] + 1
    BY <1>6, <1>7, <2>1, <2>3
  <2> QED
    BY <1>6, <1>7, <2>1, <2>2, <2>3, <2>4 DEF i, Now
<1>9. Fits(n, s, Now(n, lpExecs'), Now(n, lpAllowance))
  <2>1. Fits(n, old, Now(n, lpExecs), Now(n, lpAllowance))
    BY <1>1, <1>3 DEF Ledger
  <2> QED
    BY <1>2, <1>4, <1>6, <1>8, <2>1, StartFits
<1>10. LoopInv'
  <2> HIDE DEF s, i
  <2>1. n # None
    BY Places
  <2>2. \A m \in Node, j \in Iteration :
          m # n \/ j # IterationOnDisk(n) => lpExecs'[m][j] = lpExecs[m][j]
    BY <1>8 DEF i
  <2> QED
    <3>1. \A b \in Branches : lpExecs'[b][0] > 0 => b = lpDisk.choice
      BY <1>1, <1>3, <1>8, Places DEF Place
    <3> QED
      BY <1>3, <1>4, <1>5, <1>8, <1>9, <2>1, <2>2, <3>1, NodeStep
<1>11. <<n, i>> \notin lpSettled
  <2>1. n \in InBody => i = Frontier
    BY <1>1, <1>3 DEF Cursor, IterationOnDisk, InIteration
  <2>2. Frontier \in Nat
    BY <1>1, Types
  <2> QED
    BY <1>1, <1>3, <1>6, <2>1, <2>2 DEF Settlement
<1> QED
  BY <1>10, <1>11

LEMMA EndSafe ==
  ASSUME LoopInv, NEW n \in Node, Completes(n) \/ Fails(n)
  PROVE  LoopInv'
<1> DEFINE old == lpDisk.ns[n]
<1>1. LoopTypeOK /\ Runner /\ Attempts /\ Settlement /\ Ledger /\ Place
  BY DEF LoopInv
<1>2. lpMem = lpDisk /\ old \in NodeState /\ n # None
  BY <1>1, Types, Places DEF Runner
<1>3. /\ lpBusy = n /\ old.st = "running" /\ lpCtl \in {"branch", "body", "exit"} /\ lpBusy' = None
      /\ UNCHANGED <<lpGiven, lpCtl, lpExecs, lpAllowance, lpExits, lpSent>>
  BY <1>1, <1>2 DEF Runner, Completes, Fails
<1>4. PICK s \in NodeState :
        /\ SaveNode(n, s) /\ s.att = old.att
        /\ s.st \in {"completed", "retry_waiting", "skipped", "failed"}
        /\ s.st = "retry_waiting" => old.auto < RetryBudget(n) /\ s.auto = old.auto + 1
        /\ s.st # "retry_waiting" => s.auto = old.auto
  <2>1. CASE Completes(n)
    <3>1. "completed" \in NodeStatus
      BY DEF NodeStatus
    <3> QED
      BY <1>2, <2>1, <3>1, StatusFacts DEF Completes
  <2>2. CASE Fails(n)
    <3> DEFINE f == [old EXCEPT !.st = "failed"]
    <3>1. "failed" \in NodeStatus
      BY DEF NodeStatus
    <3>2. f \in NodeState /\ f.st = "failed" /\ f.att = old.att /\ f.auto = old.auto
      BY <1>2, <3>1, StatusFacts
    <3>3. SaveNode(n, AfterFailure(n, f))
      BY <1>2, <2>2 DEF Fails
    <3> HIDE DEF f
    <3>4. /\ AfterFailure(n, f) \in NodeState /\ AfterFailure(n, f).att = f.att
          /\ AfterFailure(n, f).st \in {"retry_waiting", "skipped", "failed"}
          /\ AfterFailure(n, f).st = "retry_waiting"
               => f.auto < RetryBudget(n) /\ AfterFailure(n, f).auto = f.auto + 1
          /\ AfterFailure(n, f).st # "retry_waiting" => AfterFailure(n, f).auto = f.auto
      BY <3>2, AfterFailureFacts
    <3> QED
      BY <3>2, <3>3, <3>4
  <2> QED
    BY <2>1, <2>2
<1>5. InIteration(n)
  BY <1>1, <1>3 DEF Settlement, InIteration
<1>6. ~Done(old) /\ s.st # "running" /\ s.st # "waiting_approval"
  BY <1>3, <1>4 DEF Done
<1>7. Fits(n, s, Now(n, lpExecs'), Now(n, lpAllowance))
  <2>1. Fits(n, old, Now(n, lpExecs), Now(n, lpAllowance))
    BY <1>1, <1>5 DEF Ledger
  <2>2. Now(n, lpExecs) \in Nat /\ Now(n, lpAllowance) \in Nat /\ Now(n, lpExecs') = Now(n, lpExecs)
    BY <1>1, <1>3, <1>5, Types DEF Now
  <2>3. s.st # "pending"
    BY <1>4
  <2> QED
    BY <1>2, <1>3, <1>4, <2>1, <2>2, <2>3, EndFits
<1>8. n = ExitNode /\ s.att > 0 => Over
  BY <1>1, <1>3, <1>4 DEF Attempts, Attempt, Place
<1>9. \A b \in Branches : lpExecs'[b][0] > 0 => b = lpDisk.choice
  BY <1>1, <1>3 DEF Place
<1>10. lpExecs' \in [Node -> [Iteration -> Nat]] /\ lpBusy \in {None, n} /\ lpBusy' \in {None, n}
  BY <1>1, <1>3 DEF LoopTypeOK
<1>11. \A m \in Node, i \in Iteration : m # n \/ i # IterationOnDisk(n) => lpExecs'[m][i] = lpExecs[m][i]
  BY <1>3
<1>12. s.st = "running" <=> lpBusy' = n
  BY <1>2, <1>3, <1>6
<1>13. SaveNode(n, s) /\ ~Done(lpDisk.ns[n])
  BY <1>4, <1>6
<1> HIDE DEF old
<1> QED
  BY <1>3, <1>5, <1>6, <1>7, <1>8, <1>9, <1>10, <1>11, <1>12, <1>13, NodeStep

\* The line stops at a node that failed or waits.
LEMMA StopsSafe ==
  ASSUME LoopInv, NEW n \in Node, Stops(n)
  PROVE  LoopInv'
<1>1. LoopTypeOK /\ Runner /\ Attempts /\ Cursor /\ Place
  BY DEF LoopInv
<1>2. lpMem = lpDisk /\ lpDisk \in LoopTask /\ lpDisk.st \in TaskStatus
  BY <1>1 DEF Runner, LoopTypeOK, LoopTask
<1>3. lpCtl \in {"branch", "body", "exit"}
  BY AtNodeFacts DEF Stops
<1>4. /\ lpBusy = None /\ lpBusy' = None /\ lpCtl' = lpDisk.ns[n].st
      /\ lpCtl' \in {"failed", "retry_waiting"} /\ lpDisk.st = "running"
      /\ UNCHANGED <<lpGiven, lpExecs, lpAllowance, lpSettled, lpExits, lpSent>>
  BY <1>1, <1>2, <1>3 DEF Stops, Rest, Runner
<1>5. CASE lpCtl # "body"
  <2>1. lpDisk' = lpDisk /\ lpMem' = lpDisk'
    BY <1>2, <1>5 DEF Stops, Save
  <2>2. lpDisk' = [lpDisk EXCEPT !.st = lpDisk.st]
    BY <1>2, <2>1 DEF LoopTask
  <2> QED
    BY <1>1, <1>2, <1>3, <1>4, <2>1, <2>2, ControlStep DEF LoopTypeOK, Outcome
<1>6. CASE lpCtl = "body"
  <2> DEFINE ph == lpDisk.ns[n].st
  <2>1. lpDisk' = [lpDisk EXCEPT !.phase = ph] /\ lpMem' = lpDisk' /\ ph \in {"failed", "retry_waiting"}
    BY <1>2, <1>4, <1>6 DEF Stops, Save
  <2> HIDE DEF ph
  <2>2. /\ lpDisk' \in LoopTask /\ lpDisk'.st = lpDisk.st /\ lpDisk'.ns = lpDisk.ns
        /\ lpDisk'.choice = lpDisk.choice /\ lpDisk'.items = lpDisk.items
        /\ lpDisk'.phase = ph /\ lpDisk'.active = lpDisk.active
        /\ lpDisk'.next = lpDisk.next /\ lpDisk'.hist = lpDisk.hist
    BY <1>2, <2>1 DEF LoopTask, Phase
  <2>3. LoopTypeOK'
    BY <1>1, <1>4, <2>1, <2>2 DEF LoopTypeOK, Outcome
  <2>4. Runner' /\ Attempts'
    BY <1>1, <1>3, <1>4, <2>1, <2>2 DEF Runner, Attempts, Attempt
  <2>5. Open /\ Open' = Open /\ lpDisk.phase \notin {"ready", "completed"}
    BY <1>1, <1>6, <2>2 DEF Place, Cursor, Open
  <2>6. Cursor' /\ (Over => Over')
    BY <1>1, <1>4, <2>1, <2>2, <2>5 DEF Cursor, Recorded, Frontier, First, Open, Frozen, Within, Over
  <2>7. Place'
    BY <1>1, <1>4, <2>2, <2>6 DEF Place
  <2>8. Settlement' /\ Ledger'
    BY <1>4, <2>2, <2>3, NodesStay
  <2> QED
    BY <2>3, <2>4, <2>6, <2>7, <2>8 DEF LoopInv
<1> QED
  BY <1>5, <1>6

-----------------------------------------------------------------------------
(***************************************************************************)
(* The runner between nodes.                                               *)
(***************************************************************************)
Passing == NoBranchMatches \/ BranchDone \/ ExitDone \/ Persist \/ LpCrash

LEMMA PassingSafe ==
  ASSUME LoopInv, Passing
  PROVE  LoopInv'
<1>1. LoopTypeOK /\ Runner
  BY DEF LoopInv
<1>2. lpMem = lpDisk /\ lpDisk \in LoopTask /\ lpDisk.st \in TaskStatus
  BY <1>1 DEF Runner, LoopTypeOK, LoopTask
<1>3. lpDisk = [lpDisk EXCEPT !.st = lpDisk.st]
  BY <1>2 DEF LoopTask
<1>4. CASE NoBranchMatches \/ BranchDone \/ ExitDone
  <2>1. /\ lpDisk' = lpDisk /\ lpMem' = lpDisk' /\ lpCtl \in {"choose", "branch", "exit"}
        /\ lpCtl' \in {"failed", "loop", "completed"} /\ lpBusy' = lpBusy
        /\ UNCHANGED <<lpGiven, lpExecs, lpAllowance, lpSettled, lpExits, lpSent>>
    BY <1>2, <1>4 DEF NoBranchMatches, BranchDone, ExitDone, LineDone, Save, Rest
  <2>2. lpBusy = None
    BY <1>1, <1>4 DEF NoBranchMatches, BranchDone, ExitDone, LineDone, Runner
  <2>3. lpDisk.st = "running"
    BY <1>1, <2>1 DEF Runner
  <2> QED
    BY <1>1, <1>2, <1>3, <2>1, <2>2, <2>3, ControlStep DEF LoopTypeOK, Outcome
<1>5. CASE Persist
  <2>1. /\ lpDisk' = [lpDisk EXCEPT !.st = lpCtl] /\ lpMem' = lpDisk'
        /\ lpCtl \in Outcome /\ lpCtl' = "rest" /\ lpBusy' = lpBusy
        /\ UNCHANGED <<lpGiven, lpExecs, lpAllowance, lpSettled, lpExits, lpSent>>
    BY <1>2, <1>5 DEF Persist, Save, Rest
  <2>2. lpCtl \in TaskStatus /\ lpCtl # "running" /\ lpCtl # "down"
    BY <2>1 DEF Outcome, TaskStatus
  <2>3. lpBusy = None
    BY <1>1, <2>1 DEF Runner, Outcome
  <2> QED
    BY <1>1, <2>1, <2>2, <2>3, ControlStep DEF LoopTypeOK
<1>6. CASE LpCrash
  <2>1. /\ lpDisk' = lpDisk /\ lpMem' = lpDisk' /\ lpCtl # "down" /\ lpCtl' = "down"
        /\ lpBusy' = None /\ lpExits' = lpExits + 1
        /\ UNCHANGED <<lpGiven, lpExecs, lpAllowance, lpSettled, lpSent>>
    BY <1>2, <1>6 DEF LpCrash
  <2>2. lpBusy = None \/ lpDisk.st = "running"
    BY <1>1 DEF Runner
  <2>3. lpExits' \in Nat
    BY <1>1, <2>1 DEF LoopTypeOK
  <2> QED
    BY <1>1, <1>2, <1>3, <2>1, <2>2, <2>3, ControlStep
<1> QED
  BY <1>4, <1>5, <1>6 DEF Passing

LEMMA ChooseSafe ==
  ASSUME LoopInv, Choose
  PROVE  LoopInv'
<1>1. LoopTypeOK /\ Runner /\ Attempts /\ Cursor /\ Place /\ Settlement /\ Ledger
  BY DEF LoopInv
<1>2. lpMem = lpDisk /\ lpDisk \in LoopTask /\ lpDisk.st = "running" /\ lpBusy = None
  BY <1>1 DEF Runner, LoopTypeOK, Choose
<1>3. /\ lpCtl = "choose" /\ lpCtl' = "branch" /\ lpBusy' = None
      /\ UNCHANGED <<lpGiven, lpExecs, lpAllowance, lpSettled, lpExits, lpSent>>
  BY <1>2 DEF Choose, Rest
<1>4. CASE lpDisk.choice # None
  <2>1. lpDisk' = lpDisk /\ lpMem' = lpDisk' /\ lpDisk = [lpDisk EXCEPT !.st = lpDisk.st]
    BY <1>2, <1>4 DEF Choose, LoopTask
  <2>2. lpDisk.st \in TaskStatus
    BY <1>2 DEF LoopTask
  <2> QED
    BY <1>1, <1>2, <1>3, <1>4, <2>1, <2>2, ControlStep DEF LoopTypeOK
<1>5. CASE lpDisk.choice = None
  <2>1. PICK b \in Branches :
          Save([lpDisk EXCEPT !.choice = b, !.ns =
            [n \in Node |-> IF n \in Branches \ {b} THEN [@[n] EXCEPT !.st = "skipped"] ELSE @[n]]])
    BY <1>2, <1>5 DEF Choose
  <2> DEFINE ns == [n \in Node |-> IF n \in Branches \ {b}
                                   THEN FailureSkip(lpDisk.ns[n]) ELSE lpDisk.ns[n]]
  <2>2. lpDisk' = [lpDisk EXCEPT !.choice = b, !.ns = ns] /\ lpMem' = lpDisk'
    BY <2>1 DEF Save, FailureSkip
  <2>3. \A n \in Node : lpDisk.ns[n] \in NodeState
    BY <1>1, Types
  <2>4. \A n \in Node : /\ FailureSkip(lpDisk.ns[n]) \in NodeState
                        /\ FailureSkip(lpDisk.ns[n]).st = "skipped"
                        /\ FailureSkip(lpDisk.ns[n]).att = lpDisk.ns[n].att
    <3>1. "skipped" \in NodeStatus
      BY DEF NodeStatus
    <3> QED
      BY <2>3, <3>1, StatusFacts DEF FailureSkip
  <2>5. ns \in [Node -> NodeState]
    BY <2>3, <2>4
  <2>6. \A n \in Node : ns[n] = lpDisk.ns[n] \/ (n \notin InBody /\ ns[n] = FailureSkip(lpDisk.ns[n]))
    BY Places
  <2> HIDE DEF ns
  <2>7. /\ lpDisk' \in LoopTask /\ lpDisk'.st = lpDisk.st /\ lpDisk'.ns = ns
        /\ lpDisk'.choice = b /\ lpDisk'.items = lpDisk.items
        /\ lpDisk'.phase = lpDisk.phase /\ lpDisk'.active = lpDisk.active
        /\ lpDisk'.next = lpDisk.next /\ lpDisk'.hist = lpDisk.hist
    BY <1>2, <2>2, <2>5 DEF LoopTask
  <2>8. LoopTypeOK'
    BY <1>1, <1>3, <2>2, <2>7 DEF LoopTypeOK
  <2>9. Runner'
    BY <1>1, <1>2, <1>3, <2>2, <2>7 DEF Runner
  <2>10. Attempts'
    <3>1. \A n \in Node : Attempt(n, lpDisk.ns[n]) /\ lpDisk.ns[n].st # "running"
      BY <1>1, <1>2, <1>3, Places DEF Attempts, Attempt
    <3>2. \A n \in Node : ns[n].st # "waiting_approval" /\ ns[n].st # "running"
      BY <2>4, <2>6, <3>1 DEF Attempt
    <3> QED
      BY <2>7, <3>2 DEF Attempts, Attempt
  <2>11. Cursor' /\ Open' = Open /\ Over' = Over
    BY <1>1, <1>3, <2>7, SameCursor
  <2>12. Place'
    <3>1. \A x \in Branches : ~(lpExecs[x][0] > 0)
      BY <1>1, <1>5, Places DEF Place
    <3>2. ns[ExitNode].att = lpDisk.ns[ExitNode].att
      BY <2>4, <2>6, Places
    <3>3. b # None
      BY Places
    <3> QED
      BY <1>1, <1>3, <2>7, <2>11, <3>1, <3>2, <3>3 DEF Place
  <2>13. Settlement' /\ Ledger'
    <3>1. \A n \in Node : Done(lpDisk.ns[n]) => Done(ns[n])
      BY <2>4, <2>6 DEF Done
    <3>2. \A n \in InBody : ns[n] = lpDisk.ns[n]
      BY <2>6, Places
    <3>3. ~Open => \A n \in InBody : ns[n].st \in {"pending", "completed", "skipped"}
      BY <1>1, <3>2 DEF Settlement
    <3>4. Open => \A n \in InBody : Done(ns[n]) => <<n, lpDisk.active>> \in lpSettled'
      BY <1>1, <1>3, <3>2 DEF Settlement
    <3>5. ASSUME NEW n \in Node, InIteration(n)
          PROVE  Fits(n, ns[n], Now(n, lpExecs'), Now(n, lpAllowance'))
      <4>1. Fits(n, lpDisk.ns[n], Now(n, lpExecs), Now(n, lpAllowance))
        BY <1>1, <3>5 DEF Ledger
      <4>2. Now(n, lpExecs) \in Nat /\ Now(n, lpAllowance) \in Nat
            /\ Now(n, lpExecs') = Now(n, lpExecs) /\ Now(n, lpAllowance') = Now(n, lpAllowance)
        BY <1>1, <1>3, <3>5, Types DEF Now
      <4> QED
        BY <2>3, <2>6, <4>1, <4>2, SkipFits
    <3> QED
      BY <1>3, <2>7, <2>8, <3>1, <3>3, <3>4, <3>5, NodesMove
  <2> QED
    BY <2>8, <2>9, <2>10, <2>11, <2>12, <2>13 DEF LoopInv
<1> QED
  BY <1>4, <1>5

-----------------------------------------------------------------------------
(***************************************************************************)
(* The loop.                                                               *)
(***************************************************************************)
LEMMA FreezeSafe ==
  ASSUME LoopInv, FreezeItems
  PROVE  LoopInv'
<1>1. LoopTypeOK /\ Runner /\ Attempts /\ Cursor /\ Place
  BY DEF LoopInv
<1>2. lpMem = lpDisk /\ lpDisk \in LoopTask /\ lpDisk.st = "running" /\ lpBusy = None
  BY <1>1 DEF Runner, LoopTypeOK, FreezeItems
<1>3. /\ lpCtl = "loop" /\ lpBusy' = None /\ lpGiven.kind = "items" /\ lpDisk.items = None
      /\ UNCHANGED <<lpGiven, lpExecs, lpAllowance, lpSettled, lpExits, lpSent>>
  BY <1>2 DEF FreezeItems, Rest
<1>4. CASE lpGiven.items > MAX_LOOP_ITERATIONS
  <2>1. /\ lpDisk' = lpDisk /\ lpMem' = lpDisk' /\ lpDisk = [lpDisk EXCEPT !.st = lpDisk.st]
        /\ lpCtl' = "failed"
    BY <1>2, <1>4 DEF FreezeItems, LoopTask
  <2>2. lpDisk.st \in TaskStatus
    BY <1>2 DEF LoopTask
  <2> QED
    BY <1>1, <1>2, <1>3, <2>1, <2>2, ControlStep DEF LoopTypeOK, Outcome
<1>5. CASE ~(lpGiven.items > MAX_LOOP_ITERATIONS)
  <2>1. /\ lpDisk' = [lpDisk EXCEPT !.items = lpGiven.items] /\ lpMem' = lpDisk'
        /\ lpCtl' = lpCtl
    BY <1>2, <1>5 DEF FreezeItems, Save
  <2>2. lpGiven.items \in Iteration /\ lpGiven.items \in Nat /\ lpGiven.items # None
        /\ lpGiven.items <= MAX_LOOP_ITERATIONS
    <3>1. lpGiven.items \in Iteration
      BY <1>1, Types
    <3> DEFINE k == lpGiven.items
    <3> HIDE DEF k
    <3>2. k \in Iteration => k \in Nat /\ k # None
      BY Places
    <3>3. lpGiven.items \in Nat /\ lpGiven.items # None
      BY <3>1, <3>2 DEF k
    <3> QED
      BY <1>5, <3>1, <3>3, Places
  <2>3. /\ lpDisk' \in LoopTask /\ lpDisk'.st = lpDisk.st /\ lpDisk'.ns = lpDisk.ns
        /\ lpDisk'.choice = lpDisk.choice /\ lpDisk'.items = lpGiven.items
        /\ lpDisk'.phase = lpDisk.phase /\ lpDisk'.active = lpDisk.active
        /\ lpDisk'.next = lpDisk.next /\ lpDisk'.hist = lpDisk.hist
    BY <1>2, <2>1, <2>2 DEF LoopTask
  <2>4. LoopTypeOK'
    BY <1>1, <1>3, <2>1, <2>3 DEF LoopTypeOK
  <2>5. Runner' /\ Attempts'
    BY <1>1, <1>3, <2>1, <2>3 DEF Runner, Attempts, Attempt
  <2>6. Recorded = 0 /\ lpDisk.phase = "ready" /\ ~Open
    BY <1>1, <1>3 DEF Cursor, Frozen
  <2>7. Cursor' /\ (Over => Over')
    <3>1. Recorded' = Recorded /\ First' = First /\ Frontier' = Frontier /\ Open' = Open
      BY <1>3, <2>3 DEF Recorded, First, Frontier, Open
    <3>2. Frozen'
      BY <1>3, <2>2, <2>3, <2>6, <3>1 DEF Frozen
    <3>3. ~Over
      BY <1>3, <2>6, Places DEF Over
    <3> QED
      BY <1>1, <2>3, <2>6, <3>1, <3>2, <3>3 DEF Cursor
  <2>8. Place'
    BY <1>1, <1>3, <2>1, <2>3, <2>7 DEF Place
  <2>9. Settlement' /\ Ledger'
    BY <1>3, <2>3, <2>4, NodesStay
  <2> QED
    BY <2>4, <2>5, <2>7, <2>8, <2>9 DEF LoopInv
<1> QED
  BY <1>4, <1>5

\* What an iteration that is started or resumed is.
LEMMA CurrentFacts ==
  ASSUME LoopInv, lpMem = lpDisk, HasIteration
  PROVE  /\ Current = Frontier /\ Within(Current) /\ Current \in Iteration /\ Current # None
         /\ ~Open => lpDisk.phase = "ready"
<1>1. LoopTypeOK /\ Cursor
  BY DEF LoopInv
<1>2. ~Open => lpDisk.phase = "ready"
  BY <1>1 DEF HasIteration, Cursor
<1>3. Current = Frontier
  BY <1>1, <1>2 DEF Cursor, Current, Open
<1>4. Current \in Nat
  BY <1>1, <1>3, Types
<1>5. lpGiven.kind = "items" \/ lpGiven.kind = "condition"
  BY <1>1, Types DEF Kind
<1>6. Within(Current)
  BY <1>5 DEF HasIteration, Within
<1>7. Current \in Iteration
  BY <1>1, <1>4, <1>5, <1>6, Types, Places DEF Within, Iteration
<1> QED
  BY <1>2, <1>3, <1>4, <1>6, <1>7, Places

LEMMA StartIterationSafe ==
  ASSUME LoopInv, StartIteration
  PROVE  LoopInv'
<1> DEFINE cur == Current
           ns == IF Open THEN lpDisk.ns ELSE ResetBody(lpDisk.ns)
<1>1. LoopTypeOK /\ Runner /\ Attempts /\ Cursor /\ Place /\ Settlement /\ Ledger
  BY DEF LoopInv
<1>2. lpMem = lpDisk /\ lpDisk \in LoopTask /\ lpDisk.st = "running" /\ lpBusy = None
  BY <1>1 DEF Runner, LoopTypeOK, StartIteration
<1>3. /\ lpCtl = "loop" /\ lpCtl' = "body" /\ lpBusy' = None
      /\ UNCHANGED <<lpGiven, lpExecs, lpAllowance, lpSettled, lpExits, lpSent>>
  BY <1>2 DEF StartIteration, Rest
<1>4. /\ cur = Frontier /\ Within(cur) /\ cur \in Iteration /\ cur # None
      /\ ~Open => lpDisk.phase = "ready"
  BY <1>2, CurrentFacts DEF StartIteration
<1>5. lpDisk' = [lpDisk EXCEPT !.ns = ns, !.active = cur, !.phase = "running"] /\ lpMem' = lpDisk'
  BY <1>2 DEF StartIteration, Save, Open
<1>6. \A n \in Node : lpDisk.ns[n] \in NodeState
  BY <1>1, Types
<1>7. \A n \in Node : /\ ResetNode(lpDisk.ns[n]) \in NodeState
                      /\ ResetNode(lpDisk.ns[n]).st = "pending" /\ ResetNode(lpDisk.ns[n]).auto = 0
  <2>1. "pending" \in NodeStatus /\ 0 \in Nat /\ "initial" \in Trigger
    BY DEF NodeStatus, Trigger
  <2>2. \A n \in Node : ResetNode(lpDisk.ns[n]) \in NodeState
    BY <1>6, <2>1, Updates DEF ResetNode
  <2> QED
    BY <1>6, <2>2 DEF ResetNode, NodeState
<1>8. ns \in [Node -> NodeState]
  BY <1>2, <1>6, <1>7 DEF LoopTask, ResetBody
<1>9. \A n \in Node : ns[n] = IF ~Open /\ n \in InBody THEN ResetNode(lpDisk.ns[n]) ELSE lpDisk.ns[n]
  BY DEF ResetBody
<1> HIDE DEF ns, cur
<1>10. /\ lpDisk' \in LoopTask /\ lpDisk'.st = lpDisk.st /\ lpDisk'.ns = ns
       /\ lpDisk'.choice = lpDisk.choice /\ lpDisk'.items = lpDisk.items
       /\ lpDisk'.phase = "running" /\ lpDisk'.active = cur
       /\ lpDisk'.next = lpDisk.next /\ lpDisk'.hist = lpDisk.hist
  BY <1>2, <1>4, <1>5, <1>8 DEF LoopTask, Phase
<1>11. LoopTypeOK'
  BY <1>1, <1>3, <1>5, <1>10 DEF LoopTypeOK
<1>12. Runner' /\ Attempts'
  <2>1. Runner'
    BY <1>1, <1>3, <1>5, <1>10, <1>2 DEF Runner
  <2>2. \A n \in Node : ns[n].st # "waiting_approval" /\ ns[n].st # "running"
    BY <1>1, <1>2, <1>3, <1>7, <1>9, Places DEF Attempts, Attempt
  <2> QED
    BY <1>10, <2>1, <2>2 DEF Attempts, Attempt
<1>13. /\ Recorded' = Recorded /\ First' = First /\ Frontier' = Frontier /\ Open'
       /\ IterationOnDisk(ExitNode) = IterationOnDisk(ExitNode)
  BY <1>3, <1>4, <1>10 DEF Recorded, First, Frontier, Open
<1>14. ~Over
  <2>1. lpDisk.phase # "completed"
    BY <1>2 DEF StartIteration, HasIteration
  <2>2. ~(lpGiven.kind = "items" /\ lpDisk.items = 0)
    <3>1. Frontier \in Nat
      BY <1>1, Types
    <3> QED
      BY <1>4, <3>1 DEF Within
  <2> QED
    BY <2>1, <2>2 DEF Over
<1>15. Cursor'
  <2>1. Frozen'
    BY <1>1, <1>3, <1>4, <1>10, <1>13 DEF Cursor, Frozen, Within
  <2>3. lpDisk'.active = Frontier' /\ Within(lpDisk.active)'
    BY <1>3, <1>4, <1>10, <1>13 DEF Within
  <2> QED
    BY <1>1, <1>3, <1>10, <1>13, <2>1, <2>3 DEF Cursor
<1>16. Place'
  <2>1. ns[ExitNode] = lpDisk.ns[ExitNode]
    BY <1>9, Places
  <2> QED
    BY <1>1, <1>3, <1>10, <1>13, <1>14, <2>1 DEF Place
<1>17. CASE Open
  <2>1. lpDisk'.active = lpDisk.active /\ lpDisk'.ns = lpDisk.ns
    BY <1>1, <1>4, <1>10, <1>17 DEF Cursor, ns
  <2> QED
    BY <1>3, <1>10, <1>11, <1>12, <1>15, <1>16, <2>1, NodesStay DEF LoopInv
<1>18. CASE ~Open
  <2>1. \A n \in InBody : n \in Node /\ lpDisk'.ns[n] = ResetNode(lpDisk.ns[n])
    BY <1>9, <1>10, <1>18, Places
  <2>2. \A n \in Node \ InBody : lpDisk'.ns[n] = lpDisk.ns[n]
    BY <1>9, <1>10
  <2>3. Frontier \in Nat
    BY <1>1, Types
  <2>4. Settlement'
    <3>1. \A n \in Node, i \in Iteration : <<n, i>> \in lpSettled' =>
            \/ n \in InBody /\ i < Frontier
            \/ n \notin InBody /\ i = 0 /\ Done(lpDisk'.ns[n])
      BY <1>1, <1>3, <1>18, <2>2 DEF Settlement, InIteration, IterationOnDisk
    <3>2. \A n \in InBody : ~Done(lpDisk'.ns[n])
      BY <1>7, <2>1 DEF Done
    <3>3. \A n \in Node \ InBody : InIteration(n)' /\ IterationOnDisk(n)' = 0
      BY DEF InIteration, IterationOnDisk
    <3>4. \A n \in Node, i \in Iteration : <<n, i>> \in lpSettled' =>
            \/ n \in InBody /\ i < Frontier'
            \/ InIteration(n)' /\ i = IterationOnDisk(n)' /\ Done(lpDisk'.ns[n])
      BY <1>13, <3>1, <3>3
    <3>5. \A n \in InBody, i \in Iteration : First' <= i /\ i < Frontier' => <<n, i>> \in lpSettled'
      BY <1>1, <1>3, <1>13 DEF Settlement
    <3> QED
      BY <1>13, <3>2, <3>4, <3>5, Zenon DEF Settlement, Done
  <2>5. Ledger'
    <3>1. ASSUME NEW n \in Node, InIteration(n)'
          PROVE  Fits(n, lpDisk.ns[n], Now(n, lpExecs), Now(n, lpAllowance))'
      <4>1. CASE n \in InBody
        <5>1. IterationOnDisk(n)' = Frontier /\ Frontier \in Iteration /\ Frontier # lpDisk.active
          BY <1>4, <1>10, <1>18, <4>1 DEF IterationOnDisk, Open
        <5>2. lpExecs[n][Frontier] = 0 /\ lpAllowance[n][Frontier] = RetryBudget(n) + 1
          BY <1>1, <2>3, <4>1, <5>1 DEF Ledger
        <5>3. Fits(n, lpDisk'.ns[n], lpExecs[n][Frontier], lpAllowance[n][Frontier])
          BY <1>7, <2>1, <4>1, <5>2, BudgetNat DEF Fits, Owed
        <5> QED
          BY <1>3, <5>1, <5>3 DEF Now, Fits, Owed, RetryBudget, MAX_AUTO_RETRY_COUNT
      <4>2. CASE n \notin InBody
        <5>1. IterationOnDisk(n)' = 0 /\ IterationOnDisk(n) = 0 /\ InIteration(n)
          BY <4>2 DEF IterationOnDisk, InIteration
        <5>2. Fits(n, lpDisk'.ns[n], Now(n, lpExecs), Now(n, lpAllowance))
          BY <1>1, <2>2, <4>2, <5>1 DEF Ledger
        <5> QED
          BY <1>3, <5>1, <5>2 DEF Now, Fits, Owed, RetryBudget, MAX_AUTO_RETRY_COUNT
      <4> QED
        BY <4>1, <4>2
    <3>2. \A n \in Node, i \in Iteration : lpExecs'[n][i] <= lpAllowance'[n][i]
      BY <1>1, <1>3 DEF Ledger
    <3>3. ASSUME NEW n \in InBody, NEW i \in Iteration, i >= Frontier
          PROVE  lpExecs'[n][i] = 0 /\ lpAllowance'[n][i] = RetryBudget(n) + 1
      <4>1. n \in Node /\ i # lpDisk.active
        BY <1>18, <3>3, Places DEF Open
      <4> QED
        BY <1>1, <1>3, <3>3, <4>1 DEF Ledger
    <3> QED
      BY <1>13, <3>1, <3>2, <3>3 DEF Ledger, RetryBudget, MAX_AUTO_RETRY_COUNT
  <2> QED
    BY <1>11, <1>12, <1>15, <1>16, <2>4, <2>5 DEF LoopInv
<1> QED
  BY <1>17, <1>18

\* The history grows by the iteration that was open.
LEMMA Appended ==
  ASSUME NEW h \in Seq(Iteration), NEW f \in {0, 1}, h = [i \in 1..Len(h) |-> f + i - 1]
  PROVE  /\ Len(Append(h, f + Len(h))) = Len(h) + 1
         /\ Append(h, f + Len(h)) = [i \in 1..(Len(h) + 1) |-> f + i - 1]
<1>1. Len(h) \in Nat
  OBVIOUS
<1>2. Append(h, f + Len(h)) = [i \in 1..(Len(h) + 1) |-> IF i = Len(h) + 1 THEN f + Len(h) ELSE h[i]]
  OBVIOUS
<1>3. \A i \in 1..(Len(h) + 1) :
        (IF i = Len(h) + 1 THEN f + Len(h) ELSE h[i]) = f + i - 1
  BY <1>1
<1> QED
  BY <1>1, <1>2, <1>3

LEMMA EndIterationSafe ==
  ASSUME LoopInv, EndIteration
  PROVE  LoopInv'
<1>1. LoopTypeOK /\ Runner /\ Attempts /\ Cursor /\ Place /\ Settlement /\ Ledger
  BY DEF LoopInv
<1>2. lpMem = lpDisk /\ lpDisk \in LoopTask /\ lpDisk.st = "running" /\ lpBusy = None
  BY <1>1 DEF Runner, LoopTypeOK, EndIteration, LineDone
<1>3. /\ lpCtl = "body" /\ lpCtl' = "loop" /\ lpBusy' = None
      /\ UNCHANGED <<lpGiven, lpExecs, lpAllowance, lpSettled, lpExits, lpSent>>
  BY <1>2 DEF EndIteration, LineDone, Rest
<1>4. Open /\ lpDisk.active = Frontier /\ Within(Frontier) /\ lpDisk.active \in Iteration
      /\ Frontier \in Nat /\ Recorded \in Nat /\ First \in {0, 1}
  BY <1>1, <1>3, Types DEF Place, Cursor, Open
<1>5. PICK ph \in {"ready", "completed"} :
        /\ ph = "completed" => lpGiven.kind = "condition"
        /\ lpDisk' = [lpDisk EXCEPT !.hist = Append(lpDisk.hist, lpDisk.active), !.active = None,
                                    !.next = lpDisk.active + 1, !.phase = ph]
        /\ lpMem' = lpDisk'
  <2>1. Snapshot(lpDisk).active = lpDisk.active
    BY <1>2 DEF Snapshot, LoopTask
  <2>2. CASE Save(Advanced(lpMem))
    BY <1>2, <2>1, <2>2 DEF Save, Advanced, Snapshot
  <2>3. CASE lpGiven.kind = "condition" /\ Save([Advanced(lpMem) EXCEPT !.phase = "completed"])
    BY <1>2, <2>1, <2>3 DEF Save, Advanced, Snapshot
  <2> QED
    BY <2>2, <2>3 DEF EndIteration
<1>6. lpDisk.hist \in Seq(Iteration) /\ Append(lpDisk.hist, lpDisk.active) \in Seq(Iteration)
  BY <1>1, <1>4, Types
<1>7. /\ lpDisk' \in LoopTask /\ lpDisk'.st = lpDisk.st /\ lpDisk'.ns = lpDisk.ns
      /\ lpDisk'.choice = lpDisk.choice /\ lpDisk'.items = lpDisk.items
      /\ lpDisk'.phase = ph /\ lpDisk'.active = None
      /\ lpDisk'.next = lpDisk.active + 1
      /\ lpDisk'.hist = Append(lpDisk.hist, lpDisk.active)
  <2> DEFINE nx == lpDisk.active + 1
             hs == Append(lpDisk.hist, lpDisk.active)
  <2>1. nx \in Nat /\ hs \in Seq(Iteration)
    BY <1>4, <1>6
  <2>2. lpDisk' = [lpDisk EXCEPT !.hist = hs, !.active = None, !.next = nx, !.phase = ph]
    BY <1>5
  <2> HIDE DEF nx, hs
  <2>3. /\ lpDisk' \in LoopTask /\ lpDisk'.st = lpDisk.st /\ lpDisk'.ns = lpDisk.ns
        /\ lpDisk'.choice = lpDisk.choice /\ lpDisk'.items = lpDisk.items
        /\ lpDisk'.phase = ph /\ lpDisk'.active = None
        /\ lpDisk'.next = nx /\ lpDisk'.hist = hs
    BY <1>2, <2>1, <2>2 DEF LoopTask, Phase
  <2> QED
    BY <2>3 DEF nx, hs
<1>8. LoopTypeOK'
  BY <1>1, <1>3, <1>5, <1>7 DEF LoopTypeOK
<1>9. Runner' /\ Attempts'
  BY <1>1, <1>2, <1>3, <1>5, <1>7 DEF Runner, Attempts, Attempt
<1>10. /\ Recorded' = Recorded + 1 /\ First' = First /\ Frontier' = Frontier + 1 /\ ~Open'
       /\ lpDisk'.hist = [i \in 1..Recorded' |-> First' + i - 1]
  <2>1. First' = First /\ ~Open'
    BY <1>3, <1>7 DEF First, Open
  <2>2. lpDisk.hist = [i \in 1..Len(lpDisk.hist) |-> First + i - 1]
    BY <1>1 DEF Cursor, Recorded
  <2>3. lpDisk.active = First + Len(lpDisk.hist)
    BY <1>4 DEF Frontier, Recorded
  <2> DEFINE h == lpDisk.hist
             f == First
  <2>4. h \in Seq(Iteration) /\ f \in {0, 1} /\ h = [i \in 1..Len(h) |-> f + i - 1]
    BY <1>4, <1>6, <2>2
  <2> HIDE DEF h, f
  <2>5. Len(Append(h, f + Len(h))) = Len(h) + 1
        /\ Append(h, f + Len(h)) = [i \in 1..(Len(h) + 1) |-> f + i - 1]
    BY <2>4, Appended
  <2>6. Recorded' = Recorded + 1 /\ lpDisk'.hist = [i \in 1..(Recorded + 1) |-> First + i - 1]
    BY <1>7, <2>3, <2>5 DEF h, f, Recorded
  <2> QED
    BY <1>4, <2>1, <2>6 DEF Frontier
<1>11. ~Over
  BY <1>1, <1>4 DEF Over, Cursor, Within
<1>12. Cursor'
  <2>1. lpGiven.kind \in Kind /\ (lpDisk.items = None \/ lpDisk.items \in Nat)
    BY <1>1, Types, Places
  <2>2. lpDisk.items # 0 \/ lpGiven.kind # "items"
    BY <1>11 DEF Over
  <2>3. lpGiven.kind = "items" => lpDisk.items # None /\ lpDisk.items \in Nat /\ Recorded + 1 <= lpDisk.items
    <3>1. lpGiven.kind = "items" => First = 0
      BY DEF First
    <3> QED
      BY <1>4, <2>1, <3>1 DEF Within, Frontier
  <2>4. lpGiven.kind = "condition" => Recorded + 1 <= MAX_LOOP_ITERATIONS
    <3>1. lpGiven.kind = "condition" => First = 1
      BY DEF First
    <3> QED
      BY <1>4, <3>1, Places DEF Within, Frontier
  <2>5. Frozen'
    BY <1>1, <1>3, <1>7, <1>10, <2>3, <2>4 DEF Cursor, Frozen
  <2>6. lpDisk'.next = Frontier'
    BY <1>4, <1>7, <1>10
  <2> QED
    BY <1>3, <1>5, <1>7, <1>10, <2>5, <2>6 DEF Cursor
<1>13. Place'
  BY <1>1, <1>3, <1>7, <1>11 DEF Place
<1>14. \A n \in InBody : n \in Node /\ Done(lpDisk.ns[n])
  <2>1. Line = Body
    BY <1>3 DEF Line
  <2>2. \A i \in DOMAIN Body : Done(lpDisk.ns[Body[i]])
    BY <1>2, <2>1 DEF EndIteration, LineDone
  <2> QED
    BY <2>2, Places DEF InBody
<1>15. Settlement'
  <2>1. \A n \in InBody : lpDisk'.ns[n].st \in {"pending", "completed", "skipped"}
    BY <1>7, <1>14 DEF Done
  <2>2. \A n \in Node, i \in Iteration : <<n, i>> \in lpSettled' =>
          \/ n \in InBody /\ i < Frontier'
          \/ InIteration(n)' /\ i = IterationOnDisk(n)' /\ Done(lpDisk'.ns[n])
    <3>1. ASSUME NEW n \in Node, NEW i \in Iteration, <<n, i>> \in lpSettled, n \in InBody
          PROVE  i < Frontier'
      <4>1. i < Frontier \/ i = Frontier
        BY <1>1, <1>4, <3>1 DEF Settlement, IterationOnDisk
      <4> QED
        BY <1>4, <1>10, <4>1, Places
    <3>2. ASSUME NEW n \in Node, NEW i \in Iteration, <<n, i>> \in lpSettled, n \notin InBody
          PROVE  InIteration(n)' /\ i = IterationOnDisk(n)' /\ Done(lpDisk'.ns[n])
      BY <1>1, <1>7, <3>2 DEF Settlement, IterationOnDisk, InIteration
    <3> QED
      BY <1>3, <3>1, <3>2
  <2>3. \A n \in InBody, i \in Iteration : First' <= i /\ i < Frontier' => <<n, i>> \in lpSettled'
    <3>1. ASSUME NEW n \in InBody, NEW i \in Iteration, First <= i, i < Frontier + 1
          PROVE  <<n, i>> \in lpSettled
      <4>1. i < Frontier \/ i = lpDisk.active
        BY <1>4, <3>1, Places
      <4> QED
        BY <1>1, <1>4, <1>14, <3>1, <4>1 DEF Settlement
    <3> QED
      BY <1>3, <1>10, <3>1
  <2> QED
    BY <1>10, <2>1, <2>2, <2>3, Zenon DEF Settlement, Done
<1>16. Ledger'
  <2>1. ASSUME NEW n \in Node, InIteration(n)'
        PROVE  Fits(n, lpDisk.ns[n], Now(n, lpExecs), Now(n, lpAllowance))'
    <3>1. n \notin InBody
      BY <1>10, <2>1 DEF InIteration
    <3>2. IterationOnDisk(n)' = 0 /\ IterationOnDisk(n) = 0 /\ InIteration(n)
      BY <3>1 DEF IterationOnDisk, InIteration
    <3>3. Fits(n, lpDisk'.ns[n], Now(n, lpExecs), Now(n, lpAllowance))
      BY <1>1, <1>7, <3>2 DEF Ledger
    <3> QED
      BY <1>3, <3>2, <3>3 DEF Now, Fits, Owed, RetryBudget, MAX_AUTO_RETRY_COUNT
  <2>2. \A n \in Node, i \in Iteration : lpExecs'[n][i] <= lpAllowance'[n][i]
    BY <1>1, <1>3 DEF Ledger
  <2>3. ASSUME NEW n \in InBody, NEW i \in Iteration, i >= Frontier'
        PROVE  lpExecs'[n][i] = 0 /\ lpAllowance'[n][i] = RetryBudget(n) + 1
    <3>1. n \in Node /\ i >= Frontier /\ i # lpDisk.active
      BY <1>4, <1>10, <2>3, Places
    <3> QED
      BY <1>1, <1>3, <2>3, <3>1 DEF Ledger
  <2> QED
    BY <2>1, <2>2, <2>3 DEF Ledger, RetryBudget, MAX_AUTO_RETRY_COUNT
<1> QED
  BY <1>8, <1>9, <1>12, <1>13, <1>15, <1>16 DEF LoopInv

LEMMA LoopDoneSafe ==
  ASSUME LoopInv, LoopDone
  PROVE  LoopInv'
<1>1. LoopTypeOK /\ Runner /\ Attempts /\ Cursor /\ Place
  BY DEF LoopInv
<1>2. lpMem = lpDisk /\ lpDisk \in LoopTask /\ lpDisk.st = "running" /\ lpBusy = None
  BY <1>1 DEF Runner, LoopTypeOK, LoopDone
<1>3. /\ lpCtl = "loop" /\ lpCtl' = "exit" /\ lpBusy' = None /\ ~HasIteration
      /\ lpGiven.kind = "items" => lpDisk.items # None
      /\ UNCHANGED <<lpGiven, lpExecs, lpAllowance, lpSettled, lpExits, lpSent>>
  BY <1>2 DEF LoopDone, Rest
<1>4. /\ lpGiven.kind = "items" \/ lpGiven.kind = "condition"
      /\ Frontier \in Nat /\ Recorded \in Nat /\ lpDisk.next \in Nat
      /\ lpDisk.items \in Nat \cup {None}
  BY <1>1, Types, Places DEF Kind
<1>5. CASE lpDisk.phase = "completed" \/ lpDisk.items = 0
  <2>1. Over
    <3>1. lpGiven.kind = "condition" => lpDisk.items = None
      BY <1>1 DEF Cursor, Frozen
    <3> QED
      BY <1>4, <1>5, <3>1, Places DEF Over
  <2>2. lpDisk' = lpDisk /\ lpMem' = lpDisk' /\ lpDisk = [lpDisk EXCEPT !.st = lpDisk.st]
    BY <1>2, <1>5 DEF LoopDone, LoopTask
  <2>3. lpDisk.st \in TaskStatus
    BY <1>2 DEF LoopTask
  <2> QED
    BY <1>1, <1>2, <1>3, <2>1, <2>2, <2>3, ControlStep DEF LoopTypeOK
<1>6. CASE ~(lpDisk.phase = "completed" \/ lpDisk.items = 0)
  <2> DEFINE nx == IF lpGiven.kind = "items" THEN lpDisk.next ELSE lpDisk.next + 1
  <2>1. lpDisk' = [lpDisk EXCEPT !.phase = "completed", !.next = nx] /\ lpMem' = lpDisk'
    BY <1>2, <1>6 DEF LoopDone, Save
  <2>2. nx \in Nat /\ (lpGiven.kind = "items" => nx = lpDisk.next)
    BY <1>4
  <2> HIDE DEF nx
  <2>3. /\ lpDisk' \in LoopTask /\ lpDisk'.st = lpDisk.st /\ lpDisk'.ns = lpDisk.ns
        /\ lpDisk'.choice = lpDisk.choice /\ lpDisk'.items = lpDisk.items
        /\ lpDisk'.phase = "completed" /\ lpDisk'.active = lpDisk.active
        /\ lpDisk'.next = nx /\ lpDisk'.hist = lpDisk.hist
    BY <1>2, <2>1, <2>2 DEF LoopTask, Phase
  <2>4. LoopTypeOK'
    BY <1>1, <1>3, <2>1, <2>3 DEF LoopTypeOK
  <2>5. Runner' /\ Attempts'
    BY <1>1, <1>2, <1>3, <2>1, <2>3 DEF Runner, Attempts, Attempt
  <2>6. ~Open
    <3>1. SUFFICES ASSUME Open PROVE FALSE
      OBVIOUS
    <3>2. Current = lpDisk.active /\ Within(lpDisk.active)
      BY <1>1, <1>2, <3>1 DEF Cursor, Open, Current
    <3> QED
      BY <1>2, <1>3, <1>4, <1>6, <3>2 DEF HasIteration, Within
  <2>7. lpDisk.phase = "ready" /\ Current = Frontier
    BY <1>1, <1>2, <1>6, <2>6 DEF Cursor, Current, Open
  <2>8. lpGiven.kind = "items" => Recorded = lpDisk.items
    <3>1. lpGiven.kind = "items" => First = 0 /\ lpDisk.items \in Nat /\ Recorded <= lpDisk.items
      BY <1>1, <1>3, <1>4 DEF First, Cursor, Frozen
    <3>2. lpGiven.kind = "items" => ~(Current < lpDisk.items)
      BY <1>2, <1>3, <1>6 DEF HasIteration
    <3> QED
      BY <1>4, <2>7, <3>1, <3>2 DEF Frontier
  <2>9. /\ Recorded' = Recorded /\ First' = First /\ Frontier' = Frontier /\ ~Open' /\ Over'
    BY <1>3, <2>3, <2>6 DEF Recorded, First, Frontier, Open, Over
  <2>10. Frozen'
    BY <1>1, <1>3, <2>3, <2>9 DEF Cursor, Frozen
  <2>11. Cursor'
    BY <1>1, <1>3, <2>2, <2>3, <2>6, <2>7, <2>8, <2>9, <2>10 DEF Cursor
  <2>12. Place'
    BY <1>1, <1>3, <2>3, <2>9 DEF Place
  <2>13. Settlement' /\ Ledger'
    BY <1>3, <2>3, <2>4, NodesStay
  <2> QED
    BY <2>4, <2>5, <2>11, <2>12, <2>13 DEF LoopInv
<1> QED
  BY <1>5, <1>6

-----------------------------------------------------------------------------
(***************************************************************************)
(* A task that is started, controlled or recovered.                        *)
(***************************************************************************)
\* What may become of a node while no plugin runs.
Revised(s, t) ==
  \/ t = s /\ s.st # "running"
  \/ /\ s.st \in {"running", "failed", "retry_waiting"}
     /\ t \in NodeState /\ t.att = s.att /\ t.st \notin {"running", "waiting_approval"}

LEMMA Relaunch ==
  ASSUME LoopInv, NEW ns \in [Node -> NodeState], NEW v \in {"running", "failed", "retry_waiting"},
         NEW X \in SUBSET Node,
         lpDisk' = [lpDisk EXCEPT !.st = v, !.ns = ns], lpMem' = lpDisk', lpBusy' = None,
         lpCtl' = (IF v = "running" THEN "choose" ELSE "rest"),
         UNCHANGED <<lpGiven, lpExecs>>, lpExits' \in Nat, lpSent' \in Nat,
         lpAllowance' \in [Node -> [Iteration -> Nat]],
         \A n \in Node : Revised(lpDisk.ns[n], ns[n]),
         \A n \in Node : n \in X <=> ~Done(lpDisk.ns[n]) /\ Done(ns[n]),
         lpSettled' = lpSettled \cup {<<n, IterationOnDisk(n)>> : n \in X},
         \A n \in Node : InIteration(n) => Fits(n, ns[n], Now(n, lpExecs), Now(n, lpAllowance')),
         \A n \in Node, i \in Iteration : ~(InIteration(n) /\ i = IterationOnDisk(n)) =>
           lpAllowance'[n][i] = lpAllowance[n][i]
  PROVE  LoopInv'
<1>1. LoopTypeOK /\ Runner /\ Attempts /\ Cursor /\ Place /\ Settlement /\ Ledger
  BY DEF LoopInv
<1>2. lpDisk \in LoopTask
  BY <1>1 DEF LoopTypeOK
<1>3. /\ lpDisk' \in LoopTask /\ lpDisk'.st = v /\ lpDisk'.ns = ns
      /\ lpDisk'.choice = lpDisk.choice /\ lpDisk'.items = lpDisk.items
      /\ lpDisk'.phase = lpDisk.phase /\ lpDisk'.active = lpDisk.active
      /\ lpDisk'.next = lpDisk.next /\ lpDisk'.hist = lpDisk.hist
  BY <1>2 DEF LoopTask, TaskStatus
<1>4. \A n \in X : n \in Node /\ InIteration(n) /\ IterationOnDisk(n) \in Iteration
  <2>1. ASSUME NEW n \in X, n \in InBody
        PROVE  Open
    <3>1. lpDisk.ns[n].st \in {"running", "failed", "retry_waiting"}
      BY <2>1 DEF Revised
    <3> QED
      BY <1>1, <2>1, <3>1 DEF Settlement
  <2> QED
    BY <1>1, <2>1, Types DEF InIteration
<1>5. LoopTypeOK'
  <2>1. lpSettled' \subseteq Node \X Iteration
    BY <1>1, <1>4 DEF LoopTypeOK
  <2> QED
    BY <1>1, <1>3, <2>1 DEF LoopTypeOK
<1>6. Runner'
  BY <1>3 DEF Runner
<1>7. Attempts'
  BY <1>1, <1>3 DEF Attempts, Attempt, Revised
<1>8. Cursor' /\ Open' = Open /\ Over' = Over
  BY <1>1, <1>3, SameCursor
<1>9. Place'
  <2>1. lpDisk'.ns[ExitNode].att = lpDisk.ns[ExitNode].att
    BY <1>3, Places DEF Revised
  <2> QED
    BY <1>1, <1>3, <1>8, <2>1 DEF Place
<1>10. Settlement' /\ Ledger'
  <2>1. \A n \in Node : Done(lpDisk.ns[n]) => Done(ns[n])
    BY DEF Revised, Done
  <2>2. ~Open => \A n \in InBody : ns[n].st \in {"pending", "completed", "skipped"}
    BY <1>1, Places DEF Settlement, Revised
  <2>3. Open => \A n \in InBody : Done(ns[n]) => <<n, lpDisk.active>> \in lpSettled'
    <3>1. ASSUME Open, NEW n \in InBody, Done(ns[n]), ~Done(lpDisk.ns[n])
          PROVE  <<n, lpDisk.active>> \in lpSettled'
      <4>1. n \in X /\ IterationOnDisk(n) = lpDisk.active
        BY <3>1, Places DEF IterationOnDisk
      <4> QED
        BY <4>1
    <3> QED
      BY <1>1, <3>1 DEF Settlement
  <2>4. \A n \in Node, i \in Iteration : <<n, i>> \in lpSettled' /\ <<n, i>> \notin lpSettled =>
          InIteration(n) /\ i = IterationOnDisk(n) /\ Done(ns[n])
    BY <1>4
  <2>5. \A n \in Node : Now(n, lpExecs') = Now(n, lpExecs)
    BY DEF Now
  <2> QED
    BY <1>3, <1>5, <2>1, <2>2, <2>3, <2>4, <2>5, NodesMove
<1> QED
  BY <1>5, <1>6, <1>7, <1>8, <1>9, <1>10 DEF LoopInv

\* At rest no node is mid-attempt, and a node that failed or waits is in an
\* iteration that is open.
LEMMA AtRest ==
  ASSUME LoopInv
  PROVE  /\ \A n \in Node : lpDisk.ns[n] \in NodeState
         /\ lpCtl = "rest" => \A n \in Node : lpDisk.ns[n].st # "running"
         /\ lpDisk.st # "running" => \A n \in Node : lpDisk.ns[n].st # "running"
         /\ \A n \in Node : Controllable(lpDisk.ns[n]) \/ lpDisk.ns[n].st = "running" =>
              InIteration(n) /\ ~Done(lpDisk.ns[n])
         /\ \A n \in Node : InIteration(n) =>
              /\ Fits(n, lpDisk.ns[n], Now(n, lpExecs), Now(n, lpAllowance))
              /\ IterationOnDisk(n) \in Iteration
              /\ Now(n, lpExecs) \in Nat /\ Now(n, lpAllowance) \in Nat
              /\ Now(n, lpExecs) <= Now(n, lpAllowance)
<1>1. LoopTypeOK /\ Runner /\ Attempts /\ Settlement /\ Ledger
  BY DEF LoopInv
<1>2. \A n \in Node : n # None
  BY Places
<1>3. /\ lpCtl = "rest" => \A n \in Node : lpDisk.ns[n].st # "running"
      /\ lpDisk.st # "running" => \A n \in Node : lpDisk.ns[n].st # "running"
  BY <1>1, <1>2 DEF Runner, Attempts, Attempt
<1>4. \A n \in Node : Controllable(lpDisk.ns[n]) \/ lpDisk.ns[n].st = "running" =>
        InIteration(n) /\ ~Done(lpDisk.ns[n])
  BY <1>1 DEF Settlement, InIteration, Controllable, Done
<1>5. \A n \in Node : InIteration(n) => IterationOnDisk(n) \in Iteration
  BY <1>1, Types
<1>6. \A n \in Node : InIteration(n) => Now(n, lpExecs) \in Nat /\ Now(n, lpAllowance) \in Nat
  BY <1>1, <1>5, Types DEF Now
<1>7. \A n \in Node : InIteration(n) =>
        /\ Fits(n, lpDisk.ns[n], Now(n, lpExecs), Now(n, lpAllowance))
        /\ Now(n, lpExecs) <= Now(n, lpAllowance)
  BY <1>1, <1>5 DEF Ledger, Now
<1> QED
  BY <1>1, <1>3, <1>4, <1>5, <1>6, <1>7, Types

LEMMA LaunchSafe ==
  ASSUME LoopInv, RunTask \/ LpTimerFires
  PROVE  LoopInv'
<1> DEFINE ns == IF RunTask THEN lpDisk.ns
                 ELSE [n \in Node |-> IF lpDisk.ns[n].st = "retry_waiting"
                                      THEN ActivateRetry(lpDisk.ns[n]) ELSE lpDisk.ns[n]]
<1>1. LoopTypeOK /\ lpDisk \in LoopTask
  BY DEF LoopInv, LoopTypeOK
<1>2. /\ lpCtl = "rest"
      /\ lpDisk' = [lpDisk EXCEPT !.st = "running", !.ns = ns] /\ lpMem' = lpDisk'
      /\ lpCtl' = "choose" /\ lpBusy' = None
      /\ UNCHANGED <<lpGiven, lpExecs, lpAllowance, lpSettled, lpExits, lpSent>>
  BY DEF RunTask, LpTimerFires, LpLaunch, Save
<1>3. \A n \in Node : lpDisk.ns[n] \in NodeState /\ lpDisk.ns[n].st # "running"
  BY <1>2, AtRest
<1>4. \A n \in Node : /\ ActivateRetry(lpDisk.ns[n]) \in NodeState
                      /\ ActivateRetry(lpDisk.ns[n]).st = "pending"
                      /\ ActivateRetry(lpDisk.ns[n]).att = lpDisk.ns[n].att
  <2>1. "pending" \in NodeStatus
    BY DEF NodeStatus
  <2> QED
    BY <1>3, <2>1, StatusFacts DEF ActivateRetry
<1>5. ns \in [Node -> NodeState]
  BY <1>1, <1>3, <1>4 DEF LoopTask
<1>6. \A n \in Node : \/ ns[n] = lpDisk.ns[n]
                      \/ lpDisk.ns[n].st = "retry_waiting" /\ ns[n] = ActivateRetry(lpDisk.ns[n])
  OBVIOUS
<1> HIDE DEF ns
<1>7. \A n \in Node : Revised(lpDisk.ns[n], ns[n])
  BY <1>3, <1>4, <1>6 DEF Revised
<1>8. \A n \in Node : n \in {} <=> ~Done(lpDisk.ns[n]) /\ Done(ns[n])
  BY <1>4, <1>6 DEF Done
<1>9. ASSUME NEW n \in Node, InIteration(n)
      PROVE  Fits(n, ns[n], Now(n, lpExecs), Now(n, lpAllowance'))
  <2>1. Now(n, lpAllowance') = Now(n, lpAllowance)
    BY <1>2 DEF Now
  <2> QED
    BY <1>3, <1>6, <1>9, <2>1, AtRest, ActivateFits
<1>10. lpSettled' = lpSettled \cup {<<n, IterationOnDisk(n)>> : n \in {}}
  BY <1>2
<1>11. /\ lpAllowance' \in [Node -> [Iteration -> Nat]] /\ lpExits' \in Nat /\ lpSent' \in Nat
       /\ {} \in SUBSET Node
  BY <1>1, <1>2 DEF LoopTypeOK
<1> QED
  BY <1>2, <1>5, <1>7, <1>8, <1>9, <1>10, <1>11, Relaunch

LEMMA ControlSafe ==
  ASSUME LoopInv, NEW n \in Node, RetryNode(n) \/ SkipNode(n)
  PROVE  LoopInv'
<1> DEFINE old == lpDisk.ns[n]
           i == IterationOnDisk(n)
           s == IF RetryNode(n) THEN ManualRetry(old) ELSE FailureSkip(old)
           X == IF RetryNode(n) THEN {} ELSE {n}
           ns == [lpDisk.ns EXCEPT ![n] = s]
<1>1. LoopTypeOK /\ lpDisk \in LoopTask /\ lpDisk.ns \in [Node -> NodeState]
      /\ lpAllowance \in [Node -> [Iteration -> Nat]]
  BY DEF LoopInv, LoopTypeOK, LoopTask
<1>2. /\ lpCtl = "rest" /\ Controllable(old) /\ lpSent' = lpSent + 1
      /\ lpDisk' = [lpDisk EXCEPT !.st = "running", !.ns = ns] /\ lpMem' = lpDisk'
      /\ lpCtl' = "choose" /\ lpBusy' = None
      /\ UNCHANGED <<lpGiven, lpExecs, lpExits>>
  BY DEF RetryNode, SkipNode, MayControl, LpLaunch, Save
<1>3. /\ old \in NodeState /\ InIteration(n) /\ ~Done(old) /\ i \in Iteration
      /\ Fits(n, old, Now(n, lpExecs), Now(n, lpAllowance))
      /\ Now(n, lpExecs) \in Nat /\ Now(n, lpAllowance) \in Nat
      /\ Now(n, lpExecs) <= Now(n, lpAllowance)
      /\ \A m \in Node : lpDisk.ns[m].st # "running"
  BY <1>2, AtRest
<1>4. /\ s \in NodeState /\ s.att = old.att /\ s.st \in {"pending", "skipped"}
      /\ s.st = "skipped" <=> ~RetryNode(n)
  <2>1. "skipped" \in NodeStatus
    BY DEF NodeStatus
  <2>2. FailureSkip(old) \in NodeState /\ FailureSkip(old).att = old.att /\ FailureSkip(old).st = "skipped"
    BY <1>3, <2>1, StatusFacts DEF FailureSkip
  <2> QED
    BY <1>3, <2>2, ManualRetryFacts
<1>5. /\ lpAllowance' \in [Node -> [Iteration -> Nat]]
      /\ Now(n, lpAllowance') = IF RetryNode(n) THEN Now(n, lpAllowance) + RetryBudget(n) + 1
                                                ELSE Now(n, lpAllowance)
      /\ \A m \in Node, j \in Iteration : m # n \/ j # i => lpAllowance'[m][j] = lpAllowance[m][j]
  <2>1. CASE RetryNode(n)
    <3> HIDE DEF i
    <3> DEFINE k == lpAllowance[n][i] + RetryBudget(n) + 1
    <3>1. lpAllowance[n] \in [Iteration -> Nat] /\ i \in Iteration /\ k \in Nat
      BY <1>1, <1>3, BudgetNat
    <3>2. lpAllowance' = [lpAllowance EXCEPT ![n] = [lpAllowance[n] EXCEPT ![i] = k]]
      BY <2>1 DEF RetryNode, i
    <3> HIDE DEF k
    <3>3. [lpAllowance[n] EXCEPT ![i] = k] \in [Iteration -> Nat]
      BY <3>1
    <3>4. lpAllowance'[n][i] = k
      BY <1>1, <3>1, <3>2
    <3> QED
      BY <1>1, <2>1, <3>1, <3>2, <3>3, <3>4 DEF Now, i, k
  <2>2. CASE ~RetryNode(n)
    BY <1>1, <2>2 DEF SkipNode, Now
  <2> QED
    BY <2>1, <2>2
<1>6. Fits(n, s, Now(n, lpExecs), Now(n, lpAllowance'))
  BY <1>3, <1>5, RetryFits, SkipFits
<1>7. lpSettled' = lpSettled \cup {<<m, IterationOnDisk(m)>> : m \in X}
  <2>1. CASE RetryNode(n)
    BY <2>1 DEF RetryNode
  <2>2. CASE ~RetryNode(n)
    BY <2>2 DEF SkipNode
  <2> QED
    BY <2>1, <2>2
<1>8. n \in X <=> s.st = "skipped"
  BY <1>4
<1>9. X \in SUBSET Node /\ \A m \in Node : m # n => m \notin X
  OBVIOUS
<1> HIDE DEF s, X, i
<1>10. /\ ns \in [Node -> NodeState] /\ ns[n] = s
       /\ \A m \in Node : m # n => ns[m] = lpDisk.ns[m]
  BY <1>1, <1>4
<1> HIDE DEF ns
<1>11. \A m \in Node : Revised(lpDisk.ns[m], ns[m])
  BY <1>2, <1>3, <1>4, <1>10 DEF Revised, Controllable
<1>12. \A m \in Node : m \in X <=> ~Done(lpDisk.ns[m]) /\ Done(ns[m])
  BY <1>3, <1>4, <1>8, <1>9, <1>10 DEF Done
<1>13. ASSUME NEW m \in Node, InIteration(m)
       PROVE  Fits(m, ns[m], Now(m, lpExecs), Now(m, lpAllowance'))
  <2>1. m # n => Now(m, lpAllowance') = Now(m, lpAllowance)
    <3>1. IterationOnDisk(m) \in Iteration
      BY <1>13, AtRest
    <3> QED
      BY <1>5, <3>1 DEF Now
  <2> QED
    BY <1>6, <1>10, <1>13, <2>1, AtRest
<1>14. \A m \in Node, j \in Iteration : ~(InIteration(m) /\ j = IterationOnDisk(m)) =>
         lpAllowance'[m][j] = lpAllowance[m][j]
  BY <1>3, <1>5 DEF i
<1>15. lpExits' \in Nat /\ lpSent' \in Nat
  BY <1>1, <1>2 DEF LoopTypeOK
<1> QED
  BY <1>2, <1>5, <1>7, <1>9, <1>10, <1>11, <1>12, <1>13, <1>14, <1>15, Relaunch

LEMMA RestartSafe ==
  ASSUME LoopInv, Restart
  PROVE  LoopInv'
<1> DEFINE ns == Recovered
           X == {m \in Node : lpDisk.ns[m].st = "running" /\ Done(ns[m])}
<1>1. LoopTypeOK /\ Runner /\ Attempts /\ lpDisk \in LoopTask
  BY DEF LoopInv, LoopTypeOK
<1>2. /\ lpCtl = "down" /\ UNCHANGED <<lpGiven, lpExecs, lpAllowance, lpExits, lpSent>>
      /\ lpSettled' = lpSettled \cup {<<n, IterationOnDisk(n)>> : n \in X}
  BY DEF Restart
<1>3. /\ lpBusy = None
      /\ \A n \in Node : /\ lpDisk.ns[n] \in NodeState /\ lpDisk.ns[n].st # "waiting_approval"
                         /\ lpDisk.ns[n].st = "running" => lpDisk.ns[n].att >= 1
  BY <1>1, <1>2, Types DEF Runner, Attempts, Attempt
<1>4. CASE lpDisk.st \notin {"running", "retry_waiting"}
  <2>1. X = {}
    BY <1>4, AtRest
  <2>2. lpCtl' = "rest" /\ lpMem' = lpDisk' /\ lpDisk' = lpDisk /\ lpBusy' = None
    BY <1>1, <1>3, <1>4 DEF Restart, Runner
  <2>3. UNCHANGED lpSettled
    BY <1>2, <2>1
  <2>4. lpDisk.st \in TaskStatus /\ lpDisk = [lpDisk EXCEPT !.st = lpDisk.st]
    BY <1>1 DEF LoopTask
  <2>5. \A n \in Node : lpDisk.ns[n].st # "running"
    BY <1>4, AtRest
  <2>6. LoopTypeOK'
    BY <1>1, <1>2, <2>2, <2>3 DEF LoopTypeOK
  <2>7. Runner' /\ Attempts'
    BY <1>1, <1>4, <2>2, <2>5 DEF Runner, Attempts, Attempt
  <2>8. Cursor' /\ Open' = Open /\ Over' = Over
    BY <1>2, <2>2, SameCursor DEF LoopInv
  <2>9. Place'
    BY <1>2, <2>2, <2>8 DEF LoopInv, Place
  <2>10. Settlement' /\ Ledger'
    BY <1>2, <2>2, <2>3, <2>6, NodesStay
  <2> QED
    BY <2>6, <2>7, <2>8, <2>9, <2>10 DEF LoopInv
<1>5. CASE lpDisk.st \in {"running", "retry_waiting"}
  <2>1. PICK v \in {"running", "failed", "retry_waiting"} :
          /\ lpDisk' = [lpDisk EXCEPT !.st = v, !.ns = ns] /\ lpMem' = lpDisk' /\ lpBusy' = None
          /\ lpCtl' = (IF v = "running" THEN "choose" ELSE "rest")
    <3>1. \/ LpLaunch(ns)
          \/ Settle("retry_waiting", ns)
          \/ Settle("failed", ns)
      BY <1>5 DEF Restart
    <3> QED
      BY <3>1 DEF LpLaunch, Settle, Save
  <2>2. \A n \in Node : /\ RecoverNode(n, lpDisk.ns[n]) \in NodeState
                        /\ lpDisk.ns[n].st # "running" => RecoverNode(n, lpDisk.ns[n]) = lpDisk.ns[n]
                        /\ lpDisk.ns[n].st = "running" =>
                             /\ RecoverNode(n, lpDisk.ns[n]).att = lpDisk.ns[n].att
                             /\ RecoverNode(n, lpDisk.ns[n]).st \in {"retry_waiting", "skipped", "failed"}
                             /\ RecoverNode(n, lpDisk.ns[n]).st = "retry_waiting" =>
                                  /\ lpDisk.ns[n].auto < RetryBudget(n)
                                  /\ RecoverNode(n, lpDisk.ns[n]).auto = lpDisk.ns[n].auto + 1
                             /\ RecoverNode(n, lpDisk.ns[n]).st # "retry_waiting" =>
                                  RecoverNode(n, lpDisk.ns[n]).auto = lpDisk.ns[n].auto
    <3> SUFFICES ASSUME NEW n \in Node
                 PROVE  LET s == lpDisk.ns[n]
                            r == RecoverNode(n, s)
                        IN  /\ r \in NodeState
                            /\ s.st # "running" => r = s
                            /\ s.st = "running" =>
                                 /\ r.att = s.att /\ r.st \in {"retry_waiting", "skipped", "failed"}
                                 /\ r.st = "retry_waiting" => s.auto < RetryBudget(n) /\ r.auto = s.auto + 1
                                 /\ r.st # "retry_waiting" => r.auto = s.auto
      OBVIOUS
    <3> DEFINE s == lpDisk.ns[n]
    <3>1. s \in NodeState /\ s.st # "waiting_approval" /\ (s.st = "running" => s.att >= 1)
      BY <1>3
    <3> HIDE DEF s
    <3>2. /\ RecoverNode(n, s) \in NodeState
          /\ s.st # "running" => RecoverNode(n, s) = s
          /\ s.st = "running" =>
               /\ RecoverNode(n, s).att = s.att
               /\ RecoverNode(n, s).st \in {"retry_waiting", "skipped", "failed"}
               /\ RecoverNode(n, s).st = "retry_waiting"
                    => s.auto < RetryBudget(n) /\ RecoverNode(n, s).auto = s.auto + 1
               /\ RecoverNode(n, s).st # "retry_waiting" => RecoverNode(n, s).auto = s.auto
      BY <3>1, RecoverNodeFacts
    <3> QED
      BY <3>2 DEF s
  <2>3. ns \in [Node -> NodeState] /\ \A n \in Node : ns[n] = RecoverNode(n, lpDisk.ns[n])
    BY <2>2 DEF Recovered
  <2> HIDE DEF ns
  <2>4. \A n \in Node : Revised(lpDisk.ns[n], ns[n])
    BY <1>3, <2>2, <2>3 DEF Revised
  <2>5. \A n \in Node : n \in X <=> ~Done(lpDisk.ns[n]) /\ Done(ns[n])
    BY <2>2, <2>3 DEF Done
  <2>6. ASSUME NEW n \in Node, InIteration(n)
        PROVE  Fits(n, ns[n], Now(n, lpExecs), Now(n, lpAllowance'))
    <3>1. Now(n, lpAllowance') = Now(n, lpAllowance)
      BY <1>2 DEF Now
    <3>2. /\ Fits(n, lpDisk.ns[n], Now(n, lpExecs), Now(n, lpAllowance))
          /\ Now(n, lpExecs) \in Nat /\ Now(n, lpAllowance) \in Nat
      BY <2>6, AtRest
    <3>3. CASE lpDisk.ns[n].st = "running"
      BY <1>3, <2>2, <2>3, <3>1, <3>2, <3>3, EndFits
    <3>4. CASE lpDisk.ns[n].st # "running"
      BY <2>2, <2>3, <3>1, <3>2, <3>4
    <3> QED
      BY <3>3, <3>4
  <2>7. X \in SUBSET Node
    OBVIOUS
  <2>8. lpAllowance' \in [Node -> [Iteration -> Nat]] /\ lpExits' \in Nat /\ lpSent' \in Nat
    BY <1>1, <1>2 DEF LoopTypeOK
  <2> HIDE DEF X
  <2> QED
    BY <1>2, <2>1, <2>3, <2>4, <2>5, <2>6, <2>7, <2>8, Relaunch
<1> QED
  BY <1>4, <1>5

-----------------------------------------------------------------------------
(***************************************************************************)
(* The invariant, and what it implies.                                     *)
(***************************************************************************)
LEMMA InitLoopInv == LpInit => LoopInv
<1> SUFFICES ASSUME LpInit PROVE LoopInv
  OBVIOUS
<1>1. /\ lpGiven \in [kind: Kind, items: Iteration] /\ lpMem = lpDisk
      /\ lpDisk = [st |-> "pending", ns |-> [n \in Node |-> NewNode], choice |-> None,
                   items |-> None, phase |-> "ready", active |-> None, next |-> First, hist |-> <<>>]
      /\ lpCtl = "rest" /\ lpBusy = None /\ lpSettled = {} /\ lpExits = 0 /\ lpSent = 0
      /\ lpExecs = [n \in Node |-> [i \in Iteration |-> 0]]
      /\ lpAllowance = [n \in Node |-> [i \in Iteration |-> RetryBudget(n) + 1]]
  BY DEF LpInit
<1>2. NewNode \in NodeState /\ NewNode.st = "pending" /\ NewNode.att = 0 /\ NewNode.auto = 0
  BY DEF NewNode, NodeState, NodeStatus, Trigger
<1>3. First \in {0, 1} /\ First \in Nat
  BY DEF First
<1>4. lpDisk \in LoopTask
  BY <1>1, <1>2, <1>3 DEF LoopTask, TaskStatus, Phase
<1>5. LoopTypeOK
  BY <1>1, <1>4, BudgetNat DEF LoopTypeOK
<1>6. Runner /\ Attempts
  BY <1>1, <1>2 DEF Runner, Attempts, Attempt
<1>7. Recorded = 0 /\ Frontier = First /\ ~Open /\ lpDisk.hist = <<>>
  BY <1>1, <1>3 DEF Recorded, Frontier, Open
<1>8. Cursor
  <2>1. lpDisk.hist = [i \in 1..Recorded |-> First + i - 1]
    BY <1>7
  <2>2. Frozen
    BY <1>1, <1>7, Places DEF Frozen
  <2> QED
    BY <1>1, <1>7, <2>1, <2>2 DEF Cursor
<1>9. Place
  BY <1>1, <1>2, Places DEF Place
<1>10. Settlement
  <2>1. \A n \in InBody : lpDisk.ns[n].st = "pending"
    BY <1>1, <1>2, Places
  <2>2. \A n \in InBody, i \in Iteration : ~(First <= i /\ i < Frontier)
    BY <1>3, <1>7, Places
  <2> QED
    BY <1>1, <1>7, <2>1, <2>2 DEF Settlement
<1>11. Ledger
  <2>1. ASSUME NEW n \in Node, InIteration(n)
        PROVE  Fits(n, lpDisk.ns[n], Now(n, lpExecs), Now(n, lpAllowance))
    <3>1. IterationOnDisk(n) \in Iteration
      BY <1>5, <2>1, Types
    <3>2. Now(n, lpExecs) = 0 /\ Now(n, lpAllowance) = RetryBudget(n) + 1 /\ lpDisk.ns[n] = NewNode
      BY <1>1, <3>1 DEF Now
    <3> QED
      BY <1>2, <3>2, BudgetNat DEF Fits, Owed
  <2>2. \A n \in Node, i \in Iteration :
          lpExecs[n][i] = 0 /\ lpAllowance[n][i] = RetryBudget(n) + 1 /\ lpExecs[n][i] <= lpAllowance[n][i]
    BY <1>1, BudgetNat
  <2> QED
    BY <2>1, <2>2, Places DEF Ledger
<1> QED
  BY <1>5, <1>6, <1>8, <1>9, <1>10, <1>11 DEF LoopInv

LEMMA LoopStep == LoopInv /\ [LpNext]_lpVars => LoopInv'
<1> SUFFICES ASSUME LoopInv, [LpNext]_lpVars PROVE LoopInv'
  OBVIOUS
<1>1. CASE UNCHANGED lpVars
  <2>1. /\ lpGiven' = lpGiven /\ lpDisk' = lpDisk /\ lpMem' = lpMem /\ lpCtl' = lpCtl /\ lpBusy' = lpBusy
        /\ lpExecs' = lpExecs /\ lpAllowance' = lpAllowance /\ lpSettled' = lpSettled
        /\ lpExits' = lpExits /\ lpSent' = lpSent
    BY <1>1 DEF lpVars
  <2>2. LoopTypeOK' /\ Runner' /\ Attempts'
    BY <2>1 DEF LoopInv, LoopTypeOK, Runner, Attempts, Attempt
  <2>3. Cursor' /\ Open' = Open /\ Over' = Over
    BY <2>1, SameCursor DEF LoopInv
  <2>4. Place'
    BY <2>1, <2>3 DEF LoopInv, Place
  <2>5. Settlement' /\ Ledger'
    BY <2>1, <2>2, NodesStay
  <2> QED
    BY <2>2, <2>3, <2>4, <2>5 DEF LoopInv
<1>2. CASE \E n \in Node : StartNode(n) \/ Completes(n) \/ Fails(n) \/ Stops(n)
  BY <1>2, StartSafe, EndSafe, StopsSafe
<1>3. CASE Passing
  BY <1>3, PassingSafe
<1>4. CASE Choose \/ FreezeItems \/ StartIteration \/ EndIteration \/ LoopDone
  BY <1>4, ChooseSafe, FreezeSafe, StartIterationSafe, EndIterationSafe, LoopDoneSafe
<1>5. CASE RunTask \/ LpTimerFires \/ Restart
  BY <1>5, LaunchSafe, RestartSafe
<1>6. CASE \E n \in Node : RetryNode(n) \/ SkipNode(n)
  BY <1>6, ControlSafe
<1> QED
  BY <1>1, <1>2, <1>3, <1>4, <1>5, <1>6 DEF LpNext, LpSystem, LpEnvironment, Passing

LEMMA LoopInvImplies == LoopInv => LoopExact
<1> SUFFICES ASSUME LoopInv PROVE LoopExact
  OBVIOUS
<1>1. LoopTypeOK /\ Cursor /\ Place /\ Settlement /\ Ledger
  BY DEF LoopInv
<1>2. HistoryExact
  BY <1>1 DEF Cursor, HistoryExact, Recorded, Frontier, Open
<1>3. BudgetPerIteration
  BY <1>1 DEF Ledger, BudgetPerIteration
<1>4. ExitAfterLoop
  <2>1. Recorded \in Nat /\ First \in {0, 1} /\ lpDisk.hist \in Seq(Iteration)
    BY <1>1, Types
  <2>2. Over /\ lpGiven.kind = "items" => Recorded = lpGiven.items
    <3>1. lpGiven.kind = "items" /\ lpDisk.items # None => lpDisk.items = lpGiven.items /\ Recorded <= lpDisk.items
      BY <1>1 DEF Cursor, Frozen
    <3>2. lpGiven.kind = "items" /\ lpDisk.items = None => lpDisk.phase = "ready"
      BY <1>1 DEF Cursor, Frozen
    <3> QED
      BY <1>1, <2>1, <3>1, <3>2, Places DEF Over, Cursor
  <2>3. Over => lpDisk.phase = "completed" \/ lpGiven.items = 0
    BY <1>1, Places DEF Over, Cursor, Frozen
  <2>4. ASSUME NEW i \in DOMAIN lpDisk.hist, NEW n \in InBody
        PROVE  <<n, lpDisk.hist[i]>> \in lpSettled
    <3>1. i \in 1..Recorded /\ lpDisk.hist[i] \in Iteration
      BY <2>1, <2>4 DEF Recorded
    <3>2. lpDisk.hist[i] = First + i - 1
      BY <1>1, <3>1 DEF Cursor
    <3>3. First <= lpDisk.hist[i] /\ lpDisk.hist[i] < Frontier
      BY <2>1, <3>1, <3>2 DEF Frontier
    <3> QED
      BY <1>1, <3>1, <3>3 DEF Settlement
  <2>5. \A i \in DOMAIN lpDisk.hist : InBody \X {lpDisk.hist[i]} \subseteq lpSettled
    BY <2>4
  <2> QED
    BY <1>1, <2>2, <2>3, <2>5 DEF ExitAfterLoop, Place, Recorded
<1>5. OneBranch
  <2> DEFINE S == {b \in Branches : lpExecs[b][0] > 0}
  <2>1. S \subseteq {lpDisk.choice}
    BY <1>1 DEF Place
  <2>2. IsFiniteSet({lpDisk.choice}) /\ Cardinality({lpDisk.choice}) = 1
    BY FS_Singleton
  <2>3. Cardinality(S) <= 1
    <3> HIDE DEF S
    <3> QED
      BY <2>1, <2>2, FS_Subset
  <2> QED
    BY <2>3 DEF OneBranch
<1> QED
  BY <1>2, <1>3, <1>4, <1>5 DEF LoopExact

-----------------------------------------------------------------------------
(***************************************************************************)
(* The results.                                                            *)
(***************************************************************************)
LEMMA LoopInvariant == LpSpec => []LoopInv
BY InitLoopInv, LoopStep, PTL DEF LpSpec

\* Every variable holds a value of its type.
THEOREM LoopTypes == LpSpec => []LoopTypeOK
<1>1. LoopInv => LoopTypeOK
  BY DEF LoopInv
<1> QED
  BY <1>1, LoopInvariant, PTL

\* Whatever fails, is retried, skipped, crashes or is resumed: no iteration is
\* repeated or lost, every one keeps to its retry budget, the exit waits for
\* the end of the loop and one branch of the gateway runs.
THEOREM LoopIsExact == LpSpec => []LoopExact
BY LoopInvariant, LoopInvImplies, PTL

\* A node that settled in an iteration is not executed again in it.
THEOREM LoopOnce == LpSpec => OncePerIteration
<1> DEFINE Once == \A n \in Node, i \in Iteration :
                     lpExecs'[n][i] > lpExecs[n][i] => <<n, i>> \notin lpSettled
<1>1. LoopInv /\ [LpNext]_lpVars => [Once]_lpVars
  <2> SUFFICES ASSUME LoopInv, LpNext PROVE Once
    OBVIOUS
  <2>1. \A n \in Node, i \in Iteration : lpExecs[n][i] \in Nat
    BY Types DEF LoopInv
  <2>2. CASE UNCHANGED lpExecs
    BY <2>1, <2>2
  <2>3. ASSUME NEW n \in Node, StartNode(n)
        PROVE  Once
    <3>1. /\ lpExecs' = [lpExecs EXCEPT ![n][IterationOnDisk(n)] = @ + 1]
          /\ <<n, IterationOnDisk(n)>> \notin lpSettled
      BY <2>3, StartSafe DEF StartNode, IterationOf, IterationOnDisk, LoopInv, Runner
    <3>2. lpExecs \in [Node -> [Iteration -> Nat]]
      BY DEF LoopInv, LoopTypeOK
    <3>3. \A m \in Node, j \in Iteration :
            m # n \/ j # IterationOnDisk(n) => lpExecs'[m][j] = lpExecs[m][j]
      BY <3>1, <3>2
    <3> QED
      BY <2>1, <3>1, <3>3
  <2>4. (\E n \in Node : StartNode(n)) \/ UNCHANGED lpExecs
    BY DEF LpNext, LpSpec, LpSystem, LpEnvironment, Completes, Fails, Stops, Choose, NoBranchMatches,
           BranchDone, FreezeItems, StartIteration, EndIteration, LoopDone, ExitDone, Persist,
           LpTimerFires, Restart, RunTask, LpCrash, RetryNode, SkipNode, Rest
  <2> QED
    BY <2>2, <2>3, <2>4
<1> QED
  BY <1>1, LoopInvariant, PTL DEF LpSpec, OncePerIteration

=============================================================================
