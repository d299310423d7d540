----------------------------- MODULE WorkflowPlan -----------------------------
(***************************************************************************)
(* From a drawn workflow to the steps the engine executes                  *)
(* (workflow/definition.py, execution_flow.py, execution_loop.py): parallel*)
(* gateways are paired with the gateway that collects their branches, the  *)
(* definition is validated, the graph is turned into a plan, and the plan  *)
(* is walked, with a plan of its own for the branch a condition chooses and*)
(* a walk of its own for the body of a loop.                               *)
(*                                                                         *)
(* Every node succeeds: what failures do is in WorkflowTask, NodeSequence  *)
(* and LoopCursor.  A definition is [nodes, kind (of each gateway), list   *)
(* (the gateways in their order), edges (in theirs)]; texts, variables and *)
(* the output checks of nodes are left out.                                *)
(***************************************************************************)
EXTENDS Integers, Sequences, FiniteSets, SequencesExt

CONSTANTS
  WpDefs,     \* the definitions, by name
  WpTimes     \* how often a loop is to be repeated

VARIABLES
  wpDef,      \* the definition
  wpChoice,   \* at each condition gateway the branch whose condition holds
  wpTimes, wpOff, \* repetitions of a loop; the nodes the scheme leaves out
  wpPc,       \* "drawn", "refused", "ready", "runs", "completed", "failed"
  wpStack,    \* the plan segments being executed, the innermost last
  wpStat,     \* of each node
  wpRan       \* history: the nodes that were executed, in order

wpVars == <<wpDef, wpChoice, wpTimes, wpOff, wpPc, wpStack, wpStat, wpRan>>

DrawnStart == "__start__"
DrawnEnd == "__end__"
NoNode == "none"

-----------------------------------------------------------------------------
(***************************************************************************)
(* The graph                                                               *)
(***************************************************************************)
GatesOf(d, k) == {g \in DOMAIN d.kind : d.kind[g] = k}
WpEdges(d) == Range(d.edges)
SuccsAlong(edges, n) == LET out == SelectSeq(edges, LAMBDA e : e.from = n)
                        IN [i \in DOMAIN out |-> out[i].to]
WpFirst(s) == IF s = <<>> THEN NoNode ELSE Head(s)
DefaultTargets(d, n) == {e.to : e \in {x \in WpEdges(d) : x.from = n /\ x.default}}

\* What can be reached from S by edges that do not leave a member of shut.
RECURSIVE WpReach(_, _, _)
WpReach(E, S, shut) ==
  LET more == {e.to : e \in {x \in E : x.from \in S \ shut}}
  IN IF more \subseteq S THEN S ELSE WpReach(E, S \cup more, shut)

\* A definition with, of each element, its successors in the order of the edges and what
\* it leads to; and auto_pair_gateways: the first gateway in the list that every branch
\* reaches.
PairedWith(d, p) ==
  WpFirst(SelectSeq(d.list, LAMBDA c : /\ d.kind[c] = "converge"
                                       /\ \A t \in Range(d.succ[p]) : c \in d.from[t]))
Linked(d) ==
  LET all == d.nodes \cup DOMAIN d.kind \cup {DrawnStart, DrawnEnd}
  IN d @@ [succ |-> [n \in all |-> SuccsAlong(d.edges, n)],
           from |-> [n \in all |-> WpReach(WpEdges(d), {n}, {})]]
WithPairs(d) == d @@ [pair |-> [p \in GatesOf(d, "parallel") |-> PairedWith(d, p)]]
WpRead == [w \in DOMAIN WpDefs |-> WithPairs(Linked(WpDefs[w]))]

\* The nodes in front of a loop gateway that its continue edge leads to.
LoopBodySet(d, l, t) ==
  (IF t = l THEN {} ELSE WpReach({e \in WpEdges(d) : e.to # l}, {t}, {})) \cap d.nodes

-----------------------------------------------------------------------------
(***************************************************************************)
(* validate                                                                *)
(***************************************************************************)
ParallelsValid(d) ==
  \A p \in GatesOf(d, "parallel") :
    LET out == Range(d.succ[p])
        joins == GatesOf(d, "converge")
    IN /\ Len(d.succ[p]) >= 2 /\ out \cap joins = {} /\ d.pair[p] # NoNode
       /\ WpReach(WpEdges(d), out, joins) \cap GatesOf(d, "parallel") = {}

ConvergesValid(d) ==
  \A c \in GatesOf(d, "converge") :
    /\ Cardinality({i \in DOMAIN d.edges : d.edges[i].to = c}) >= 2
    /\ Len(d.succ[c]) = 1

ChoicesValid(d) ==
  \A g \in GatesOf(d, "condition") \cup GatesOf(d, "loop") :
    /\ \E e \in WpEdges(d) : e.to = g
    /\ DefaultTargets(d, g) # {}
    /\ IF d.kind[g] = "loop" THEN Len(d.succ[g]) = 2 ELSE Len(d.succ[g]) >= 2

\* The body holds no gateways: the check for a loop inside it never fails.
LoopsValid(d) ==
  \A l \in GatesOf(d, "loop") :
    LET go == WpFirst(SelectSeq(d.succ[l], LAMBDA t : t \notin DefaultTargets(d, l)))
    IN go # NoNode => LoopBodySet(d, l, go) \cap GatesOf(d, "loop") = {}

WpValid(d) ==
  /\ ParallelsValid(d) /\ ConvergesValid(d) /\ ChoicesValid(d) /\ LoopsValid(d)
  /\ d.nodes \cap DOMAIN d.kind = {}
  /\ \A n \in d.nodes : Len(d.succ[n]) <= 1
  /\ DrawnEnd \in d.from[DrawnStart]
  /\ d.nodes \subseteq d.from[DrawnStart]

-----------------------------------------------------------------------------
(***************************************************************************)
(* get_execution_plan                                                      *)
(***************************************************************************)
\* _find_convergence_node: in the order of a breadth-first search from the first
\* branch, what every branch reaches and no branch begins with.
RECURSIVE WpFirstIn(_, _, _, _)
WpFirstIn(d, queue, seen, wanted) ==
  IF queue = <<>> THEN DrawnEnd
  ELSE IF Head(queue) \in seen THEN WpFirstIn(d, Tail(queue), seen, wanted)
  ELSE IF Head(queue) \in wanted THEN Head(queue)
  ELSE WpFirstIn(d, Tail(queue) \o d.succ[Head(queue)], seen \cup {Head(queue)}, wanted)
Bug_FirstReachable(d, out) == WpFirstIn(d, <<Head(out)>>, {}, d.from[Head(out)] \ Range(out))
Convergence(d, out) ==
  LET common == {n \in d.from[Head(out)] : \A t \in Range(out) : n \in d.from[t]}
  IN WpFirstIn(d, <<Head(out)>>, {}, common \ Range(out))

\* The nodes of a branch up to the gateway that collects it.
RECURSIVE BranchFrom(_, _, _, _)
BranchFrom(d, n, stop, seen) ==
  IF n = NoNode \/ n \in seen \/ n = stop \/ n \in GatesOf(d, "converge") THEN <<>>
  ELSE (IF n \in d.nodes THEN <<n>> ELSE <<>>)
       \o BranchFrom(d, WpFirst(d.succ[n]), stop, seen \cup {n})

\* A depth-first search that does not enter the loop gateway again.
RECURSIVE PlannedBody(_, _, _, _)
PlannedBody(d, l, stack, seen) ==
  IF stack = <<>> THEN <<>>
  ELSE LET n == Last(stack)
       IN IF n = l \/ n \in seen THEN PlannedBody(d, l, Front(stack), seen)
          ELSE (IF n \in d.nodes THEN <<n>> ELSE <<>>)
               \o PlannedBody(d, l, Front(stack) \o SelectSeq(d.succ[n], LAMBDA t : t # l),
                           seen \cup {n})

\* What lies between a target met before and the condition that leads back to it.
BackBody(d, order, t) ==
  IF t \notin Range(order) THEN <<>>
  ELSE SelectSeq(SubSeq(order, CHOOSE i \in DOMAIN order : order[i] = t, Len(order)),
                 LAMBDA n : n \in d.nodes)

WpLast(s) == IF s = <<>> THEN NoNode ELSE Last(s)
ContinueTarget(d, l) == LET go == SelectSeq(d.succ[l], LAMBDA t : t \notin DefaultTargets(d, l))
                  IN IF go = <<>> THEN WpFirst(d.succ[l]) ELSE Last(go)
ExitTarget(d, l) == WpLast(SelectSeq(d.succ[l], LAMBDA t : t \in DefaultTargets(d, l)))

PlanStep(type, at) == [type |-> type, at |-> at, parts |-> <<>>, conv |-> NoNode, exit |-> NoNode]

\* order is the walk so far; seen holds also the nodes of branches.
RECURSIVE PlanFrom(_, _, _, _, _)
PlanFrom(d, n, stop, seen, order) ==
  IF n = NoNode \/ n \in seen \/ n = stop THEN <<>>
  ELSE
  LET out == d.succ[n]
      kind == IF n \in DOMAIN d.kind THEN d.kind[n] ELSE "other"
      Go(t, more) == PlanFrom(d, t, stop, seen \cup {n} \cup more, Append(order, n))
      join == IF kind = "parallel" THEN d.pair[n] ELSE NoNode
      parts == [i \in DOMAIN out |-> BranchFrom(d, out[i], join, {})]
      back == SelectSeq(out, LAMBDA t : t \in seen \ {n})
      body == BackBody(d, order, WpLast(back))
      leave == WpFirst(SelectSeq(out, LAMBDA t : t # WpLast(back)))
      conv == Convergence(d, out)
  IN CASE kind = "parallel" ->
            <<[PlanStep("parallel", n) EXCEPT !.parts = parts]>> \o
            (IF join = NoNode THEN <<>>
             ELSE <<PlanStep("converge", join)>> \o
                  PlanFrom(d, WpFirst(d.succ[join]), stop,
                           seen \cup {n, join} \cup UNION {Range(parts[i]) : i \in DOMAIN out},
                           order \o <<n, join>>))
       [] kind = "condition" /\ back # <<>> ->
            <<[PlanStep(IF body = <<>> THEN "condition" ELSE "back", n) EXCEPT
                 !.parts = <<body>>, !.exit = leave]>> \o Go(leave, {})
       [] kind = "condition" /\ back = <<>> ->
            <<[PlanStep("condition", n) EXCEPT !.conv = conv]>> \o Go(WpFirst(out), {})
       [] kind = "loop" ->
            <<[PlanStep("loop", n) EXCEPT !.parts = <<PlannedBody(d, n, <<ContinueTarget(d, n)>>, {})>>,
                                       !.exit = ExitTarget(d, n)]>> \o Go(ExitTarget(d, n), {})
       [] OTHER ->
            (IF n \in d.nodes THEN <<PlanStep("node", n)>> ELSE <<>>) \o Go(WpFirst(out), {})

WpPlan(d, start, stop) == PlanFrom(d, start, stop, {}, <<>>)

-----------------------------------------------------------------------------
(***************************************************************************)
(* _execute_loop_body: a walk of its own over the nodes of the body and all*)
(* the gateways of the definition                                          *)
(***************************************************************************)
InsideBody(d, body) ==
  LET in == Range(body) \cup DOMAIN d.kind
  IN [d EXCEPT !.succ = [n \in DOMAIN @ |->
                           SelectSeq(@[n], LAMBDA t : {n, t} \subseteq in)]]

\* The first node whose predecessors are gateways.
BodyEntry(d, body) ==
  LET open == SelectSeq(body, LAMBDA n : \A e \in WpEdges(d) : e.to = n => e.from \in DOMAIN d.kind)
  IN IF open = <<>> THEN Head(body) ELSE Head(open)

RECURSIVE BodyBranch(_, _, _, _)
BodyBranch(d, n, stop, seen) ==
  IF n = NoNode \/ n \in seen \/ n = stop THEN <<>>
  ELSE (IF n \in d.nodes THEN <<n>> ELSE <<>>)
       \o BodyBranch(d, WpFirst(d.succ[n]), stop, seen \cup {n})

\* Appends those that have not been executed and are not left out.
WpRuns(ran, off, ns) == ran \o SelectSeq(ns, LAMBDA n : n \notin Range(ran) \cup off)

\* One iteration; b is the body's part of d.  A gateway or a node gives the nodes it
\* runs, what it is through with and where the walk goes on.
Bug_FirstBranchOnly(d, b, n) == BodyBranch(b, WpFirst(b.succ[n]), d.pair[n], {})
BodyParallel(d, b, n) ==
  FlattenSeq([i \in DOMAIN b.succ[n] |-> BodyBranch(b, b.succ[n][i], d.pair[n], {})])
NodesIn(d, t) == IF t \in d.nodes THEN <<t>> ELSE <<>>
BodyStep(d, b, n, choice) ==
  LET kind == IF n \in DOMAIN d.kind THEN d.kind[n] ELSE "other"
      all == IF kind = "parallel" THEN BodyParallel(d, b, n) ELSE <<>>
      chosen == IF choice[n] \in Range(b.succ[n]) THEN choice[n]
                ELSE WpLast(SelectSeq(b.succ[n], LAMBDA t : t \in DefaultTargets(d, n)))
      Walk(runs, through, to) == [runs |-> runs, through |-> through, to |-> to]
  IN CASE kind = "parallel" ->
            Walk(all, Range(all) \cup {n, d.pair[n]},
                 IF d.pair[n] = NoNode THEN NoNode ELSE WpFirst(b.succ[d.pair[n]]))
       [] kind = "condition" ->
            Walk(NodesIn(d, chosen), {n},
                 IF chosen = NoNode THEN "unmet" ELSE WpFirst(b.succ[chosen]))
       [] OTHER -> Walk(NodesIn(d, n), {n}, WpFirst(b.succ[n]))

RECURSIVE BodyFrom(_, _, _, _, _, _, _)
BodyFrom(d, b, n, done, ran, off, choice) ==
  IF n \in {NoNode, "unmet"} \cup done THEN [ran |-> ran, ok |-> n # "unmet"]
  ELSE LET step == BodyStep(d, b, n, choice)
       IN BodyFrom(d, b, step.to, done \cup step.through, WpRuns(ran, off, step.runs), off, choice)

OneIteration(d, body, off, choice) ==
  BodyFrom(d, InsideBody(d, body), BodyEntry(d, body), {}, <<>>, off, choice)

-----------------------------------------------------------------------------
(***************************************************************************)
(* The walk over the plan                                                  *)
(***************************************************************************)
WpFrame(plan, stop) == [plan |-> plan, i |-> 1, stop |-> stop]
WpTop == Last(wpStack)
WpHere == WpTop.plan[WpTop.i]
WpKept(frame) == Append(Front(wpStack), frame)
WpAdvance == wpStack' = WpKept([WpTop EXCEPT !.i = @ + 1])
WpPending(ns) == SelectSeq(ns, LAMBDA n : wpStat[n] = "pending" /\ n \notin wpOff)
WpExecutes(ns) ==
  /\ wpRan' = wpRan \o WpPending(ns)
  /\ wpStat' = [n \in wpDef.nodes |-> IF n \in Range(WpPending(ns)) THEN "done" ELSE wpStat[n]]
WpFails == wpPc' = "failed" /\ UNCHANGED wpStack
WpSame == UNCHANGED <<wpDef, wpChoice, wpTimes, wpOff>>

WpInit ==
  /\ wpDef \in {WpRead[w] : w \in DOMAIN WpDefs}
  /\ wpChoice \in {f \in [GatesOf(wpDef, "condition") -> UNION {Range(wpDef.succ[g]) : g \in GatesOf(wpDef, "condition")}] :
                     \A g \in DOMAIN f : f[g] \in Range(wpDef.succ[g])}
  /\ wpTimes \in WpTimes /\ wpOff \in {{}, {CHOOSE n \in wpDef.nodes : TRUE}}
  /\ wpPc = "drawn" /\ wpStack = <<>>
  /\ wpStat = [n \in wpDef.nodes |-> "pending"] /\ wpRan = <<>>

\* A task is created for a definition without errors, and started.
WpCreate ==
  /\ wpPc = "drawn" /\ wpPc' = IF WpValid(wpDef) THEN "ready" ELSE "refused"
  /\ WpSame /\ UNCHANGED <<wpStack, wpStat, wpRan>>

WpStart ==
  /\ wpPc = "ready" /\ wpPc' = "runs"
  /\ wpStack' = <<WpFrame(WpPlan(wpDef, DrawnStart, NoNode), NoNode)>>
  /\ WpSame /\ UNCHANGED <<wpStat, wpRan>>

WpAt(type) == wpPc = "runs" /\ WpTop.i <= Len(WpTop.plan) /\ WpHere.type = type

WpNode == WpAt("node") /\ WpExecutes(<<WpHere.at>>) /\ WpAdvance /\ WpSame /\ UNCHANGED wpPc

WpParallel ==
  /\ WpAt("parallel") /\ WpExecutes(FlattenSeq(WpHere.parts)) /\ WpAdvance
  /\ WpSame /\ UNCHANGED wpPc

WpConverge == WpAt("converge") /\ WpAdvance /\ WpSame /\ UNCHANGED <<wpPc, wpStat, wpRan>>

\* _evaluate_condition_gateway: the branches not chosen are skipped, and the chosen
\* one is executed by a plan of its own.
Unchosen(d, g, chosen, conv) ==
  UNION {IF t = conv THEN {} ELSE WpReach({e \in WpEdges(d) : e.to # conv}, {t}, {}) :
           t \in Range(d.succ[g]) \ {chosen}} \cap d.nodes

WpCondition ==
  /\ WpAt("condition")
  /\ LET chosen == wpChoice[WpHere.at]
         plan == WpPlan(wpDef, chosen, WpHere.conv)
         skip == Unchosen(wpDef, WpHere.at, chosen, WpHere.conv)
     IN /\ wpStat' = [n \in wpDef.nodes |-> IF n \in skip THEN "skipped" ELSE wpStat[n]]
        /\ IF plan = <<>> /\ chosen # WpHere.conv THEN WpFails
           ELSE wpStack' = Append(wpStack, WpFrame(plan, WpHere.conv)) /\ UNCHANGED wpPc
  /\ WpSame /\ UNCHANGED wpRan

\* _execute_loop: the body in the order it was met, once and then while the
\* condition holds; then the node the exit leads to.
WpRepeated(body, k) == FlattenSeq([i \in 1..k |-> SelectSeq(body, LAMBDA n : n \notin wpOff)])
RanLoop(bodies, ran, exit) ==
  LET last == IF exit \in wpDef.nodes THEN WpPending(<<exit>>) ELSE <<>>
  IN /\ wpRan' = ran \o last
     /\ wpStat' = [n \in wpDef.nodes |->
                     IF n \in Range(last) \/ (n \in Range(bodies) /\ n \notin wpOff)
                     THEN "done" ELSE wpStat[n]]

WpBack ==
  /\ WpAt("back")
  /\ RanLoop(WpHere.parts[1], wpRan \o WpRepeated(WpHere.parts[1], wpTimes + 1), WpHere.exit)
  /\ WpAdvance /\ WpSame /\ UNCHANGED wpPc

\* _execute_loop_gateway: one iteration for every item.
WpLoop ==
  /\ WpAt("loop") /\ WpSame
  /\ LET body == WpHere.parts[1]
         once == OneIteration(wpDef, body, wpOff, wpChoice)
         all == FlattenSeq([i \in 1..wpTimes |-> once.ran])
     IN IF body = <<>> \/ WpHere.exit = NoNode \/ (wpTimes > 0 /\ ~once.ok)
        THEN WpFails /\ UNCHANGED <<wpStat, wpRan>>
        ELSE /\ RanLoop(IF wpTimes = 0 THEN <<>> ELSE once.ran, wpRan \o all, WpHere.exit)
             /\ WpAdvance /\ UNCHANGED wpPc

\* A segment ends.  Behind a condition the outer one goes on where the branches
\* meet, or ends with it.
StepIndex(plan, after, n) ==
  {i \in after..Len(plan) : plan[i].at = n /\ \A j \in after..i - 1 : plan[j].at # n}
WpReturn ==
  /\ wpPc = "runs" /\ WpTop.i > Len(WpTop.plan) /\ WpSame /\ UNCHANGED <<wpStat, wpRan>>
  /\ IF Len(wpStack) = 1 THEN wpPc' = "completed" /\ wpStack' = <<>>
     ELSE LET outer == wpStack[Len(wpStack) - 1]
              conv == outer.plan[outer.i].conv
              index == StepIndex(outer.plan, outer.i + 1, conv)
              GoOn(i) == /\ wpStack' = Append(SubSeq(wpStack, 1, Len(wpStack) - 2), [outer EXCEPT !.i = i])
                         /\ UNCHANGED wpPc
          IN IF conv = NoNode THEN GoOn(outer.i + 1)
             ELSE IF conv \in {DrawnEnd, outer.stop} THEN GoOn(Len(outer.plan) + 1)
             ELSE IF index = {} THEN WpFails
             ELSE \E i \in index : GoOn(i)

WpNext == WpCreate \/ WpStart \/ WpNode \/ WpParallel \/ WpConverge \/ WpCondition
          \/ WpBack \/ WpLoop \/ WpReturn

-----------------------------------------------------------------------------
(***************************************************************************)
(* Properties                                                              *)
(***************************************************************************)
WpTypeOK ==
  /\ wpPc \in {"drawn", "refused", "ready", "runs", "completed", "failed"}
  /\ wpStat \in [wpDef.nodes -> {"pending", "done", "skipped"}]
  /\ Range(wpRan) \subseteq wpDef.nodes \ wpOff
  /\ wpPc = "runs" => wpStack # <<>>

\* What the drawing says: every gateway's edges are followed, of a condition the
\* chosen one, and the body of a loop as often as it is repeated.  A condition that
\* leads back lets its body run before its loop begins, and then at least once.
LeadsBack(d, g) == \E t \in Range(d.succ[g]) :
                     d.kind[g] = "condition" /\ g \in WpReach(WpEdges(d), {t}, GatesOf(d, "loop"))
WpDrawn(d) ==
  WpReach({e \in WpEdges(d) :
           /\ e.from \in GatesOf(d, "condition") /\ ~LeadsBack(d, e.from) => e.to = wpChoice[e.from]
           /\ e.from \in GatesOf(d, "loop") /\ wpTimes = 0 => e.default}, {DrawnStart}, {})
InLoop(d, n, g) == /\ n \in UNION {d.from[t] : t \in Range(d.succ[g])} 
                   /\ g \in d.from[n]
TimesDrawn(d, n) ==
  IF n \notin WpDrawn(d) \ wpOff THEN 0
  ELSE IF \E g \in GatesOf(d, "loop") : InLoop(d, n, g) THEN wpTimes
  ELSE IF \E g \in GatesOf(d, "condition") : InLoop(d, n, g) THEN wpTimes + 2
  ELSE 1

\* The drawings the planner is made for.  The branches of a parallel gateway hold nodes
\* only, up to the gateway it is paired with; no branch of a condition begins where another one leads; a body begins with
\* a node and holds no loop, and is drawn before an exit that leads to a gateway.
InBranches(d, p) == WpReach(WpEdges(d), Range(d.succ[p]), {d.pair[p]}) \ {d.pair[p]}
ApartFrom(d, g) == \A t, u \in Range(d.succ[g]) : t # u => u \notin WpReach(WpEdges(d), {t}, {g})
LoopPlain(d, l) ==
  /\ ContinueTarget(d, l) \in d.nodes
  /\ LoopBodySet(d, l, ContinueTarget(d, l)) # {}
  /\ WpReach(WpEdges(d), {ContinueTarget(d, l)}, {l}) \cap GatesOf(d, "loop") = {l}
  /\ ExitTarget(d, l) \in DOMAIN d.kind => Head(d.succ[l]) = ContinueTarget(d, l)
WpPlain(d) ==
  /\ \A p \in GatesOf(d, "parallel") : InBranches(d, p) \subseteq d.nodes
  /\ \A g \in GatesOf(d, "condition") : LeadsBack(d, g) \/ ApartFrom(d, g)
  /\ \A l \in GatesOf(d, "loop") : LoopPlain(d, l)

TimesRun(n) == Cardinality({i \in DOMAIN wpRan : wpRan[i] = n})
AsDrawn ==
  /\ wpPc # "failed"
  /\ wpPc = "completed" =>
       /\ \A n \in wpDef.nodes : TimesRun(n) = TimesDrawn(wpDef, n)
       /\ \A i, j \in DOMAIN wpRan :
            i < j /\ wpRan[i] \in wpDef.from[wpRan[j]] => wpRan[j] \in wpDef.from[wpRan[i]]

\* definition.py, execution_flow.py, execution_loop.py: what a task executes is what was
\* drawn: each node on the way that the conditions choose, exactly as often as its loop
\* says, and never before one that leads to it.
PlanAsDrawn == WpPlain(wpDef) => AsDrawn
===============================================================================
