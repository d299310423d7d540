------------------------------- MODULE Drawings -------------------------------
(***************************************************************************)
(* Workflows to plan: two blocks between START and END, with the edges and *)
(* the gateways listed in either order.                                    *)
(***************************************************************************)
EXTENDS WorkflowPlan

T == TRUE
F == FALSE

\* A block: its nodes, gateways, edges <<from, to, default>>, entry and exit, and
\* whether the edge that leaves it is the default one.
Shape(kind) ==
  CASE kind = "node" -> [nodes |-> {"a"}, gates |-> <<>>, edges |-> <<>>, ends |-> <<"a", "a", F>>]
    [] kind = "parallel" ->
         [nodes |-> {"a", "b"}, gates |-> <<<<"p", "parallel">>, <<"c", "converge">>>>,
          edges |-> <<<<"p", "a", F>>, <<"p", "b", F>>, <<"a", "c", F>>, <<"b", "c", F>>>>,
          ends |-> <<"p", "c", F>>]
    [] kind = "choice" ->
         [nodes |-> {"a", "b", "m"}, gates |-> <<<<"k", "condition">>>>,
          edges |-> <<<<"k", "a", F>>, <<"k", "b", T>>, <<"a", "m", F>>, <<"b", "m", F>>>>,
          ends |-> <<"k", "m", F>>]
    [] kind = "bypass" ->
         [nodes |-> {"a", "m"}, gates |-> <<<<"k", "condition">>>>,
          edges |-> <<<<"k", "a", F>>, <<"k", "m", T>>, <<"a", "m", F>>>>, ends |-> <<"k", "m", F>>]
    [] kind = "loop" ->
         [nodes |-> {"a"}, gates |-> <<<<"l", "loop">>>>,
          edges |-> <<<<"l", "a", F>>, <<"a", "l", F>>>>, ends |-> <<"l", "l", T>>]
    [] kind = "choice in a loop" ->
         [nodes |-> {"a", "b", "d"}, gates |-> <<<<"l", "loop">>, <<"k", "condition">>>>,
          edges |-> <<<<"l", "a", F>>, <<"a", "k", F>>, <<"k", "b", F>>, <<"k", "d", T>>,
                      <<"b", "l", F>>, <<"d", "l", F>>>>, ends |-> <<"l", "l", T>>]
    [] kind = "parallel in a loop" ->
         [nodes |-> {"a", "b", "d"},
          gates |-> <<<<"l", "loop">>, <<"p", "parallel">>, <<"c", "converge">>>>,
          edges |-> <<<<"l", "a", F>>, <<"a", "p", F>>, <<"p", "b", F>>, <<"p", "d", F>>,
                      <<"b", "c", F>>, <<"d", "c", F>>, <<"c", "l", F>>>>, ends |-> <<"l", "l", T>>]
    [] kind = "loop of a choice" ->
         [nodes |-> {"a", "b"}, gates |-> <<<<"l", "loop">>, <<"k", "condition">>>>,
          edges |-> <<<<"l", "k", F>>, <<"k", "a", F>>, <<"k", "b", T>>, <<"a", "l", F>>,
                      <<"b", "l", F>>>>, ends |-> <<"l", "l", T>>]
    [] kind = "parallel in a choice" ->
         [nodes |-> {"a", "b", "d", "m"},
          gates |-> <<<<"k", "condition">>, <<"p", "parallel">>, <<"c", "converge">>>>,
          edges |-> <<<<"k", "p", F>>, <<"k", "d", T>>, <<"p", "a", F>>, <<"p", "b", F>>,
                      <<"a", "c", F>>, <<"b", "c", F>>, <<"c", "m", F>>, <<"d", "m", F>>>>,
          ends |-> <<"k", "m", F>>]
    [] kind = "choice in a choice" ->
         [nodes |-> {"a", "b", "d", "e", "m"}, gates |-> <<<<"k", "condition">>, <<"h", "condition">>>>,
          edges |-> <<<<"k", "h", F>>, <<"k", "d", T>>, <<"h", "a", F>>, <<"h", "b", T>>,
                      <<"a", "e", F>>, <<"b", "e", F>>, <<"e", "m", F>>, <<"d", "m", F>>>>,
          ends |-> <<"k", "m", F>>]
    [] kind = "loop in a choice" ->
         [nodes |-> {"a", "d", "m"}, gates |-> <<<<"k", "condition">>, <<"l", "loop">>>>,
          edges |-> <<<<"k", "l", F>>, <<"k", "d", T>>, <<"l", "a", F>>, <<"a", "l", F>>,
                      <<"l", "m", T>>, <<"d", "m", F>>>>, ends |-> <<"k", "m", F>>]
    [] kind = "empty branch" -> \* refused
         [nodes |-> {"a"}, gates |-> <<<<"p", "parallel">>, <<"c", "converge">>>>,
          edges |-> <<<<"p", "a", F>>, <<"p", "c", F>>, <<"a", "c", F>>>>, ends |-> <<"p", "c", F>>]
    [] kind = "cut" -> \* refused
         [nodes |-> {"a", "b"}, gates |-> <<>>, edges |-> <<>>, ends |-> <<"a", "b", F>>]
    [] kind = "back" ->
         [nodes |-> {"a", "b"}, gates |-> <<<<"k", "condition">>>>,
          edges |-> <<<<"a", "b", F>>, <<"b", "k", F>>, <<"k", "a", F>>>>, ends |-> <<"a", "k", T>>]

\* Its names are made its own by a suffix.
Block(kind, x) ==
  LET s == Shape(kind)
      Own(e) == [from |-> e[1] \o x, to |-> e[2] \o x, default |-> e[3]]
  IN [nodes |-> {n \o x : n \in s.nodes},
      gates |-> [i \in DOMAIN s.gates |-> <<s.gates[i][1] \o x, s.gates[i][2]>>],
      edges |-> [i \in DOMAIN s.edges |-> Own(s.edges[i])],
      entry |-> s.ends[1] \o x, exit |-> s.ends[2] \o x, default |-> s.ends[3]]

Turned(s, turn) == IF turn THEN Reverse(s) ELSE s
Drawing(k1, k2, turnGates, turnEdges) ==
  LET x == Block(k1, "1")
      y == Block(k2, "2")
      gates == Turned(x.gates \o y.gates, turnGates)
      Join(from, to, default) == <<[from |-> from, to |-> to, default |-> default]>>
      edges == Join(DrawnStart, x.entry, F) \o x.edges \o Join(x.exit, y.entry, x.default)
               \o y.edges \o Join(y.exit, DrawnEnd, y.default)
  IN [nodes |-> x.nodes \cup y.nodes,
      list |-> [i \in DOMAIN gates |-> gates[i][1]],
      kind |-> [g \in {z[1] : z \in Range(gates)} |-> (CHOOSE z \in Range(gates) : z[1] = g)[2]],
      edges |-> Turned(edges, turnEdges)]

\* What may follow is of the simplest kinds.
Simple == {"node", "parallel", "choice", "loop"}
Shapes == Simple \cup {"bypass", "choice in a loop", "parallel in a loop", "loop of a choice",
                       "parallel in a choice", "choice in a choice", "loop in a choice", "back",
                       "empty branch", "cut"}
Drawn(kinds, then, turns) ==
  [x \in kinds \X then \X turns \X turns |-> Drawing(x[1], x[2], x[3], x[4])]
AllDrawings == Drawn(Shapes, Simple, BOOLEAN)
Bypass == Drawn({"bypass"}, {"node"}, {F})
===============================================================================
