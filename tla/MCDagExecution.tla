----------------------------- MODULE MCDagExecution -----------------------------
(* DagExecution for TLC: the workflows it executes. *)
EXTENDS DagExecution

Edge(a, b, when) == [from |-> a, to |-> b, when |-> when]

\* At most one node of the workflow has an error strategy other than "fail".
Plain(nodes) == [n \in nodes |-> "fail"]
Strategies(nodes) ==
    {f \in [nodes -> {"fail", "skip", "retry"}] :
       Cardinality({n \in nodes : f[n] # "fail"}) <= 1}

\* Every workflow on the nodes 1..k in which edges lead to a larger number (every
\* acyclic graph is one of these up to the names of its nodes), for the given
\* conditionals and strategies.  Labels only matter on the edges of a conditional.
Pairs(k) == {p \in (1..k) \X (1..k) : p[1] < p[2]}
Graphs(k, conditionals, strategies, branches) ==
    LET Labels(p) == IF p[1] \in conditionals THEN branches ELSE {"none", "always"}
    IN {[nodes |-> 1..k,
         edges |-> {Edge(p[1], p[2], l[p]) : p \in {q \in Pairs(k) : l[q] # "none"}},
         conditionals |-> conditionals,
         onError |-> f] :
           <<l, f>> \in {m \in [Pairs(k) -> branches \cup {"always"}] :
                          \A p \in Pairs(k) : m[p] \in Labels(p)} \X strategies}

ThreeNodeGraphs ==
    UNION {Graphs(3, c, Strategies(1..3), {"none", "always", "true", "false"}) : c \in {{}, {1}, {2}}}
    \cup Graphs(3, {1, 2}, {Plain(1..3)}, {"none", "always", "true", "false"})

\* Four nodes, each with an edge, at most one conditional, whose edges all carry a branch.
FourNodeGraphs ==
    {w \in UNION {Graphs(4, c, {Plain(1..4)}, {"none", "true", "false"}) : c \in {{}, {1}, {2}, {3}}} :
       \A n \in w.nodes : \E e \in w.edges : n \in {e.from, e.to}}

\* Larger shapes: a diamond behind a conditional, two conditionals whose branches
\* meet, and a conditional beside an unconditional path.
LargerGraphs ==
    {[nodes |-> 1..5,
      edges |-> {Edge(1, 2, "true"), Edge(1, 3, "false"), Edge(2, 4, "always"),
                 Edge(3, 4, "always"), Edge(4, 5, "always")},
      conditionals |-> {1}, onError |-> [Plain(1..5) EXCEPT ![2] = "skip"]],
     [nodes |-> 1..5,
      edges |-> {Edge(1, 3, "true"), Edge(1, 4, "false"), Edge(2, 4, "true"),
                 Edge(2, 3, "false"), Edge(3, 5, "always"), Edge(4, 5, "always")},
      conditionals |-> {1, 2}, onError |-> [Plain(1..5) EXCEPT ![3] = "retry"]],
     [nodes |-> 1..5,
      edges |-> {Edge(1, 3, "true"), Edge(1, 4, "false"), Edge(2, 4, "always"),
                 Edge(4, 5, "always"), Edge(3, 5, "always")},
      conditionals |-> {1}, onError |-> [Plain(1..5) EXCEPT ![1] = "skip"]]}

AllGraphs == ThreeNodeGraphs \cup FourNodeGraphs \cup LargerGraphs
=============================================================================
