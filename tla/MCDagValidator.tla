----------------------------- MODULE MCDagValidator -----------------------------
(* DagValidator for TLC: the definitions it validates. *)
EXTENDS DagValidator

IdsUsed == {1, 2, 3, 4, 9}

Edge(a, b) == [from |-> a, to |-> b]
Def(nodes, edges) == [nodes |-> nodes, edges |-> edges]

\* The edges between n nodes, and the definition with those in E, in that order.
EdgeList(n) == [k \in 1..(n * n) |-> Edge(1 + ((k - 1) \div n), 1 + ((k - 1) % n))]
Graph(nodes, E) == Def(nodes, SelectSeq(EdgeList(Len(nodes)), LAMBDA e : e \in E))

\* Three nodes and every set of edges between them, self-loops included.
ThreeNodes == {Graph(<<1, 2, 3>>, E) : E \in SUBSET [from : 1..3, to : 1..3]}

\* Four nodes and every set of up to four edges without self-loops.
FourNodes ==
    LET proper == {e \in [from : 1..4, to : 1..4] : e.from # e.to}
    IN {Graph(<<1, 2, 3, 4>>, E) : E \in {F \in SUBSET proper : Cardinality(F) <= 4}}

\* Short lists with repetitions: parallel edges, repeated ids, unknown endpoints.
Odd ==
    {Def(n, e) : n \in {<<1, 2>>, <<2, 1>>, <<1, 1>>, <<1, 2, 1>>, <<1>>},
                 e \in UNION {[1..k -> {Edge(1, 2), Edge(2, 1), Edge(1, 9), Edge(9, 1)}] : k \in 0..3}}

AllDefinitions == ThreeNodes \cup FourNodes \cup Odd
=============================================================================
