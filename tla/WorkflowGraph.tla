----------------------------- MODULE WorkflowGraph -----------------------------
(* The graph of a workflow definition w: its nodes, and edges from node to node. *)

Preds(w, n) == {e.from : e \in {d \in w.edges : d.to = n}}

\* Edges join nodes, and every set of nodes has one with no predecessor in the set.
Acyclic(w) ==
    /\ \A e \in w.edges : e.from \in w.nodes /\ e.to \in w.nodes
    /\ \A X \in SUBSET w.nodes : X # {} => \E n \in X : Preds(w, n) \cap X = {}
=============================================================================
