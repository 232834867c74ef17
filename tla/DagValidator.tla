------------------------------ MODULE DagValidator ------------------------------
(***************************************************************************)
(* validateDag: what a workflow definition goes through before a version   *)
(* is created.  Each check runs only if the ones before it found nothing:  *)
(* duplicate ids, edge endpoints, cycles (depth-first search with three    *)
(* colours), and last Kahn's algorithm for the execution order, which      *)
(* executeRun uses again to number the steps.                              *)
(*                                                                         *)
(* An iteration of a loop is an action.  Errors are a set of records: their *)
(* wording and order are left out.  The search examines the neighbours of a *)
(* node, and Kahn's algorithm its edges, in any order (the code's order is  *)
(* that of the definition's edges).                                        *)
(***************************************************************************)
EXTENDS Naturals, Sequences, FiniteSets

CONSTANTS
    NodeId,        \* what a definition may use as an id
    Definitions    \* the definitions to validate

\* A definition lists node ids and edges; both lists may repeat an element.
ASSUME DefinitionsAssumption ==
    \A d \in Definitions : /\ d.nodes \in Seq(NodeId)
                           /\ d.edges \in Seq([from : NodeId, to : NodeId])

VARIABLES
    dag,       \* the definition
    pc,        \* "duplicates", "references", "cycles", "sort", "sources", "sorting", "done"
    errors,    \* the errors found so far
    color,     \* color[n]: white (unvisited), gray (being visited), black (finished)
    stack,     \* the calls of dfs: [node, left], left: neighbours not yet examined
    inDegree,  \* inDegree[n] of Kahn's algorithm
    queue,     \* its queue
    pending,   \* the edges of the node taken last that are not yet followed
    order      \* the execution order

searchVars == <<color, stack>>
sortVars   == <<inDegree, queue, pending, order>>
vars == <<dag, pc, errors, searchVars, sortVars>>

Ids == {dag.nodes[i] : i \in DOMAIN dag.nodes}
Edges == {dag.edges[k] : k \in DOMAIN dag.edges}
Neighbors(n) == {e.to : e \in {x \in Edges : x.from = n}}

Init ==
    /\ dag \in Definitions
    /\ pc = "duplicates"
    /\ errors = {}
    /\ color = [n \in Ids |-> "white"]
    /\ stack = <<>>
    /\ inDegree = [n \in Ids |-> 0]
    /\ queue = <<>> /\ pending = {} /\ order = <<>>

-----------------------------------------------------------------------------
(* checkDuplicateNodeIds, checkEdgeReferences. *)

DuplicateIds ==
    {[kind |-> "duplicate", path |-> <<dag.nodes[i]>>] :
       i \in {i \in DOMAIN dag.nodes : \E j \in 1..(i - 1) : dag.nodes[j] = dag.nodes[i]}}

BadReferences ==
    {[kind |-> "reference", path |-> <<e.from, e.to>>] :
       e \in {e \in Edges : e.from \notin Ids \/ e.to \notin Ids \/ e.from = e.to}}

CheckDuplicates ==
    /\ pc = "duplicates"
    /\ errors' = DuplicateIds
    /\ pc' = IF DuplicateIds = {} THEN "references" ELSE "done"
    /\ UNCHANGED <<dag, searchVars, sortVars>>

CheckReferences ==
    /\ pc = "references"
    /\ errors' = BadReferences
    /\ pc' = IF BadReferences # {} THEN "done"
             ELSE IF dag.edges = <<>> THEN "sort" ELSE "cycles"
    /\ UNCHANGED <<dag, searchVars, sortVars>>

-----------------------------------------------------------------------------
(* detectCycles. *)

Top == stack[Len(stack)]
Call(n) == [node |-> n, left |-> Neighbors(n)]

\* The neighbour m of the node on top has been looked at.
Examined(m) == [stack EXCEPT ![Len(stack)].left = @ \ {m}]

Searching == pc = "cycles" /\ stack # <<>>

\* dfs is called for a node that no call has visited.
StartSearch(n) ==
    /\ pc = "cycles" /\ stack = <<>>
    /\ color[n] = "white"
    /\ color' = [color EXCEPT ![n] = "gray"]
    /\ stack' = <<Call(n)>>
    /\ UNCHANGED <<dag, pc, errors, sortVars>>

\* Mutant: a node is black as soon as it is visited.
Descend_TwoColors(m) ==
    /\ Searching /\ m \in Top.left
    /\ color[m] = "white"
    /\ color' = [color EXCEPT ![m] = "black"]
    /\ stack' = Append(Examined(m), Call(m))
    /\ UNCHANGED <<dag, pc, errors, sortVars>>

Descend(m) ==
    /\ Searching /\ m \in Top.left
    /\ color[m] = "white"
    /\ color' = [color EXCEPT ![m] = "gray"]
    /\ stack' = Append(Examined(m), Call(m))
    /\ UNCHANGED <<dag, pc, errors, sortVars>>

\* A finished neighbour needs no second look.
PassBlack(m) ==
    /\ Searching /\ m \in Top.left
    /\ color[m] = "black"
    /\ stack' = Examined(m)
    /\ UNCHANGED <<dag, pc, errors, color, sortVars>>

\* Mutant: the slice starts behind m.
CyclePath_OffByOne(m) ==
    LET path == [i \in DOMAIN stack |-> stack[i].node]
        at == {i \in DOMAIN path : path[i] = m}
    IN IF at = {} THEN <<path[Len(path)], m>>
       ELSE Append(SubSeq(path, 1 + CHOOSE i \in at : \A j \in at : i <= j, Len(path)), m)

\* The path from the first occurrence of m, closed by m.  Where m is not on the path
\* indexOf is -1, and slice(-1) is the last node alone.
CyclePath(m) ==
    LET path == [i \in DOMAIN stack |-> stack[i].node]
        at == {i \in DOMAIN path : path[i] = m}
    IN IF at = {} THEN <<path[Len(path)], m>>
       ELSE Append(SubSeq(path, CHOOSE i \in at : \A j \in at : i <= j, Len(path)), m)

\* Mutant: the cycle ends the validation from inside the search.
FindCycle_Escapes(m) ==
    /\ Searching /\ m \in Top.left
    /\ color[m] = "gray"
    /\ errors' = errors \cup {[kind |-> "cycle", path |-> CyclePath(m)]}
    /\ pc' = "done"
    /\ UNCHANGED <<dag, searchVars, sortVars>>

\* A gray neighbour: the error is recorded and every call of dfs returns true,
\* leaving its node gray.
FindCycle(m) ==
    /\ Searching /\ m \in Top.left
    /\ color[m] = "gray"
    /\ errors' = errors \cup {[kind |-> "cycle", path |-> CyclePath(m)]}
    /\ stack' = <<>>
    /\ UNCHANGED <<dag, pc, color, sortVars>>

\* All neighbours are examined: the call returns false.
Leave ==
    /\ Searching /\ Top.left = {}
    /\ color' = [color EXCEPT ![Top.node] = "black"]
    /\ stack' = SubSeq(stack, 1, Len(stack) - 1)
    /\ UNCHANGED <<dag, pc, errors, sortVars>>

\* Mutant: the search goes on until every node is black.
EndSearch_WaitsForBlack ==
    /\ pc = "cycles" /\ stack = <<>>
    /\ \A n \in Ids : color[n] = "black"
    /\ pc' = IF errors = {} THEN "sort" ELSE "done"
    /\ UNCHANGED <<dag, errors, searchVars, sortVars>>

EndSearch ==
    /\ pc = "cycles" /\ stack = <<>>
    /\ \A n \in Ids : color[n] # "white"
    /\ pc' = IF errors = {} THEN "sort" ELSE "done"
    /\ UNCHANGED <<dag, errors, searchVars, sortVars>>

-----------------------------------------------------------------------------
(* topologicalSort. *)

\* The edges, by their place in the list, that lead to n or leave it.
EdgesTo(n)   == {k \in DOMAIN dag.edges : dag.edges[k].to = n}
EdgesFrom(n) == {k \in DOMAIN dag.edges : dag.edges[k].from = n}

\* Mutant: the in-degree counts predecessors and not edges.
StartSort_CountsNodes ==
    /\ pc = "sort"
    /\ pc' = "sources"
    /\ inDegree' = [n \in Ids |-> Cardinality({dag.edges[k].from : k \in EdgesTo(n)})]
    /\ UNCHANGED <<dag, errors, searchVars, queue, pending, order>>

StartSort ==
    /\ pc = "sort"
    /\ pc' = "sources"
    /\ inDegree' = [n \in Ids |-> Cardinality(EdgesTo(n))]
    /\ UNCHANGED <<dag, errors, searchVars, queue, pending, order>>

\* The loop over the nodes queues each one that no edge leads to.
Sources == {n \in Ids : inDegree[n] = 0 /\ \A i \in DOMAIN queue : queue[i] # n}

QueueSource(n) ==
    /\ pc = "sources" /\ n \in Sources
    /\ queue' = Append(queue, n)
    /\ UNCHANGED <<dag, pc, errors, searchVars, inDegree, pending, order>>

EndSources ==
    /\ pc = "sources" /\ Sources = {}
    /\ pc' = "sorting"
    /\ UNCHANGED <<dag, errors, searchVars, sortVars>>

TakeNode ==
    /\ pc = "sorting" /\ pending = {} /\ queue # <<>>
    /\ order' = Append(order, Head(queue))
    /\ queue' = Tail(queue)
    /\ pending' = EdgesFrom(Head(queue))
    /\ UNCHANGED <<dag, pc, errors, searchVars, inDegree>>

\* The k-th edge: its target loses one from its in-degree (a zero counts as one)
\* and is queued when none is left.
FollowEdge(k) ==
    LET m == dag.edges[k].to
        degree == (IF inDegree[m] = 0 THEN 1 ELSE inDegree[m]) - 1
    IN
    /\ k \in pending
    /\ pending' = pending \ {k}
    /\ inDegree' = [inDegree EXCEPT ![m] = degree]
    /\ queue' = IF degree = 0 THEN Append(queue, m) ELSE queue
    /\ UNCHANGED <<dag, pc, errors, searchVars, order>>

EndSort ==
    /\ pc = "sorting" /\ pending = {} /\ queue = <<>>
    /\ pc' = "done"
    /\ UNCHANGED <<dag, errors, searchVars, sortVars>>

-----------------------------------------------------------------------------
Search(n) == StartSearch(n) \/ Descend(n) \/ PassBlack(n) \/ FindCycle(n)

Next ==
    \/ CheckDuplicates \/ CheckReferences
    \/ \E n \in Ids : Search(n)
    \/ Leave \/ EndSearch
    \/ StartSort \/ EndSources \/ TakeNode \/ EndSort
    \/ \E n \in Ids : QueueSource(n)
    \/ \E k \in pending : FollowEdge(k)

Spec == Init /\ [][Next]_vars

\* validateDag is one synchronous call.
FairSpec == Spec /\ WF_vars(Next)

-----------------------------------------------------------------------------
(* Properties. *)

\* Types of the variables; the search and the sort are at rest outside their stages.
TypeOK ==
    /\ dag.nodes \in Seq(NodeId) /\ dag.edges \in Seq([from : NodeId, to : NodeId])
    /\ pc \in {"duplicates", "references", "cycles", "sort", "sources", "sorting", "done"}
    /\ color \in [Ids -> {"white", "gray", "black"}]
    /\ stack \in Seq([node : Ids, left : SUBSET Ids])
    /\ stack # <<>> => pc = "cycles"
    /\ inDegree \in [Ids -> Nat]
    /\ queue \in Seq(Ids) /\ order \in Seq(Ids)
    /\ pending \subseteq DOMAIN dag.edges
    /\ pending # {} => pc = "sorting"

Distinct(s) == \A i, j \in DOMAIN s : s[i] = s[j] => i = j

\* The reference definition of a valid definition: distinct ids, edges between nodes,
\* and in every set of nodes one from which no edge leads back into the set.
Acyclic == \A X \in SUBSET Ids : X # {} => \E n \in X : Neighbors(n) \cap X = {}
WellFormed ==
    /\ Distinct(dag.nodes)
    /\ \A e \in Edges : e.from \in Ids /\ e.to \in Ids
    /\ Acyclic

\* validateDag accepts exactly the well-formed definitions: neither does the search
\* miss a cycle behind a finished node, nor do the gray nodes that an aborted search
\* leaves behind make an acyclic definition look cyclic.
AcceptsTheWellFormed == pc = "done" => (errors = {} <=> WellFormed)

\* The execution order of an accepted definition holds every node once, after all
\* its predecessors, although parallel edges count more than once in the in-degrees.
OrderIsTopological ==
    pc = "done" /\ errors = {} =>
      /\ Len(order) = Len(dag.nodes)
      /\ {order[i] : i \in DOMAIN order} = Ids
      /\ \A e \in Edges : \E i, j \in DOMAIN order :
           i < j /\ order[i] = e.from /\ order[j] = e.to

IsCycle(p) ==
    /\ Len(p) > 1 /\ p[1] = p[Len(p)]
    /\ \A i \in 1..(Len(p) - 1) : [from |-> p[i], to |-> p[i + 1]] \in Edges

CycleErrors == {e \in errors : e.kind = "cycle"}

\* A definition rejected for a cycle is shown at least one that it has.  (Not
\* every path shown is one: the nodes of a cycle that was found stay gray, and a later
\* search that meets them takes them for its own path.)
RejectionShowsACycle ==
    CycleErrors # {} => \E e \in CycleErrors : IsCycle(e.path)

\* Validation ends for every definition: the search on cyclic graphs, Kahn's algorithm
\* on parallel edges.
Terminates == <>(pc = "done")
=============================================================================
