--------------------------- MODULE DagValidatorProofs ---------------------------
(***************************************************************************)
(* Proofs about DagValidator, for every set of definitions.                *)
(*                                                                         *)
(* Acceptance: the black nodes are closed under edges and acyclic, so when *)
(* all are black the graph is.  Rejection: until the first error the gray  *)
(* nodes are exactly the path of the search, so a gray neighbour closes a  *)
(* cycle.  After the first error the colours mean less (gray nodes stay    *)
(* behind), and only that the error is justified is kept, and the cycle    *)
(* that was shown first (ShownInv).                                        *)
(*                                                                         *)
(* Execution order: a node that becomes black has no black predecessor, so *)
(* after the search every set of nodes has a source (SourceInv); the       *)
(* in-degrees count the edges not yet followed (SortInv), so the nodes     *)
(* that Kahn's algorithm leaves out would be a set without one.            *)
(*                                                                         *)
(* Termination: every step lowers the rank, a tuple of natural numbers.    *)
(***************************************************************************)
EXTENDS DagValidator, FiniteSetTheorems, SequenceTheorems, TLAPS

Stages == {"duplicates", "references", "cycles", "sort", "sources", "sorting", "done"}

\* What the stages before have found.
CheckedInv ==
    /\ pc \in {"duplicates", "references"} =>
         errors = {} /\ stack = <<>> /\ color = [n \in Ids |-> "white"]
    /\ pc \in {"sort", "sources", "sorting"} => errors = {}
    /\ pc # "duplicates" /\ errors = {} => Distinct(dag.nodes)
    /\ pc \notin {"duplicates", "references"} /\ errors = {} => BadReferences = {}
    /\ pc = "cycles" => BadReferences = {}

Black == {n \in Ids : color[n] = "black"}

\* No edge leaves the black nodes, and there is no cycle among them.
BlackInv ==
    /\ \A n \in Black : Neighbors(n) \subseteq Black
    /\ \A X \in SUBSET Black : X # {} => \E n \in X : Neighbors(n) \cap X = {}

\* The stack is a path without repetition, and its nodes are the gray ones.
PathInv ==
    /\ \A i \in DOMAIN stack : stack[i].left \subseteq Neighbors(stack[i].node)
    /\ \A n \in Ids : color[n] = "gray" <=> \E i \in DOMAIN stack : stack[i].node = n
    /\ \A i, j \in DOMAIN stack : stack[i].node = stack[j].node => i = j
    /\ \A i \in 1..(Len(stack) - 1) : stack[i + 1].node \in Neighbors(stack[i].node)

\* A neighbour that a call need not examine any more is black or the node of the
\* next call.
ExaminedInv ==
    \A i \in DOMAIN stack : \A m \in Neighbors(stack[i].node) :
      \/ m \in stack[i].left
      \/ m \in Black
      \/ i < Len(stack) /\ m = stack[i + 1].node

SearchInv == errors = {} => BlackInv /\ PathInv /\ ExaminedInv

VerdictInv ==
    /\ pc \in {"sort", "sources", "sorting", "done"} /\ errors = {} => Acyclic
    /\ errors # {} => ~WellFormed

IInv == TypeOK /\ CheckedInv /\ SearchInv /\ VerdictInv

-----------------------------------------------------------------------------
(* Lemmas about the definitions. *)

\* The definition does not change, and neither does what is computed from it.
LEMMA SameDefinition ==
    ASSUME dag' = dag
    PROVE  /\ Ids' = Ids /\ Edges' = Edges
           /\ \A n : Neighbors(n)' = Neighbors(n)
           /\ DuplicateIds' = DuplicateIds /\ BadReferences' = BadReferences
           /\ Acyclic' = Acyclic /\ WellFormed' = WellFormed
           /\ Distinct(dag.nodes)' = Distinct(dag.nodes)
BY DEF Ids, Edges, Neighbors, DuplicateIds, BadReferences, Acyclic, WellFormed, Distinct

\* checkDuplicateNodeIds finds nothing just when the ids are distinct.
LEMMA NoDuplicates ==
    ASSUME dag.nodes \in Seq(NodeId)
    PROVE  DuplicateIds = {} <=> Distinct(dag.nodes)
<1>1. DuplicateIds = {} <=>
        \A i \in DOMAIN dag.nodes : \A j \in 1..(i - 1) : dag.nodes[j] # dag.nodes[i]
  BY DEF DuplicateIds
<1>2. DOMAIN dag.nodes = 1..Len(dag.nodes) /\ Len(dag.nodes) \in Nat
  OBVIOUS
<1> QED BY <1>1, <1>2 DEF Distinct

\* Where checkEdgeReferences finds nothing, every neighbour is a node, and not the
\* node itself.
LEMMA GoodReferences ==
    ASSUME BadReferences = {}
    PROVE  /\ \A e \in Edges : e.from \in Ids /\ e.to \in Ids /\ e.from # e.to
           /\ \A n : Neighbors(n) \subseteq Ids /\ n \notin Neighbors(n)
<1>1. \A e \in Edges : e.from \in Ids /\ e.to \in Ids /\ e.from # e.to
  BY DEF BadReferences
<1> QED BY <1>1 DEF Neighbors

\* A definition with a bad reference is not well-formed.
LEMMA BadIsNotWellFormed ==
    ASSUME BadReferences # {}
    PROVE  ~WellFormed
<1>1. PICK e \in Edges : e.from \notin Ids \/ e.to \notin Ids \/ e.from = e.to
  BY DEF BadReferences
<1>2. CASE e.from \in Ids /\ e.from = e.to
  <2>1. e.from \in Neighbors(e.from)  BY <1>1, <1>2 DEF Neighbors
  <2>2. ~Acyclic
    <3>1. {e.from} \in SUBSET Ids /\ {e.from} # {}  BY <1>2
    <3> QED BY <3>1, <2>1 DEF Acyclic
  <2> QED BY <2>2 DEF WellFormed
<1> QED BY <1>1, <1>2 DEF WellFormed

-----------------------------------------------------------------------------
(* The lemmas of the search. *)

Frame == [node : Ids, left : SUBSET Ids]

\* The calls on the stack.
LEMMA Frames ==
    ASSUME stack \in Seq(Frame)
    PROVE  /\ Len(stack) \in Nat /\ DOMAIN stack = 1..Len(stack)
           /\ \A i \in 1..Len(stack) : /\ stack[i] \in Frame
                                       /\ stack[i].node \in Ids
                                       /\ stack[i].left \subseteq Ids
<1>1. ASSUME NEW i \in 1..Len(stack) PROVE stack[i] \in Frame
  OBVIOUS
<1>2. \A f \in Frame : f.node \in Ids /\ f.left \subseteq Ids
  BY DEF Frame
<1> QED BY <1>1, <1>2

\* What the search does to its stack keeps it a sequence of calls.
LEMMA StackOperations ==
    ASSUME stack \in Seq(Frame), stack # <<>>
    PROVE  /\ Len(stack) \in DOMAIN stack
           /\ Top \in Frame
           /\ \A m : /\ Examined(m) \in Seq(Frame)
                    /\ Len(Examined(m)) = Len(stack)
                    /\ \A i \in 1..Len(stack) :
                         /\ Examined(m)[i].node = stack[i].node
                         /\ Examined(m)[i].left \in {stack[i].left, stack[i].left \ {m}}
                         /\ i < Len(stack) => Examined(m)[i] = stack[i]
           /\ SubSeq(stack, 1, Len(stack) - 1) \in Seq(Frame)
           /\ Len(SubSeq(stack, 1, Len(stack) - 1)) = Len(stack) - 1
           /\ \A i \in 1..(Len(stack) - 1) : SubSeq(stack, 1, Len(stack) - 1)[i] = stack[i]
<1>1. Len(stack) \in DOMAIN stack /\ Len(stack) \in 1..Len(stack) /\ Len(stack) \in Nat
  OBVIOUS
<1>2. Top \in Frame
  BY <1>1 DEF Top
<1>3. ASSUME NEW m
      PROVE  /\ Examined(m) \in Seq(Frame)
             /\ Len(Examined(m)) = Len(stack)
             /\ \A i \in 1..Len(stack) :
                  /\ Examined(m)[i].node = stack[i].node
                  /\ Examined(m)[i].left \in {stack[i].left, stack[i].left \ {m}}
                  /\ i < Len(stack) => Examined(m)[i] = stack[i]
  <2> DEFINE f == [stack[Len(stack)] EXCEPT !.left = @ \ {m}]
  <2>1. f \in Frame /\ f.node = stack[Len(stack)].node
        /\ f.left = stack[Len(stack)].left \ {m}
    BY <1>2 DEF Top, Frame
  <2>2. Examined(m) = [stack EXCEPT ![Len(stack)] = f]  BY DEF Examined
  <2> HIDE DEF f
  <2>3. Examined(m) \in Seq(Frame) /\ Len(Examined(m)) = Len(stack)
    BY <1>1, <2>1, <2>2, ExceptSeq
  <2>4. \A i \in 1..Len(stack) :
          Examined(m)[i] = IF i = Len(stack) THEN f ELSE stack[i]
    BY <1>1, <2>1, <2>2, ExceptSeq
  <2> QED BY <2>1, <2>3, <2>4
<1>4. /\ SubSeq(stack, 1, Len(stack) - 1) \in Seq(Frame)
      /\ Len(SubSeq(stack, 1, Len(stack) - 1)) = Len(stack) - 1
      /\ \A i \in 1..(Len(stack) - 1) : SubSeq(stack, 1, Len(stack) - 1)[i] = stack[i]
  <2>1. \A i \in 1..(Len(stack) - 1) : stack[i] \in Frame  BY <1>1
  <2>2. 1 \in Int /\ Len(stack) - 1 \in Int /\ (Len(stack) - 1) - 1 + 1 = Len(stack) - 1
    BY <1>1
  <2>3. /\ SubSeq(stack, 1, Len(stack) - 1) \in Seq(Frame)
        /\ Len(SubSeq(stack, 1, Len(stack) - 1)) =
             IF 1 <= Len(stack) - 1 THEN (Len(stack) - 1) - 1 + 1 ELSE 0
        /\ \A i \in 1..((Len(stack) - 1) - 1 + 1) :
             SubSeq(stack, 1, Len(stack) - 1)[i] = stack[1 + i - 1]
    BY <2>1, <2>2, SubSeqProperties
  <2>4. \A i \in 1..(Len(stack) - 1) : 1 + i - 1 = i  BY <1>1
  <2> QED BY <1>1, <2>2, <2>3, <2>4
<1> QED BY <1>1, <1>2, <1>3, <1>4

\* A node whose neighbours are all black may become black.
LEMMA Blacken ==
    ASSUME NEW B, NEW v,
           \A n \in B : Neighbors(n) \subseteq B,
           \A X \in SUBSET B : X # {} => \E n \in X : Neighbors(n) \cap X = {},
           v \notin B, Neighbors(v) \subseteq B
    PROVE  /\ \A n \in B \cup {v} : Neighbors(n) \subseteq B \cup {v}
           /\ \A X \in SUBSET (B \cup {v}) : X # {} => \E n \in X : Neighbors(n) \cap X = {}
<1>1. \A n \in B \cup {v} : Neighbors(n) \subseteq B \cup {v}
  OBVIOUS
<1>2. ASSUME NEW X \in SUBSET (B \cup {v}), X # {}
      PROVE  \E n \in X : Neighbors(n) \cap X = {}
  <2>1. CASE X \ {v} = {}
    <3>1. v \in X /\ Neighbors(v) \cap X = {}  BY <1>2, <2>1
    <3> QED BY <3>1
  <2>2. CASE X \ {v} # {}
    <3>1. PICK n \in X \ {v} : Neighbors(n) \cap (X \ {v}) = {}
      BY <1>2, <2>2
    <3>2. n \in B /\ v \notin Neighbors(n)  BY <3>1, <1>2
    <3> QED BY <3>1, <3>2
  <2> QED BY <2>1, <2>2
<1> QED BY <1>1, <1>2

\* A gray neighbour of the node on top closes a cycle, if nothing was found before.
LEMMA GrayClosesACycle ==
    ASSUME TypeOK, PathInv, stack # <<>>,
           NEW m \in Neighbors(Top.node), m \in Ids, color[m] = "gray"
    PROVE  ~Acyclic
<1>1. Len(stack) \in Nat /\ DOMAIN stack = 1..Len(stack) /\ Len(stack) \in DOMAIN stack
  BY DEF TypeOK
<1>2. PICK i \in 1..Len(stack) : stack[i].node = m
  BY <1>1 DEF PathInv
<1> DEFINE X == {stack[j].node : j \in i..Len(stack)}
<1>3. \A j \in 1..Len(stack) : stack[j].node \in Ids
  BY Frames DEF TypeOK, Frame
<1>4. X \subseteq Ids
  BY <1>1, <1>3
<1>5. m \in X
  BY <1>1, <1>2
<1>6. ASSUME NEW n \in X PROVE Neighbors(n) \cap X # {}
  <2>1. PICK j \in i..Len(stack) : stack[j].node = n  OBVIOUS
  <2>2. CASE j = Len(stack)
    BY <2>1, <2>2, <1>5 DEF Top
  <2>3. CASE j # Len(stack)
    <3>1. j \in 1..(Len(stack) - 1) /\ j + 1 \in i..Len(stack)  BY <2>3, <1>1
    <3>2. stack[j + 1].node \in Neighbors(n)  BY <2>1, <3>1 DEF PathInv
    <3> QED BY <3>1, <3>2
  <2> QED BY <2>2, <2>3
<1> HIDE DEF X
<1> QED BY <1>4, <1>5, <1>6 DEF Acyclic

-----------------------------------------------------------------------------
(* Each part of the invariant holds initially and is preserved. *)

\* Types.
LEMMA TypePart == TypeOK /\ CheckedInv /\ [Next]_vars => TypeOK'
<1> SUFFICES ASSUME TypeOK, CheckedInv, [Next]_vars PROVE TypeOK'
  OBVIOUS
<1> USE DEF TypeOK
<1>1. CASE dag' = dag
  <2>1. Ids' = Ids  BY <1>1, SameDefinition
  <2>2. ASSUME NEW n \in Ids, BadReferences = {}
        PROVE  Call(n) \in [node : Ids, left : SUBSET Ids]
    <3>1. Neighbors(n) \subseteq Ids  BY <2>2, GoodReferences
    <3> QED BY <3>1 DEF Call
  <2>3. CASE CheckDuplicates
    BY <1>1, <2>1, <2>3 DEF CheckDuplicates, CheckedInv, searchVars, sortVars
  <2>4. CASE CheckReferences
    BY <1>1, <2>1, <2>4 DEF CheckReferences, CheckedInv, searchVars, sortVars
  <2>5. ASSUME NEW n \in Ids, StartSearch(n) PROVE TypeOK'
    BY <1>1, <2>1, <2>2, <2>5 DEF StartSearch, CheckedInv, sortVars
  <2>6. ASSUME stack # <<>>
        PROVE  /\ Len(stack) \in DOMAIN stack
               /\ Top \in [node : Ids, left : SUBSET Ids]
               /\ \A m : Examined(m) \in Seq([node : Ids, left : SUBSET Ids])
               /\ SubSeq(stack, 1, Len(stack) - 1) \in Seq([node : Ids, left : SUBSET Ids])
    BY <2>6, StackOperations DEF Frame
  <2>7. ASSUME NEW n \in Ids, Descend(n) PROVE TypeOK'
    <3>1. Call(n) \in [node : Ids, left : SUBSET Ids]
      BY <2>2, <2>7 DEF CheckedInv, Descend, Searching
    <3> QED BY <1>1, <2>1, <2>6, <2>7, <3>1, SMTT(40) DEF Descend, Searching, sortVars
  <2>8. ASSUME NEW n \in Ids, PassBlack(n) PROVE TypeOK'
    BY <1>1, <2>1, <2>6, <2>8 DEF PassBlack, Searching, sortVars
  <2>9. ASSUME NEW n \in Ids, FindCycle(n) PROVE TypeOK'
    BY <1>1, <2>1, <2>9 DEF FindCycle, Searching, sortVars
  <2>10. CASE Leave
    <3>1. SubSeq(stack, 1, Len(stack) - 1) \in Seq([node : Ids, left : SUBSET Ids])
      BY <2>6, <2>10 DEF Leave, Searching
    <3>2. Top.node \in Ids  BY <2>6, <2>10 DEF Leave, Searching
    <3> QED BY <1>1, <2>1, <2>10, <3>1, <3>2 DEF Leave, Searching, sortVars
  <2>11. CASE EndSearch
    BY <1>1, <2>1, <2>11 DEF EndSearch, searchVars, sortVars
  <2>12. CASE StartSort
    <3>1. ASSUME NEW n \in Ids PROVE Cardinality(EdgesTo(n)) \in Nat
      <4>0. Len(dag.edges) \in Int /\ 1 \in Int  OBVIOUS
      <4>1. IsFiniteSet(1..Len(dag.edges))  BY <4>0, FS_Interval
      <4>2. EdgesTo(n) \subseteq 1..Len(dag.edges)  BY DEF EdgesTo
      <4>3. IsFiniteSet(EdgesTo(n))  BY <4>1, <4>2, FS_Subset
      <4> QED BY <4>3, FS_CardinalityType
    <3>2. inDegree' \in [Ids -> Nat]  BY <2>12, <3>1 DEF StartSort
    <3> QED BY <1>1, <2>1, <2>12, <3>2 DEF StartSort, searchVars
  <2>13. CASE TakeNode
    BY <1>1, <2>1, <2>13, SMTT(40) DEF TakeNode, EdgesFrom, searchVars
  <2>14. CASE EndSort
    BY <1>1, <2>1, <2>14 DEF EndSort, searchVars, sortVars
  <2>15. ASSUME NEW k \in pending, FollowEdge(k) PROVE TypeOK'
    <3> DEFINE m == dag.edges[k].to
               degree == (IF inDegree[m] = 0 THEN 1 ELSE inDegree[m]) - 1
    <3>1. dag.edges[k] \in Edges  BY DEF Edges
    <3>2. m \in Ids  BY <2>15, <3>1, GoodReferences DEF CheckedInv
    <3>3. degree \in Nat  BY <3>2, SMTT(40)
    <3>4. inDegree' \in [Ids -> Nat]  BY <2>15, <3>2, <3>3 DEF FollowEdge
    <3>5. queue' \in Seq(Ids)  BY <2>15, <3>2 DEF FollowEdge
    <3>6. UNCHANGED <<dag, pc, errors, color, stack, order>> /\ pending' = pending \ {k}
      BY <2>15 DEF FollowEdge, searchVars
    <3> HIDE DEF m, degree
    <3> QED BY <2>1, <3>4, <3>5, <3>6
  <2>16. CASE UNCHANGED vars
    BY <1>1, <2>1, <2>16 DEF vars, searchVars, sortVars
  <2>17. ASSUME NEW n \in Ids, QueueSource(n) PROVE TypeOK'
    BY <1>1, <2>1, <2>17 DEF QueueSource, searchVars
  <2>18. CASE EndSources
    BY <1>1, <2>1, <2>18 DEF EndSources, searchVars, sortVars
  <2> QED BY <2>3, <2>4, <2>5, <2>7, <2>8, <2>9, <2>10, <2>11, <2>12, <2>13, <2>14,
             <2>15, <2>16, <2>17, <2>18 DEF Next, Search
<1>2. dag' = dag
  BY DEF Next, vars, CheckDuplicates, CheckReferences, Search, StartSearch, Descend,
     PassBlack, FindCycle, Leave, EndSearch, StartSort, QueueSource, EndSources,
     TakeNode, EndSort, FollowEdge
<1> QED BY <1>1, <1>2

\* What the stages have found.
LEMMA CheckedPart == TypeOK /\ CheckedInv /\ [Next]_vars => CheckedInv'
<1> SUFFICES ASSUME TypeOK, CheckedInv, [Next]_vars PROVE CheckedInv'
  OBVIOUS
<1> USE DEF CheckedInv
<1>1. ASSUME dag' = dag
      PROVE  /\ Ids' = Ids /\ BadReferences' = BadReferences
             /\ Distinct(dag.nodes)' = Distinct(dag.nodes)
  BY <1>1, SameDefinition
<1>2. CASE CheckDuplicates
  <2>1. DuplicateIds = {} <=> Distinct(dag.nodes)  BY NoDuplicates DEF TypeOK
  <2> QED BY <1>1, <1>2, <2>1 DEF CheckDuplicates, searchVars
<1>3. CASE CheckReferences
  BY <1>1, <1>3 DEF CheckReferences
<1>4. ASSUME NEW n \in Ids, Search(n) PROVE CheckedInv'
  BY <1>1, <1>4 DEF Search, StartSearch, Descend, PassBlack, FindCycle, Searching
<1>5. CASE Leave
  BY <1>1, <1>5 DEF Leave, Searching
<1>6. CASE EndSearch
  BY <1>1, <1>6 DEF EndSearch, searchVars
<1>7. CASE StartSort
  BY <1>1, <1>7 DEF StartSort, searchVars
<1>8. ASSUME NEW n \in Ids, QueueSource(n) PROVE CheckedInv'
  BY <1>1, <1>8 DEF QueueSource, searchVars
<1>9. CASE EndSources
  BY <1>1, <1>9 DEF EndSources, searchVars
<1>10. CASE TakeNode
  BY <1>1, <1>10 DEF TakeNode, searchVars
<1>11. CASE EndSort
  BY <1>1, <1>11 DEF EndSort, searchVars
<1>12. ASSUME NEW k \in pending, FollowEdge(k) PROVE CheckedInv'
  BY <1>1, <1>12 DEF FollowEdge, searchVars
<1>13. CASE UNCHANGED vars
  BY <1>1, <1>13 DEF vars, searchVars
<1> QED BY <1>2, <1>3, <1>4, <1>5, <1>6, <1>7, <1>8, <1>9, <1>10, <1>11, <1>12, <1>13 DEF Next

-----------------------------------------------------------------------------
(* The search: one lemma for each action that touches the colours or the stack. *)

\* A search that starts has the node it starts from as its path.
LEMMA StartKeepsSearch ==
    ASSUME TypeOK, SearchInv, NEW n \in Ids, StartSearch(n)
    PROVE  SearchInv'
<1> SUFFICES ASSUME errors = {} PROVE (BlackInv /\ PathInv /\ ExaminedInv)'
  BY DEF SearchInv, StartSearch
<1>1. Ids' = Ids /\ \A k : Neighbors(k)' = Neighbors(k)
  BY SameDefinition DEF StartSearch
<1>2. \A k \in Ids : color'[k] = IF k = n THEN "gray" ELSE color[k]
  BY DEF StartSearch, TypeOK
<1>3. color[n] = "white" /\ stack = <<>> /\ stack' = <<Call(n)>>
  BY DEF StartSearch
<1>4. DOMAIN stack' = {1} /\ Len(stack') = 1 /\ stack'[1] = [node |-> n, left |-> Neighbors(n)]
  BY <1>3 DEF Call
<1>5. BlackInv /\ PathInv
  BY DEF SearchInv
<1>6. Black' = Black
  BY <1>1, <1>2, <1>3 DEF Black
<1>7. BlackInv'
  BY <1>1, <1>5, <1>6 DEF BlackInv
<1>8. PathInv'
  <2>1. \A k \in Ids : color[k] # "gray"  BY <1>3, <1>5 DEF PathInv
  <2> QED BY <1>1, <1>2, <1>4, <2>1 DEF PathInv
<1>9. ExaminedInv'
  BY <1>1, <1>4 DEF ExaminedInv
<1> QED BY <1>7, <1>8, <1>9

\* A search that descends to a white neighbour makes its path longer by it.
LEMMA DescendKeepsSearch ==
    ASSUME TypeOK, CheckedInv, SearchInv, NEW n \in Ids, Descend(n)
    PROVE  SearchInv'
<1> SUFFICES ASSUME errors = {} PROVE (BlackInv /\ PathInv /\ ExaminedInv)'
  BY DEF SearchInv, Descend
<1> DEFINE L == Len(stack)
<1>1. Ids' = Ids /\ \A k : Neighbors(k)' = Neighbors(k)
  BY SameDefinition DEF Descend
<1>2. \A k \in Ids : color'[k] = IF k = n THEN "gray" ELSE color[k]
  BY DEF Descend, TypeOK
<1>3. color[n] = "white" /\ stack # <<>> /\ n \in stack[L].left
      /\ stack' = Append(Examined(n), Call(n))
  BY DEF Descend, Searching, Top
<1>4. stack \in Seq(Frame)
  BY DEF TypeOK, Frame
<1>5. L \in Nat /\ L > 0 /\ DOMAIN stack = 1..L
  BY <1>3, <1>4
<1>6. Call(n) \in Frame /\ Call(n).node = n /\ Call(n).left = Neighbors(n)
  <2>1. Neighbors(n) \subseteq Ids  BY GoodReferences DEF CheckedInv, Descend, Searching
  <2> QED BY <2>1 DEF Call, Frame
<1>7. Examined(n) \in Seq(Frame) /\ Len(Examined(n)) = L
  BY <1>3, <1>4, StackOperations
<1>8. Len(stack') = L + 1 /\ DOMAIN stack' = 1..(L + 1) /\ stack'[L + 1] = Call(n)
  BY <1>3, <1>5, <1>6, <1>7, AppendProperties
<1>9. \A i \in 1..L : stack'[i] = Examined(n)[i]
  BY <1>3, <1>6, <1>7, AppendProperties
<1>10. \A i \in 1..L : /\ stack'[i].node = stack[i].node
                       /\ stack'[i].left \in {stack[i].left, stack[i].left \ {n}}
                       /\ i < L => stack'[i].left = stack[i].left
  BY <1>3, <1>4, <1>9, StackOperations
<1>11. BlackInv /\ PathInv /\ ExaminedInv
  BY DEF SearchInv
<1>12. Black' = Black
  BY <1>1, <1>2, <1>3 DEF Black
<1> HIDE DEF L
<1>13. BlackInv'
  BY <1>1, <1>11, <1>12 DEF BlackInv
<1>14. PathInv'
  <2>0. /\ \A i \in 1..(L + 1) : i \in 1..L \/ i = L + 1
        /\ \A i \in 1..L : i \in 1..(L + 1) /\ i # L + 1
        /\ L + 1 \in 1..(L + 1) /\ L \in 1..L
    BY <1>5
  <2>1. \A i \in 1..L : stack[i].node # n
    BY <1>3, <1>5, <1>11 DEF PathInv
  <2>2. \A i \in 1..(L + 1) : stack'[i].left \subseteq Neighbors(stack'[i].node)
    <3>1. \A i \in 1..L : stack[i].left \subseteq Neighbors(stack[i].node)
      BY <1>5, <1>11 DEF PathInv
    <3>2. \A i \in 1..L : stack'[i].left \subseteq Neighbors(stack'[i].node)
      BY <1>10, <3>1
    <3>3. stack'[L + 1].left \subseteq Neighbors(stack'[L + 1].node)
      BY <1>6, <1>8
    <3> QED BY <2>0, <3>2, <3>3
  <2>3. \A k \in Ids : color'[k] = "gray" <=> \E i \in 1..(L + 1) : stack'[i].node = k
    <3>3. ASSUME NEW k \in Ids, k # n
          PROVE  color'[k] = "gray" <=> \E i \in 1..(L + 1) : stack'[i].node = k
      <4>1. color[k] = "gray" <=> \E i \in 1..L : stack[i].node = k
        BY <1>5, <1>11 DEF PathInv
      <4> QED BY <1>2, <1>6, <1>8, <1>10, <2>0, <3>3, <4>1
    <3>4. color'[n] = "gray" /\ stack'[L + 1].node = n  BY <1>2, <1>6, <1>8
    <3> QED BY <2>0, <3>3, <3>4
  <2>4. \A i, j \in 1..(L + 1) : stack'[i].node = stack'[j].node => i = j
    <3>1. \A i, j \in 1..L : stack[i].node = stack[j].node => i = j
      BY <1>5, <1>11 DEF PathInv
    <3>2. \A i, j \in 1..L : stack'[i].node = stack'[j].node => i = j
      BY <1>10, <3>1
    <3>3. stack'[L + 1].node = n /\ \A i \in 1..L : stack'[i].node # n
      BY <1>6, <1>8, <1>10, <2>1
    <3> QED BY <2>0, <3>2, <3>3
  <2>5. \A i \in 1..L : stack'[i + 1].node \in Neighbors(stack'[i].node)
    <3>1. n \in Neighbors(stack[L].node)  BY <1>3, <1>5, <1>11 DEF PathInv
    <3>2. \A i \in 1..(L - 1) : i + 1 \in 1..L /\ i \in 1..L
                               /\ stack[i + 1].node \in Neighbors(stack[i].node)
      BY <1>5, <1>11 DEF PathInv, L
    <3>3. \A i \in 1..L : i = L \/ i \in 1..(L - 1)  BY <1>5
    <3>4. ASSUME NEW i \in 1..(L - 1)
          PROVE  stack'[i + 1].node \in Neighbors(stack'[i].node)
      <4>1. stack'[i + 1].node = stack[i + 1].node /\ stack'[i].node = stack[i].node
        BY <1>10, <3>2
      <4> QED BY <3>2, <4>1
    <3>5. stack'[L + 1].node \in Neighbors(stack'[L].node)
      BY <1>6, <1>8, <1>10, <2>0, <3>1
    <3> QED BY <3>3, <3>4, <3>5
  <2>6. Len(stack') - 1 = L  BY <1>5, <1>8
  <2> QED BY <1>1, <1>8, <2>2, <2>3, <2>4, <2>5, <2>6, Zenon DEF PathInv
<1>15. ExaminedInv'
  <2>1. ASSUME NEW i \in 1..(L + 1), NEW k \in Neighbors(stack'[i].node)
        PROVE  \/ k \in stack'[i].left
               \/ k \in Black
               \/ i < L + 1 /\ k = stack'[i + 1].node
    <3>1. CASE i = L + 1
      BY <1>6, <1>8, <2>1, <3>1
    <3>2. CASE i = L
      <4>1. L \in 1..L /\ L < L + 1  BY <1>5
      <4>2. k \in stack[L].left \/ k \in Black
        BY <1>5, <1>10, <1>11, <2>1, <3>2, <4>1 DEF ExaminedInv, L
      <4>3. k \in stack[L].left => k = n \/ k \in stack'[L].left
        BY <1>10, <4>1
      <4> QED BY <1>6, <1>8, <3>2, <4>1, <4>2, <4>3
    <3>3. CASE i < L
      <4>1. i \in 1..L /\ i + 1 \in 1..L  BY <1>5, <3>3
      <4> QED BY <1>5, <1>10, <1>11, <2>1, <3>3, <4>1 DEF ExaminedInv, L
    <3> QED BY <1>5, <3>1, <3>2, <3>3
  <2> QED BY <1>1, <1>8, <1>12, <2>1 DEF ExaminedInv
<1> QED BY <1>13, <1>14, <1>15

\* A black neighbour is passed: path and colours stay.
LEMMA PassKeepsSearch ==
    ASSUME TypeOK, SearchInv, NEW n \in Ids, PassBlack(n)
    PROVE  SearchInv'
<1> SUFFICES ASSUME errors = {} PROVE (BlackInv /\ PathInv /\ ExaminedInv)'
  BY DEF SearchInv, PassBlack
<1>1. Ids' = Ids /\ color' = color /\ \A k : Neighbors(k)' = Neighbors(k)
  BY SameDefinition DEF PassBlack
<1>2. n \in Black /\ stack # <<>> /\ stack' = Examined(n)
  BY DEF PassBlack, Searching, Black
<1>3. stack \in Seq(Frame)
  BY DEF TypeOK, Frame
<1>4. stack' \in Seq(Frame) /\ Len(stack') = Len(stack) /\ DOMAIN stack' = 1..Len(stack)
      /\ DOMAIN stack = 1..Len(stack) /\ Len(stack) \in Nat
  BY <1>2, <1>3, StackOperations
<1>5. \A i \in 1..Len(stack) : /\ stack'[i].node = stack[i].node
                               /\ stack'[i].left \in {stack[i].left, stack[i].left \ {n}}
  BY <1>2, <1>3, StackOperations
<1>6. BlackInv /\ PathInv /\ ExaminedInv
  BY DEF SearchInv
<1>7. Black' = Black
  BY <1>1 DEF Black
<1>8. BlackInv'
  BY <1>1, <1>6, <1>7 DEF BlackInv
<1>9. PathInv'
  <2>1. \A i \in 1..(Len(stack) - 1) : i \in 1..Len(stack) /\ i + 1 \in 1..Len(stack)
    BY <1>4
  <2>2. \A i \in 1..Len(stack) : stack'[i].left \subseteq Neighbors(stack'[i].node)
    BY <1>4, <1>5, <1>6 DEF PathInv
  <2>3. \A k \in Ids : color'[k] = "gray" <=> \E i \in 1..Len(stack) : stack'[i].node = k
    BY <1>1, <1>4, <1>5, <1>6 DEF PathInv
  <2>4. \A i, j \in 1..Len(stack) : stack'[i].node = stack'[j].node => i = j
    BY <1>4, <1>5, <1>6 DEF PathInv
  <2>5. \A i \in 1..(Len(stack) - 1) : stack'[i + 1].node \in Neighbors(stack'[i].node)
    BY <1>5, <1>6, <2>1 DEF PathInv
  <2> QED BY <1>1, <1>4, <2>2, <2>3, <2>4, <2>5, Zenon DEF PathInv
<1>10. ExaminedInv'
  <2>1. \A i \in 1..Len(stack) : i < Len(stack) => i + 1 \in 1..Len(stack)
    BY <1>4
  <2> QED BY <1>1, <1>2, <1>4, <1>5, <1>6, <1>7, <2>1 DEF ExaminedInv
<1> QED BY <1>8, <1>9, <1>10

\* A node that is left has only black neighbours: it turns black and the path gets shorter.
LEMMA LeaveKeepsSearch ==
    ASSUME TypeOK, SearchInv, CheckedInv, Leave
    PROVE  SearchInv'
<1> SUFFICES ASSUME errors = {} PROVE (BlackInv /\ PathInv /\ ExaminedInv)'
  BY DEF SearchInv, Leave
<1> DEFINE L == Len(stack)
           v == stack[L].node
<1>1. Ids' = Ids /\ \A k : Neighbors(k)' = Neighbors(k)
  BY SameDefinition DEF Leave
<1>2. stack # <<>> /\ stack[L].left = {} /\ stack' = SubSeq(stack, 1, L - 1)
  BY DEF Leave, Searching, Top
<1>3. stack \in Seq(Frame)
  BY DEF TypeOK, Frame
<1>4. L \in Nat /\ L > 0 /\ DOMAIN stack = 1..L /\ L \in 1..L /\ v \in Ids
  BY <1>2, <1>3, Frames
<1>5. Len(stack') = L - 1 /\ DOMAIN stack' = 1..(L - 1)
      /\ \A i \in 1..(L - 1) : stack'[i] = stack[i]
  BY <1>2, <1>3, <1>4, StackOperations
<1>6. \A k \in Ids : color'[k] = IF k = v THEN "black" ELSE color[k]
  BY <1>4 DEF Leave, Top, TypeOK
<1>7. BlackInv /\ PathInv /\ ExaminedInv
  BY DEF SearchInv
<1> HIDE DEF v
<1>8. Black' = Black \cup {v}
  BY <1>1, <1>4, <1>6 DEF Black
<1>9. color[v] = "gray"
  BY <1>4, <1>7 DEF PathInv, v
<1>10. Neighbors(v) \subseteq Black /\ v \notin Black
  BY <1>2, <1>4, <1>7, <1>9 DEF ExaminedInv, Black, v
<1> HIDE DEF L
<1>11. BlackInv'
  <2>1. /\ \A n \in Black \cup {v} : Neighbors(n) \subseteq Black \cup {v}
        /\ \A X \in SUBSET (Black \cup {v}) : X # {} => \E n \in X : Neighbors(n) \cap X = {}
    <3> DEFINE B == Black
    <3>1. /\ \A n \in B : Neighbors(n) \subseteq B
          /\ \A X \in SUBSET B : X # {} => \E n \in X : Neighbors(n) \cap X = {}
          /\ v \notin B /\ Neighbors(v) \subseteq B
      BY <1>7, <1>10 DEF BlackInv
    <3> HIDE DEF B
    <3>2. /\ \A n \in B \cup {v} : Neighbors(n) \subseteq B \cup {v}
          /\ \A X \in SUBSET (B \cup {v}) : X # {} => \E n \in X : Neighbors(n) \cap X = {}
      BY <3>1, Blacken
    <3> QED BY <3>2 DEF B
  <2> QED BY <1>1, <1>8, <2>1 DEF BlackInv
<1>12. PathInv'
  <2>1. \A i \in 1..(L - 1) : i \in 1..L /\ i # L  BY <1>4
  <2>2. \A i \in 1..L : i \in 1..(L - 1) \/ i = L  BY <1>4
  <2>3. \A i \in 1..((L - 1) - 1) : i \in 1..(L - 1) /\ i + 1 \in 1..(L - 1)  BY <1>4
  <2>4. \A i \in 1..(L - 1) : stack[i].node # v
    BY <1>4, <1>7, <2>1 DEF PathInv, v
  <2>5. \A k \in Ids : color'[k] = "gray" <=> \E i \in 1..(L - 1) : stack'[i].node = k
    <3>1. ASSUME NEW k \in Ids, k # v
          PROVE  color'[k] = "gray" <=> \E i \in 1..(L - 1) : stack'[i].node = k
      <4>1. color[k] = "gray" <=> \E i \in 1..L : stack[i].node = k
        BY <1>4, <1>7 DEF PathInv
      <4> QED BY <1>5, <1>6, <2>1, <2>2, <3>1, <4>1 DEF v
    <3>2. color'[v] = "black" /\ \A i \in 1..(L - 1) : stack'[i].node # v
      BY <1>4, <1>5, <1>6, <2>4
    <3> QED BY <3>1, <3>2
  <2>6. \A i, j \in 1..(L - 1) : stack'[i].node = stack'[j].node => i = j
    BY <1>4, <1>5, <1>7, <2>1 DEF PathInv
  <2>7. \A i \in 1..(L - 1) : stack'[i].left \subseteq Neighbors(stack'[i].node)
    BY <1>4, <1>5, <1>7, <2>1 DEF PathInv
  <2>8. \A i \in 1..((L - 1) - 1) : stack'[i + 1].node \in Neighbors(stack'[i].node)
    BY <1>4, <1>5, <1>7, <2>3 DEF PathInv, L
  <2> QED BY <1>1, <1>5, <2>5, <2>6, <2>7, <2>8 DEF PathInv
<1>13. ExaminedInv'
  <2>1. ASSUME NEW i \in 1..(L - 1), NEW k \in Neighbors(stack[i].node)
        PROVE  \/ k \in stack'[i].left
               \/ k \in Black'
               \/ i < L - 1 /\ k = stack'[i + 1].node
    <3>1. i \in 1..L /\ stack'[i] = stack[i]  BY <1>4, <1>5
    <3>2. \/ k \in stack[i].left
          \/ k \in Black
          \/ i < L /\ k = stack[i + 1].node
      BY <1>4, <1>7, <2>1, <3>1 DEF ExaminedInv, L
    <3>3. CASE i + 1 = L
      BY <1>8, <3>1, <3>2, <3>3 DEF v
    <3>4. CASE i + 1 # L
      <4>1. i + 1 \in 1..(L - 1) /\ i < L - 1  BY <1>4, <3>4
      <4> QED BY <1>5, <1>8, <3>1, <3>2, <4>1
    <3> QED BY <3>3, <3>4
  <2> QED BY <1>1, <1>5, <2>1 DEF ExaminedInv
<1> QED BY <1>11, <1>12, <1>13

\* The other actions leave the search alone, or find the error that ends its claim.
LEMMA SearchPart == TypeOK /\ CheckedInv /\ SearchInv /\ [Next]_vars => SearchInv'
<1> SUFFICES ASSUME TypeOK, CheckedInv, SearchInv, [Next]_vars PROVE SearchInv'
  OBVIOUS
<1>1. ASSUME dag' = dag, color' = color, stack' = stack, errors' = {} => errors = {}
      PROVE  SearchInv'
  <2>1. Ids' = Ids /\ \A n : Neighbors(n)' = Neighbors(n)  BY <1>1, SameDefinition
  <2>2. Black' = Black  BY <1>1, <2>1 DEF Black
  <2>3. BlackInv => BlackInv'  BY <2>1, <2>2 DEF BlackInv
  <2>4. PathInv => PathInv'  BY <1>1, <2>1 DEF PathInv
  <2>5. ExaminedInv => ExaminedInv'  BY <1>1, <2>1, <2>2 DEF ExaminedInv
  <2> QED BY <1>1, <2>3, <2>4, <2>5 DEF SearchInv
<1>2. CASE CheckDuplicates
  BY <1>1, <1>2 DEF CheckDuplicates, CheckedInv, searchVars
<1>3. CASE CheckReferences
  BY <1>1, <1>3 DEF CheckReferences, CheckedInv, searchVars
<1>4. ASSUME NEW n \in Ids, Search(n) PROVE SearchInv'
  <2>1. CASE StartSearch(n)  BY <2>1, StartKeepsSearch
  <2>2. CASE Descend(n)  BY <2>2, DescendKeepsSearch
  <2>3. CASE PassBlack(n)  BY <2>3, PassKeepsSearch
  <2>4. CASE FindCycle(n)  BY <2>4 DEF FindCycle, SearchInv
  <2> QED BY <1>4, <2>1, <2>2, <2>3, <2>4 DEF Search
<1>5. CASE Leave
  BY <1>5, LeaveKeepsSearch
<1>6. CASE EndSearch
  BY <1>1, <1>6 DEF EndSearch, searchVars
<1>7. CASE StartSort
  BY <1>1, <1>7 DEF StartSort, searchVars
<1>8. ASSUME NEW n \in Ids, QueueSource(n) PROVE SearchInv'
  BY <1>1, <1>8 DEF QueueSource, searchVars
<1>9. CASE EndSources
  BY <1>1, <1>9 DEF EndSources, searchVars
<1>10. CASE TakeNode
  BY <1>1, <1>10 DEF TakeNode, searchVars
<1>11. CASE EndSort
  BY <1>1, <1>11 DEF EndSort, searchVars
<1>12. ASSUME NEW k \in pending, FollowEdge(k) PROVE SearchInv'
  BY <1>1, <1>12 DEF FollowEdge, searchVars
<1>13. CASE UNCHANGED vars
  BY <1>1, <1>13 DEF vars, searchVars
<1> QED BY <1>2, <1>3, <1>4, <1>5, <1>6, <1>7, <1>8, <1>9, <1>10, <1>11, <1>12, <1>13 DEF Next

\* The verdict: each error is justified, and passing the search means acyclic.
LEMMA VerdictPart == IInv /\ [Next]_vars => VerdictInv'
<1> SUFFICES ASSUME IInv, [Next]_vars PROVE VerdictInv'
  OBVIOUS
<1> USE DEF IInv
<1>1. ASSUME dag' = dag, errors' = errors,
             pc' = pc \/ pc' \notin {"sort", "sources", "sorting", "done"}
                      \/ pc \in {"sort", "sources", "sorting"}
      PROVE  VerdictInv'
  <2>1. Acyclic' = Acyclic /\ WellFormed' = WellFormed  BY <1>1, SameDefinition
  <2> QED BY <1>1, <2>1 DEF VerdictInv
<1>2. CASE CheckDuplicates
  <2>1. Acyclic' = Acyclic /\ WellFormed' = WellFormed
    BY <1>2, SameDefinition DEF CheckDuplicates
  <2>2. DuplicateIds = {} <=> Distinct(dag.nodes)
    BY NoDuplicates DEF TypeOK
  <2> QED BY <1>2, <2>1, <2>2 DEF CheckDuplicates, VerdictInv, WellFormed
<1>3. CASE CheckReferences
  <2>1. Acyclic' = Acyclic /\ WellFormed' = WellFormed
    BY <1>3, SameDefinition DEF CheckReferences
  <2>2. BadReferences # {} => ~WellFormed
    BY BadIsNotWellFormed
  <2>3. dag.edges = <<>> => Acyclic
    <3>1. dag.edges = <<>> => \A n : Neighbors(n) = {}  BY DEF Neighbors, Edges
    <3> QED BY <3>1 DEF Acyclic
  <2> QED BY <1>3, <2>1, <2>2, <2>3 DEF CheckReferences, VerdictInv
<1>4. ASSUME NEW n \in Ids, Search(n) PROVE VerdictInv'
  <2>1. CASE FindCycle(n)
    <3>1. pc' = "cycles" /\ dag' = dag /\ n \in stack[Len(stack)].left
          /\ color[n] = "gray" /\ stack # <<>>
      BY <2>1 DEF FindCycle, Searching, Top
    <3>2. WellFormed' = WellFormed  BY <3>1, SameDefinition
    <3>3. CASE errors = {}
      <4>1. PathInv  BY <3>3 DEF SearchInv
      <4>2. Len(stack) \in DOMAIN stack  BY <3>1 DEF TypeOK
      <4>3. n \in Neighbors(Top.node)  BY <3>1, <4>1, <4>2 DEF PathInv, Top
      <4>4. ~Acyclic  BY <3>1, <4>1, <4>3, GrayClosesACycle
      <4> QED BY <3>1, <3>2, <4>4 DEF VerdictInv, WellFormed
    <3>4. CASE errors # {}
      BY <3>1, <3>2, <3>4 DEF VerdictInv
    <3> QED BY <3>3, <3>4
  <2>2. CASE StartSearch(n) \/ Descend(n) \/ PassBlack(n)
    BY <1>1, <2>2 DEF StartSearch, Descend, PassBlack
  <2> QED BY <1>4, <2>1, <2>2 DEF Search
<1>5. CASE Leave
  BY <1>1, <1>5 DEF Leave
<1>6. CASE EndSearch
  <2>1. Acyclic' = Acyclic /\ WellFormed' = WellFormed /\ errors' = errors
    BY <1>6, SameDefinition DEF EndSearch
  <2>2. ASSUME errors = {} PROVE Acyclic
    <3>1. BlackInv /\ PathInv  BY <2>2 DEF SearchInv
    <3>2. \A n \in Ids : color[n] \notin {"white", "gray"}
      BY <1>6, <3>1 DEF EndSearch, PathInv
    <3>3. Black = Ids  BY <3>2 DEF Black, TypeOK
    <3> QED BY <3>1, <3>3 DEF BlackInv, Acyclic
  <2> QED BY <2>1, <2>2 DEF VerdictInv
<1>7. CASE StartSort
  BY <1>1, <1>7 DEF StartSort
<1>8. ASSUME NEW n \in Ids, QueueSource(n) PROVE VerdictInv'
  BY <1>1, <1>8 DEF QueueSource
<1>9. CASE EndSources
  BY <1>1, <1>9 DEF EndSources
<1>10. CASE TakeNode
  BY <1>1, <1>10 DEF TakeNode
<1>11. CASE EndSort
  BY <1>1, <1>11 DEF EndSort
<1>12. ASSUME NEW k \in pending, FollowEdge(k) PROVE VerdictInv'
  BY <1>1, <1>12 DEF FollowEdge
<1>13. CASE UNCHANGED vars
  BY <1>1, <1>13 DEF vars
<1> QED BY <1>2, <1>3, <1>4, <1>5, <1>6, <1>7, <1>8, <1>9, <1>10, <1>11, <1>12, <1>13 DEF Next

\* The invariant holds when validateDag begins.
LEMMA Initially == Init => IInv
<1> SUFFICES ASSUME Init PROVE IInv
  OBVIOUS
<1>1. dag.nodes \in Seq(NodeId) /\ dag.edges \in Seq([from : NodeId, to : NodeId])
  BY DefinitionsAssumption DEF Init
<1>2. TypeOK
  BY <1>1 DEF Init, TypeOK
<1>3. CheckedInv /\ VerdictInv
  BY DEF Init, CheckedInv, VerdictInv
<1>4. SearchInv
  <2>1. Black = {} /\ stack = <<>>  BY DEF Init, Black
  <2>2. BlackInv  BY <2>1 DEF BlackInv
  <2>3. PathInv  BY <2>1 DEF Init, PathInv
  <2>4. ExaminedInv  BY <2>1 DEF ExaminedInv
  <2> QED BY <2>2, <2>3, <2>4 DEF SearchInv
<1> QED BY <1>2, <1>3, <1>4 DEF IInv

\* The invariant holds in every state of validateDag.
LEMMA Invariance == Spec => []IInv
<1>1. IInv /\ [Next]_vars => IInv'
  BY TypePart, CheckedPart, SearchPart, VerdictPart DEF IInv
<1> QED BY Initially, <1>1, PTL DEF Spec

-----------------------------------------------------------------------------
(* The theorems. *)

\* The variables of validateDag keep their types, for all definitions.
THEOREM TypeCorrect == Spec => []TypeOK
<1>1. IInv => TypeOK
  BY DEF IInv
<1> QED BY Invariance, <1>1, PTL

\* validateDag accepts exactly the definitions with distinct ids, edges between nodes,
\* and no cycle: whatever the order in which the search meets nodes and neighbours,
\* and although a search that finds a cycle leaves its nodes gray.
THEOREM AcceptanceIsExact == Spec => []AcceptsTheWellFormed
<1>1. ASSUME IInv PROVE AcceptsTheWellFormed
  <2>1. ASSUME pc = "done", errors = {} PROVE WellFormed
    <3>1. Distinct(dag.nodes) /\ BadReferences = {} /\ Acyclic
      BY <1>1, <2>1 DEF IInv, CheckedInv, VerdictInv
    <3> QED BY <3>1, GoodReferences DEF WellFormed
  <2>2. errors # {} => ~WellFormed
    BY <1>1 DEF IInv, VerdictInv
  <2> QED BY <2>1, <2>2 DEF AcceptsTheWellFormed
<1> QED BY Invariance, <1>1, PTL

-----------------------------------------------------------------------------
(* The cycle that is shown. *)

\* While the search runs, nothing but cycles has been found; and if anything has,
\* one of the paths shown is a cycle.
ShownInv ==
    /\ pc = "cycles" => \A e \in errors : e.kind = "cycle"
    /\ RejectionShowsACycle

\* A neighbour is the end of an edge.
LEMMA NeighborEdge ==
    ASSUME dag.edges \in Seq([from : NodeId, to : NodeId]), NEW n, NEW m \in Neighbors(n)
    PROVE  [from |-> n, to |-> m] \in Edges
<1>1. PICK e \in Edges : e.from = n /\ e.to = m
  BY DEF Neighbors
<1>2. e \in [from : NodeId, to : NodeId]
  <2>1. \A R : dag.edges \in Seq(R) => \A k \in DOMAIN dag.edges : dag.edges[k] \in R
    OBVIOUS
  <2> QED BY <2>1 DEF Edges
<1>3. e = [from |-> n, to |-> m]
  BY <1>1, <1>2
<1> QED BY <1>1, <1>3

\* As long as the gray nodes are the path of the search, what is shown for a gray
\* neighbour of the node on top is a cycle of the definition.
LEMMA ShownPathIsACycle ==
    ASSUME TypeOK, PathInv, stack # <<>>,
           NEW m \in Neighbors(Top.node), m \in Ids, color[m] = "gray"
    PROVE  IsCycle(CyclePath(m))
<1> DEFINE L == Len(stack)
           path == [i \in DOMAIN stack |-> stack[i].node]
           at == {i \in DOMAIN path : path[i] = m}
           first == CHOOSE i \in at : \A j \in at : i <= j
           sub == SubSeq(path, first, L)
           p == Append(sub, m)
<1>1. L \in Nat /\ L \in 1..L /\ DOMAIN stack = 1..L /\ \A i \in 1..L : stack[i].node \in Ids
  <2>1. stack \in Seq(Frame)  BY DEF TypeOK, Frame
  <2>2. L \in Nat /\ DOMAIN stack = 1..L /\ \A i \in 1..L : stack[i].node \in Ids
    BY <2>1, Frames
  <2>3. L # 0  BY <2>1
  <2> QED BY <2>2, <2>3
<1>2. DOMAIN path = 1..L /\ \A i \in 1..L : path[i] = stack[i].node
  BY <1>1
<1>3. path \in Seq(Ids) /\ Len(path) = L
  BY <1>1, <1>2
<1>4. PICK i0 \in 1..L : stack[i0].node = m
  BY <1>1 DEF PathInv
<1>5. at = {i0}
  <2>1. \A i \in 1..L : stack[i].node = m => i = i0  BY <1>1, <1>4 DEF PathInv
  <2> QED BY <1>2, <1>4, <2>1
<1>6. first = i0 /\ at # {}
  BY <1>4, <1>5
<1>7. CyclePath(m) = p
  <2>1. Len(path) = L  BY <1>3
  <2> QED BY <1>6, <2>1 DEF CyclePath
<1>8. \A i \in 1..(L - 1) : [from |-> path[i], to |-> path[i + 1]] \in Edges
  <2>1. \A i \in 1..(L - 1) : /\ i \in 1..L /\ i + 1 \in 1..L
                              /\ stack[i + 1].node \in Neighbors(stack[i].node)
    BY <1>1 DEF PathInv
  <2>2. dag.edges \in Seq([from : NodeId, to : NodeId])  BY DEF TypeOK
  <2> QED BY <1>2, <2>1, <2>2, NeighborEdge
<1>9. [from |-> path[L], to |-> m] \in Edges
  <2>1. path[L] = Top.node  BY <1>1, <1>2 DEF Top
  <2> QED BY <2>1, NeighborEdge DEF TypeOK
<1> DEFINE K == L - i0 + 1
<1> HIDE DEF path, at, first, sub
<1>10. K \in Nat /\ K >= 1 /\ Len(sub) = K /\ sub \in Seq(Ids)
       /\ \A i \in 1..K : sub[i] = path[i0 + i - 1]
  <2>1. \A i \in i0..L : path[i] \in Ids  BY <1>1, <1>2, <1>4
  <2>2. i0 \in Int /\ L \in Int /\ i0 <= L  BY <1>1, <1>4
  <2>3. /\ SubSeq(path, i0, L) \in Seq(Ids)
        /\ Len(SubSeq(path, i0, L)) = IF i0 <= L THEN L - i0 + 1 ELSE 0
        /\ \A i \in 1..(L - i0 + 1) : SubSeq(path, i0, L)[i] = path[i0 + i - 1]
    BY <2>1, <2>2, SubSeqProperties
  <2> QED BY <1>6, <2>2, <2>3 DEF sub
<1>11. /\ Len(p) = K + 1
       /\ \A i \in 1..K : p[i] = sub[i]
       /\ p[K + 1] = m
  <2>1. sub \in Seq(Ids) /\ Len(sub) = K /\ K \in Nat  BY <1>10
  <2> HIDE DEF K
  <2>2. DOMAIN sub = 1..K  BY <2>1
  <2>3. /\ Len(Append(sub, m)) = Len(sub) + 1
        /\ \A i \in 1..Len(sub) : Append(sub, m)[i] = sub[i]
        /\ Append(sub, m)[Len(sub) + 1] = m
    BY <2>1, AppendProperties
  <2> QED BY <2>1, <2>3
<1> HIDE DEF p, K
<1>12. p[1] = p[Len(p)] /\ Len(p) > 1
  <2>1. sub[1] = path[i0] /\ path[i0] = m  BY <1>1, <1>2, <1>4, <1>10
  <2> QED BY <1>10, <1>11, <2>1
<1>13. ASSUME NEW i \in 1..K
       PROVE  [from |-> p[i], to |-> p[i + 1]] \in Edges
  <2>1. CASE i = K
    <3>1. i0 + K - 1 = L  BY <1>1, <1>4 DEF K
    <3>2. p[i] = path[L] /\ p[i + 1] = m  BY <1>10, <1>11, <2>1, <3>1
    <3> QED BY <1>9, <3>2
  <2>2. CASE i < K
    <3>1. i + 1 \in 1..K /\ i0 + i - 1 \in 1..(L - 1)  BY <1>1, <1>4, <1>10, <2>2 DEF K
    <3>2. p[i] = path[i0 + i - 1] /\ p[i + 1] = path[i0 + (i + 1) - 1]
      BY <1>10, <1>11, <3>1
    <3>3. i0 + (i + 1) - 1 = (i0 + i - 1) + 1  BY <1>1, <1>4
    <3> QED BY <1>8, <3>1, <3>2, <3>3
  <2> QED BY <1>10, <2>1, <2>2
<1> QED BY <1>7, <1>10, <1>11, <1>12, <1>13 DEF IsCycle

\* A step preserves it: the first cycle found is a path, and errors are never lost.
LEMMA ShownPart == IInv /\ ShownInv /\ [Next]_vars => ShownInv'
<1> SUFFICES ASSUME IInv, ShownInv, [Next]_vars PROVE ShownInv'
  OBVIOUS
<1>1. ASSUME dag' = dag PROVE \A q : IsCycle(q)' = IsCycle(q)
  BY <1>1, SameDefinition DEF IsCycle
<1>2. ASSUME dag' = dag, errors' = errors, pc' = "cycles" => pc = "cycles"
      PROVE  ShownInv'
  BY <1>1, <1>2 DEF ShownInv, RejectionShowsACycle, CycleErrors
<1>3. CASE CheckDuplicates
  <2>1. pc' # "cycles" /\ CycleErrors' = {}
    BY <1>3 DEF CheckDuplicates, DuplicateIds, CycleErrors
  <2> QED BY <2>1 DEF ShownInv, RejectionShowsACycle
<1>4. CASE CheckReferences
  <2>1. CycleErrors' = {} /\ (pc' = "cycles" => errors' = {})
    BY <1>4 DEF CheckReferences, BadReferences, CycleErrors
  <2> QED BY <2>1 DEF ShownInv, RejectionShowsACycle
<1>5. ASSUME NEW m \in Ids, FindCycle(m) PROVE ShownInv'
  <2>1. /\ pc = "cycles" /\ dag' = dag /\ m \in Top.left /\ color[m] = "gray"
        /\ stack # <<>>
        /\ errors' = errors \cup {[kind |-> "cycle", path |-> CyclePath(m)]}
    BY <1>5 DEF FindCycle, Searching
  <2>2. \A e \in errors' : e.kind = "cycle"
    BY <2>1 DEF ShownInv
  <2>3. \E e \in errors' : IsCycle(e.path)
    <3>1. CASE errors = {}
      <4>1. PathInv  BY <3>1 DEF IInv, SearchInv
      <4>2. Len(stack) \in DOMAIN stack  BY <2>1 DEF IInv, TypeOK
      <4>3. m \in Neighbors(Top.node)  BY <2>1, <4>1, <4>2 DEF PathInv, Top
      <4>4. IsCycle(CyclePath(m))  BY <2>1, <4>1, <4>3, ShownPathIsACycle DEF IInv
      <4> DEFINE e == [kind |-> "cycle", path |-> CyclePath(m)]
      <4>5. e \in errors' /\ e.path = CyclePath(m)  BY <2>1
      <4> HIDE DEF e
      <4> QED BY <4>4, <4>5
    <3>2. CASE errors # {}
      <4>1. CycleErrors # {}  BY <2>1, <3>2 DEF ShownInv, CycleErrors
      <4> QED BY <2>1, <4>1 DEF ShownInv, RejectionShowsACycle, CycleErrors
    <3> QED BY <3>1, <3>2
  <2> QED BY <1>1, <2>1, <2>2, <2>3 DEF ShownInv, RejectionShowsACycle, CycleErrors
<1>6. ASSUME NEW n \in Ids, Search(n) PROVE ShownInv'
  <2>1. CASE StartSearch(n) \/ Descend(n) \/ PassBlack(n)
    BY <1>2, <2>1 DEF StartSearch, Descend, PassBlack
  <2> QED BY <1>5, <1>6, <2>1 DEF Search
<1>7. CASE Leave \/ EndSearch \/ StartSort \/ EndSources \/ TakeNode \/ EndSort
  BY <1>2, <1>7 DEF Leave, EndSearch, StartSort, EndSources, TakeNode, EndSort
<1>8. ASSUME NEW n \in Ids, QueueSource(n) PROVE ShownInv'
  BY <1>2, <1>8 DEF QueueSource
<1>9. ASSUME NEW k \in pending, FollowEdge(k) PROVE ShownInv'
  BY <1>2, <1>9 DEF FollowEdge
<1>10. CASE UNCHANGED vars
  BY <1>2, <1>10 DEF vars
<1> QED BY <1>3, <1>4, <1>6, <1>7, <1>8, <1>9, <1>10 DEF Next

\* A definition rejected for a cycle is shown one that it has: the path recorded for
\* the first gray neighbour, from its first occurrence on the search's path to its
\* end and back.  What later searches record is not relied on.
THEOREM CyclesAreShown == Spec => []RejectionShowsACycle
<1>1. Init => ShownInv
  BY DEF Init, ShownInv, RejectionShowsACycle, CycleErrors
<1>2. ShownInv => RejectionShowsACycle
  BY DEF ShownInv
<1> QED BY Invariance, ShownPart, <1>1, <1>2, PTL DEF Spec

-----------------------------------------------------------------------------
(* The execution order. *)

\* Some node of X that no edge within X leads to.
HasSource(X) == X # {} => \E n \in X : \A m \in X : n \notin Neighbors(m)

\* Sets of black nodes have sources; after the search, all sets of nodes do.
SourceInv ==
    /\ errors = {} => \A X \in SUBSET Black : HasSource(X)
    /\ pc \in {"sort", "sources", "sorting", "done"} /\ errors = {} =>
         \A X \in SUBSET Ids : HasSource(X)

\* The nodes in the order in which they were queued, the ones taken, and the edges
\* whose targets have been told.
Line == order \o queue
Taken == {order[i] : i \in DOMAIN order}
Followed == {k \in DOMAIN dag.edges : dag.edges[k].from \in Taken} \ pending

Sorted == pc \in {"sources", "sorting"} \/ (pc = "done" /\ errors = {})

\* An in-degree counts the edges that are not yet followed.
DegreesCount == \A n \in Ids : inDegree[n] = Cardinality(EdgesTo(n) \ Followed)

\* A node is queued once, behind the sources of all its edges, which are followed.
QueuedInOrder ==
    /\ Distinct(Line)
    /\ \A i \in DOMAIN Line : EdgesTo(Line[i]) \subseteq Followed
    /\ \A i \in DOMAIN Line : \A k \in EdgesTo(Line[i]) :
         \E j \in DOMAIN order : j < i /\ order[j] = dag.edges[k].from

\* A node all of whose edges are followed is queued.
FreeIsQueued ==
    pc # "sources" =>
      \A n \in Ids : EdgesTo(n) \subseteq Followed => \E i \in DOMAIN Line : Line[i] = n

PendingAreTaken == \A k \in pending : dag.edges[k].from \in Taken

SortInv ==
    /\ pc \notin {"sorting", "done"} => order = <<>>
    /\ pc \notin {"sources", "sorting", "done"} => queue = <<>>
    /\ pc = "done" /\ errors = {} => queue = <<>>
    /\ Sorted => DegreesCount /\ QueuedInOrder /\ FreeIsQueued /\ PendingAreTaken

\* A black node gets no black predecessor: what becomes black is a source among them.
LEMMA BlackenSource ==
    ASSUME NEW B, NEW v, v \notin B, Neighbors(v) \subseteq B,
           \A n \in B : Neighbors(n) \subseteq B,
           \A X \in SUBSET B : HasSource(X)
    PROVE  \A X \in SUBSET (B \cup {v}) : HasSource(X)
<1> SUFFICES ASSUME NEW X \in SUBSET (B \cup {v}) PROVE HasSource(X)
  OBVIOUS
<1>1. CASE v \in X
  <2>1. \A m \in X : v \notin Neighbors(m)  OBVIOUS
  <2> QED BY <1>1, <2>1 DEF HasSource
<1>2. CASE v \notin X
  <2>1. X \in SUBSET B  BY <1>2
  <2> QED BY <2>1
<1> QED BY <1>1, <1>2

\* Where the search leaves a node, its neighbours are black and it was gray.
LEMMA LeftNode ==
    ASSUME TypeOK, SearchInv, errors = {}, Leave
    PROVE  /\ Top.node \notin Black /\ Neighbors(Top.node) \subseteq Black
           /\ Black' = Black \cup {Top.node}
<1> DEFINE L == Len(stack)
           v == stack[L].node
<1>1. Ids' = Ids
  BY SameDefinition DEF Leave
<1>2. stack # <<>> /\ stack[L].left = {}
  BY DEF Leave, Searching, Top
<1>3. L \in Nat /\ L > 0 /\ DOMAIN stack = 1..L /\ L \in 1..L /\ v \in Ids
  <2>1. stack \in Seq(Frame)  BY DEF TypeOK, Frame
  <2> QED BY <1>2, <2>1, Frames
<1>4. \A k \in Ids : color'[k] = IF k = v THEN "black" ELSE color[k]
  BY <1>3 DEF Leave, Top, TypeOK
<1>5. PathInv /\ ExaminedInv
  BY DEF SearchInv
<1>6. color[v] = "gray"
  BY <1>3, <1>5 DEF PathInv
<1>7. Neighbors(v) \subseteq Black /\ v \notin Black
  BY <1>2, <1>3, <1>5, <1>6 DEF ExaminedInv, Black
<1>8. Black' = Black \cup {v}
  <2> HIDE DEF v
  <2> QED BY <1>1, <1>3, <1>4 DEF Black
<1> QED BY <1>7, <1>8 DEF Top

\* Only Leave makes a node black, and EndSearch finds them all black.
LEMMA SourcePart == IInv /\ SourceInv /\ [Next]_vars => SourceInv'
<1> SUFFICES ASSUME IInv, SourceInv, [Next]_vars PROVE SourceInv'
  OBVIOUS
<1> USE DEF IInv
<1>1. ASSUME dag' = dag
      PROVE  Ids' = Ids /\ \A X : HasSource(X)' = HasSource(X)
  BY <1>1, SameDefinition DEF HasSource
<1>2. ASSUME dag' = dag, errors' = {} => errors = {},
             errors' = {} => Black' = Black,
             pc' = pc \/ pc' \notin {"sort", "sources", "sorting", "done"}
                      \/ errors' # {} \/ pc \in {"sort", "sources", "sorting"}
      PROVE  SourceInv'
  BY <1>1, <1>2 DEF SourceInv
<1>3. ASSUME dag' = dag, color' = color PROVE Black' = Black
  BY <1>1, <1>3 DEF Black
<1>4. CASE CheckDuplicates
  <2>1. Black' = Black /\ errors = {} /\ dag' = dag
    BY <1>3, <1>4 DEF CheckDuplicates, CheckedInv, searchVars
  <2> QED BY <1>2, <1>4, <2>1 DEF CheckDuplicates
<1>5. CASE CheckReferences
  <2>1. Black' = Black /\ errors = {} /\ dag' = dag
    BY <1>3, <1>5 DEF CheckReferences, CheckedInv, searchVars
  <2>2. dag.edges = <<>> => \A X : HasSource(X)
    <3>1. dag.edges = <<>> => \A n : Neighbors(n) = {}  BY DEF Neighbors, Edges
    <3> QED BY <3>1 DEF HasSource
  <2>3. pc' \in {"references", "sort", "sources", "sorting", "done"} /\ errors' = {} =>
          dag.edges = <<>>
    BY <1>5 DEF CheckReferences
  <2> QED BY <1>1, <2>1, <2>2, <2>3 DEF SourceInv
<1>6. ASSUME NEW n \in Ids, Search(n) PROVE SourceInv'
  <2>1. pc' = pc /\ dag' = dag /\ (errors' = {} => errors = {})
    BY <1>6 DEF Search, StartSearch, Descend, PassBlack, FindCycle
  <2>2. Black' = Black
    <3>1. CASE color' = color
      BY <1>3, <2>1, <3>1
    <3>2. CASE color[n] = "white" /\ color' = [color EXCEPT ![n] = "gray"]
      BY <1>1, <2>1, <3>2 DEF Black, TypeOK
    <3> QED BY <1>6, <3>1, <3>2 DEF Search, StartSearch, Descend, PassBlack, FindCycle
  <2> QED BY <1>2, <2>1, <2>2
<1>7. CASE Leave
  <2>1. dag' = dag /\ errors' = errors /\ pc' = pc  BY <1>7 DEF Leave
  <2>2. ASSUME errors = {} PROVE \A X \in SUBSET Black' : HasSource(X)
    <3>1. /\ Top.node \notin Black /\ Neighbors(Top.node) \subseteq Black
          /\ Black' = Black \cup {Top.node}
      BY <1>7, <2>2, LeftNode
    <3>2. \A n \in Black : Neighbors(n) \subseteq Black
      BY <2>2 DEF SearchInv, BlackInv
    <3>3. \A X \in SUBSET Black : HasSource(X)
      BY <2>2 DEF SourceInv
    <3> DEFINE B == Black
               v == Top.node
    <3>4. /\ v \notin B /\ Neighbors(v) \subseteq B
          /\ \A n \in B : Neighbors(n) \subseteq B
          /\ \A X \in SUBSET B : HasSource(X)
      BY <3>1, <3>2, <3>3
    <3> HIDE DEF B, v
    <3>5. \A X \in SUBSET (B \cup {v}) : HasSource(X)
      BY <3>4, BlackenSource
    <3> QED BY <3>1, <3>5 DEF B, v
  <2> QED BY <1>1, <1>7, <2>1, <2>2 DEF SourceInv
<1>8. CASE EndSearch
  <2>1. dag' = dag /\ errors' = errors /\ color' = color
    BY <1>8 DEF EndSearch, searchVars
  <2>2. ASSUME errors = {} PROVE Black = Ids
    <3>1. PathInv  BY <2>2 DEF SearchInv
    <3>2. \A n \in Ids : color[n] \notin {"white", "gray"}
      BY <1>8, <3>1 DEF EndSearch, PathInv
    <3> QED BY <3>2 DEF Black, TypeOK
  <2> QED BY <1>1, <1>3, <2>1, <2>2 DEF SourceInv
<1>9. CASE StartSort \/ EndSources \/ TakeNode \/ EndSort
  BY <1>2, <1>3, <1>9 DEF StartSort, EndSources, TakeNode, EndSort, searchVars
<1>10. ASSUME NEW n \in Ids, QueueSource(n) PROVE SourceInv'
  BY <1>2, <1>3, <1>10 DEF QueueSource, searchVars
<1>11. ASSUME NEW k \in pending, FollowEdge(k) PROVE SourceInv'
  BY <1>2, <1>3, <1>11 DEF FollowEdge, searchVars
<1>12. CASE UNCHANGED vars
  BY <1>2, <1>3, <1>12 DEF vars, searchVars
<1> QED BY <1>4, <1>5, <1>6, <1>7, <1>8, <1>9, <1>10, <1>11, <1>12 DEF Next

\* Joining a sequence and one that grows at its end, or loses its head to the first.
LEMMA Joined ==
    ASSUME NEW S, NEW s \in Seq(S), NEW t \in Seq(S)
    PROVE  /\ \A e \in S : s \o Append(t, e) = Append(s \o t, e)
           /\ t # <<>> => Append(s, Head(t)) \o Tail(t) = s \o t
<1>1. ASSUME NEW e \in S PROVE s \o Append(t, e) = Append(s \o t, e)
  <2>1. Append(t, e) = t \o <<e>>  BY AppendIsConcat
  <2>2. s \o t \in Seq(S) /\ <<e>> \in Seq(S)  BY ConcatProperties
  <2>3. Append(s \o t, e) = (s \o t) \o <<e>>  BY <2>2, AppendIsConcat
  <2>4. (s \o t) \o <<e>> = s \o (t \o <<e>>)  BY <2>2, ConcatAssociative
  <2> QED BY <2>1, <2>3, <2>4
<1>2. ASSUME t # <<>> PROVE Append(s, Head(t)) \o Tail(t) = s \o t
  <2>1. /\ Head(t) \in S /\ Tail(t) \in Seq(S)
        /\ Append(s, Head(t)) = s \o <<Head(t)>>
        /\ <<Head(t)>> \in Seq(S)
    BY <1>2, HeadTailProperties, AppendIsConcat
  <2>2. (s \o <<Head(t)>>) \o Tail(t) = s \o (<<Head(t)>> \o Tail(t))
    BY <2>1, ConcatAssociative
  <2>3. <<Head(t)>> \o Tail(t) = t
    BY <1>2
  <2> QED BY <2>1, <2>2, <2>3
<1> QED BY <1>1, <1>2

\* The line is the order followed by the queue.
LEMMA LineFacts ==
    ASSUME order \in Seq(Ids), queue \in Seq(Ids)
    PROVE  /\ Line \in Seq(Ids)
           /\ Len(order) \in Nat /\ Len(Line) \in Nat /\ Len(order) <= Len(Line)
           /\ DOMAIN order = 1..Len(order) /\ DOMAIN Line = 1..Len(Line)
           /\ \A i \in 1..Len(order) : Line[i] = order[i]
           /\ \A i \in 1..Len(Line) : Line[i] \in Ids
<1>1. /\ Line \in Seq(Ids)
      /\ Len(Line) = Len(order) + Len(queue)
      /\ \A i \in 1..Len(order) + Len(queue) : Line[i] =
           IF i <= Len(order) THEN order[i] ELSE queue[i - Len(order)]
  BY ConcatProperties DEF Line
<1>2. Len(order) \in Nat /\ Len(queue) \in Nat /\ DOMAIN order = 1..Len(order)
  OBVIOUS
<1>3. DOMAIN Line = 1..Len(Line) /\ \A i \in 1..Len(Line) : Line[i] \in Ids
  BY <1>1
<1> QED BY <1>1, <1>2, <1>3

\* The edges to a node are finitely many.
LEMMA EdgesToFinite ==
    ASSUME dag.edges \in Seq([from : NodeId, to : NodeId])
    PROVE  \A n : IsFiniteSet(EdgesTo(n)) /\ \A S : IsFiniteSet(EdgesTo(n) \ S)
<1>1. Len(dag.edges) \in Nat /\ DOMAIN dag.edges = 1..Len(dag.edges)
  OBVIOUS
<1>2. IsFiniteSet(1..Len(dag.edges))
  BY <1>1, FS_Interval
<1>3. \A n : EdgesTo(n) \subseteq 1..Len(dag.edges)
  BY <1>1 DEF EdgesTo
<1>4. \A n, S : EdgesTo(n) \ S \subseteq 1..Len(dag.edges)
  BY <1>3
<1> QED BY <1>2, <1>3, <1>4, FS_Subset

\* What the edges are computed from.
LEMMA SameEdges ==
    ASSUME dag' = dag
    PROVE  \A n : EdgesTo(n)' = EdgesTo(n) /\ EdgesFrom(n)' = EdgesFrom(n)
BY DEF EdgesTo, EdgesFrom

\* QueueSource: the nodes that no edge leads to come first.
LEMMA QueueKeepsSort ==
    ASSUME TypeOK, SortInv, NEW n \in Ids, QueueSource(n)
    PROVE  SortInv'
<1>1. /\ pc = "sources" /\ pc' = pc /\ dag' = dag /\ errors' = errors
      /\ inDegree' = inDegree /\ pending' = pending /\ order' = order
      /\ queue' = Append(queue, n) /\ n \in Sources
  BY DEF QueueSource
<1>2. order = <<>> /\ pending = {} /\ DegreesCount /\ QueuedInOrder
  BY <1>1 DEF SortInv, Sorted, TypeOK
<1>3. Taken = {} /\ Followed = {} /\ Taken' = {} /\ Followed' = {}
  BY <1>1, <1>2 DEF Taken, Followed
<1>4. Ids' = Ids /\ \A m : EdgesTo(m)' = EdgesTo(m)
  BY <1>1, SameDefinition, SameEdges
<1>5. queue \in Seq(Ids) /\ Len(queue) \in Nat /\ DOMAIN queue = 1..Len(queue)
  BY DEF TypeOK
<1>6. Line = queue /\ Line' = Append(queue, n)
  BY <1>1, <1>2, <1>5 DEF Line
<1>7. /\ DOMAIN Line' = 1..(Len(queue) + 1)
      /\ \A i \in 1..Len(queue) : Line'[i] = queue[i]
      /\ Line'[Len(queue) + 1] = n
  BY <1>5, <1>6, AppendProperties
<1>8. \A i \in 1..(Len(queue) + 1) : i \in 1..Len(queue) \/ i = Len(queue) + 1
  BY <1>5
<1>9. EdgesTo(n) = {} /\ \A i \in 1..Len(queue) : queue[i] # n
  <2>1. inDegree[n] = 0 /\ \A i \in 1..Len(queue) : queue[i] # n
    BY <1>1, <1>5 DEF Sources
  <2>2. Cardinality(EdgesTo(n)) = 0
    BY <1>2, <1>3, <2>1 DEF DegreesCount
  <2>3. IsFiniteSet(EdgesTo(n))  BY EdgesToFinite DEF TypeOK
  <2> QED BY <2>1, <2>2, <2>3, FS_EmptySet
<1>10. DegreesCount'
  BY <1>1, <1>2, <1>3, <1>4 DEF DegreesCount
<1>11. QueuedInOrder'
  <2>1. Distinct(Line)'
    BY <1>2, <1>5, <1>6, <1>7, <1>8, <1>9 DEF QueuedInOrder, Distinct
  <2>2. \A i \in 1..Len(queue) : EdgesTo(queue[i]) = {}
    BY <1>2, <1>3, <1>5, <1>6 DEF QueuedInOrder
  <2>3. \A i \in DOMAIN Line' : EdgesTo(Line'[i]) = {}
    BY <1>7, <1>8, <1>9, <2>2
  <2> QED BY <1>4, <2>1, <2>3 DEF QueuedInOrder
<1> QED BY <1>1, <1>2, <1>10, <1>11 DEF SortInv, Sorted, FreeIsQueued, PendingAreTaken

\* TakeNode: the line stays, and so do the edges followed.
LEMMA TakeKeepsSort ==
    ASSUME TypeOK, SortInv, TakeNode
    PROVE  SortInv'
<1> DEFINE h == Head(queue)
<1>1. /\ pc = "sorting" /\ pc' = pc /\ dag' = dag /\ errors' = errors
      /\ inDegree' = inDegree /\ pending = {} /\ queue # <<>>
      /\ order' = Append(order, h) /\ queue' = Tail(queue) /\ pending' = EdgesFrom(h)
  BY DEF TakeNode
<1>2. DegreesCount /\ QueuedInOrder /\ FreeIsQueued
  BY <1>1 DEF SortInv, Sorted
<1>3. Ids' = Ids /\ \A m : EdgesTo(m)' = EdgesTo(m)
  BY <1>1, SameDefinition, SameEdges
<1>4. order \in Seq(Ids) /\ queue \in Seq(Ids) /\ h \in Ids
  BY <1>1 DEF TypeOK
<1>5. Line' = Line
  BY <1>1, <1>4, Joined DEF Line
<1>6. /\ Len(order) \in Nat /\ DOMAIN order = 1..Len(order)
      /\ DOMAIN order' = 1..(Len(order) + 1)
      /\ \A i \in 1..Len(order) : order'[i] = order[i]
      /\ order'[Len(order) + 1] = h
  <2>1. /\ order' \in Seq(Ids) /\ Len(order') = Len(order) + 1
        /\ \A i \in 1..Len(order) : order'[i] = order[i]
        /\ order'[Len(order) + 1] = h
    BY <1>1, <1>4, AppendProperties
  <2> QED BY <1>4, <2>1
<1> HIDE DEF h
<1>7. DOMAIN order \subseteq DOMAIN order' /\ \A i \in DOMAIN order : order'[i] = order[i]
  BY <1>6
<1>8. Taken' = Taken \cup {h}
  <2>1. \A i \in DOMAIN order' : i \in DOMAIN order \/ i = Len(order) + 1
    BY <1>6
  <2>2. Len(order) + 1 \in DOMAIN order'  BY <1>6
  <2> QED BY <1>6, <1>7, <2>1, <2>2 DEF Taken
<1>9. Followed' = Followed
  <2>1. h \notin Taken
    <3>1. order' \in Seq(Ids) /\ queue' \in Seq(Ids)
      BY <1>1, <1>4
    <3>2. Line' = order' \o queue'  BY DEF Line
    <3>3. \A i \in 1..Len(order) + 1 : i \in DOMAIN Line /\ Line[i] = order'[i]
      <4>1. Len(order') = Len(order) + 1
        BY <1>1, <1>4, AppendProperties
      <4>2. /\ Len(Line') = Len(order') + Len(queue')
            /\ Line' \in Seq(Ids)
            /\ \A i \in 1..Len(order') + Len(queue') : Line'[i] =
                 IF i <= Len(order') THEN order'[i] ELSE queue'[i - Len(order')]
        BY <3>1, <3>2, ConcatProperties
      <4>3. Len(queue') \in Nat /\ DOMAIN Line' = 1..Len(Line')  BY <3>1, <4>2
      <4> QED BY <1>5, <1>6, <4>1, <4>2, <4>3
    <3>4. ASSUME NEW i \in DOMAIN order, order[i] = h PROVE FALSE
      <4>1. i \in 1..Len(order) + 1 /\ i # Len(order) + 1 /\ Len(order) + 1 \in 1..Len(order) + 1
        BY <1>6
      <4>2. Line[i] = Line[Len(order) + 1]
        BY <1>6, <3>3, <3>4, <4>1
      <4> QED BY <1>2, <3>3, <4>1, <4>2 DEF QueuedInOrder, Distinct
    <3> QED BY <3>4 DEF Taken
  <2>2. \A k \in DOMAIN dag.edges : k \in EdgesFrom(h) <=> dag.edges[k].from = h
    BY DEF EdgesFrom
  <2>3. DOMAIN dag'.edges = DOMAIN dag.edges /\ \A k : dag'.edges[k] = dag.edges[k]
    BY <1>1
  <2> QED BY <1>1, <1>8, <2>1, <2>2, <2>3 DEF Followed
<1>10. DegreesCount' /\ FreeIsQueued'
  BY <1>1, <1>2, <1>3, <1>5, <1>9 DEF DegreesCount, FreeIsQueued
<1>11. QueuedInOrder'
  <2>1. Distinct(Line)'  BY <1>2, <1>5 DEF QueuedInOrder, Distinct
  <2>2. ASSUME NEW i \in DOMAIN Line, NEW k \in EdgesTo(Line[i])
        PROVE  \E j \in DOMAIN order' : j < i /\ order'[j] = dag.edges[k].from
    BY <1>2, <1>7, <2>2 DEF QueuedInOrder
  <2> QED BY <1>1, <1>2, <1>3, <1>5, <1>9, <2>1, <2>2 DEF QueuedInOrder
<1>12. PendingAreTaken'
  BY <1>1, <1>8 DEF PendingAreTaken, EdgesFrom
<1> QED BY <1>1, <1>10, <1>11, <1>12 DEF SortInv

\* FollowEdge: the target's in-degree loses one, and at the last edge it is queued.
LEMMA FollowKeepsSort ==
    ASSUME TypeOK, CheckedInv, SortInv, NEW k \in pending, FollowEdge(k)
    PROVE  SortInv'
<1> DEFINE m == dag.edges[k].to
           degree == (IF inDegree[m] = 0 THEN 1 ELSE inDegree[m]) - 1
<1>1. /\ pc = "sorting" /\ pc' = pc /\ dag' = dag /\ errors' = errors /\ order' = order
      /\ pending' = pending \ {k}
      /\ inDegree' = [inDegree EXCEPT ![m] = degree]
      /\ queue' = IF degree = 0 THEN Append(queue, m) ELSE queue
  BY DEF FollowEdge, TypeOK
<1>2. DegreesCount /\ QueuedInOrder /\ FreeIsQueued /\ PendingAreTaken
  BY <1>1 DEF SortInv, Sorted
<1>3. Ids' = Ids /\ \A n : EdgesTo(n)' = EdgesTo(n)
  BY <1>1, SameDefinition, SameEdges
<1>4. k \in DOMAIN dag.edges /\ m \in Ids /\ k \in EdgesTo(m)
  <2>1. k \in DOMAIN dag.edges  BY DEF TypeOK
  <2>2. dag.edges[k] \in Edges  BY <2>1 DEF Edges
  <2> QED BY <1>1, <2>1, <2>2, GoodReferences DEF CheckedInv, EdgesTo
<1>5. \A n \in Ids : n # m => k \notin EdgesTo(n)
  BY DEF EdgesTo
<1>6. k \notin Followed /\ Followed' = Followed \cup {k}
  <2>1. Taken' = Taken /\ dag.edges[k].from \in Taken
    BY <1>1, <1>2 DEF Taken, PendingAreTaken
  <2>2. DOMAIN dag'.edges = DOMAIN dag.edges /\ \A l : dag'.edges[l] = dag.edges[l]
    BY <1>1
  <2> QED BY <1>1, <1>4, <2>1, <2>2 DEF Followed
<1> DEFINE rest(n) == EdgesTo(n) \ Followed
<1>7. /\ \A n \in Ids : n # m => EdgesTo(n) \ Followed' = rest(n)
      /\ EdgesTo(m) \ Followed' = rest(m) \ {k}
      /\ k \in rest(m)
  BY <1>4, <1>5, <1>6
<1>8. \A n : IsFiniteSet(rest(n))
  BY EdgesToFinite DEF TypeOK
<1>9. /\ inDegree[m] = Cardinality(rest(m)) /\ inDegree[m] \in Nat /\ inDegree[m] # 0
      /\ Cardinality(rest(m) \ {k}) = inDegree[m] - 1
      /\ IsFiniteSet(rest(m) \ {k})
  <2> HIDE DEF m
  <2>1. inDegree[m] = Cardinality(rest(m)) /\ inDegree[m] \in Nat
    BY <1>2, <1>4 DEF DegreesCount, TypeOK
  <2> HIDE DEF rest
  <2>2. Cardinality(rest(m)) # 0  BY <1>7, <1>8, FS_EmptySet
  <2> QED BY <1>7, <1>8, <2>1, <2>2, FS_RemoveElement
<1>10. degree = inDegree[m] - 1 /\ degree \in Nat
  BY <1>9
<1> HIDE DEF m, degree
<1>11. DegreesCount'
  <2>1. \A n \in Ids : inDegree'[n] = IF n = m THEN degree ELSE inDegree[n]
    BY <1>1 DEF TypeOK
  <2>2. \A n \in Ids : inDegree'[n] = Cardinality(EdgesTo(n) \ Followed')
    <3>1. inDegree'[m] = Cardinality(EdgesTo(m) \ Followed')
      BY <1>4, <1>7, <1>9, <1>10, <2>1
    <3>2. ASSUME NEW n \in Ids, n # m PROVE inDegree'[n] = Cardinality(EdgesTo(n) \ Followed')
      BY <1>2, <1>7, <2>1, <3>2 DEF DegreesCount
    <3> QED BY <3>1, <3>2
  <2> QED BY <1>3, <2>2 DEF DegreesCount
<1>12. degree = 0 <=> EdgesTo(m) \subseteq Followed'
  <2>1. degree = 0 <=> rest(m) \ {k} = {}  BY <1>9, <1>10, FS_EmptySet
  <2> HIDE DEF rest
  <2>2. degree = 0 <=> EdgesTo(m) \ Followed' = {}  BY <1>7, <2>1
  <2> QED BY <2>2
<1> HIDE DEF rest
<1>13. PendingAreTaken'
  BY <1>1, <1>2 DEF PendingAreTaken, Taken
<1>14. order \in Seq(Ids) /\ queue \in Seq(Ids)
  BY DEF TypeOK
<1> DEFINE L == Len(Line)
<1>15. /\ Line \in Seq(Ids) /\ L \in Nat /\ DOMAIN Line = 1..L
       /\ Len(order) \in Nat /\ Len(order) <= L /\ DOMAIN order = 1..Len(order)
  BY <1>14, LineFacts
<1>16. CASE degree # 0
  <2>1. Line' = Line  BY <1>1, <1>16 DEF Line
  <2>2. QueuedInOrder'
    BY <1>1, <1>2, <1>3, <1>6, <2>1 DEF QueuedInOrder, Distinct
  <2>3. FreeIsQueued'
    <3>1. ASSUME NEW n \in Ids, EdgesTo(n) \subseteq Followed'
          PROVE  \E i \in DOMAIN Line : Line[i] = n
      <4>1. n # m  BY <1>12, <1>16, <3>1
      <4>2. EdgesTo(n) \subseteq Followed  BY <1>5, <1>6, <3>1, <4>1
      <4> QED BY <1>1, <1>2, <4>2 DEF FreeIsQueued
    <3> QED BY <1>3, <2>1, <3>1 DEF FreeIsQueued
  <2> QED BY <1>1, <1>11, <1>13, <2>2, <2>3 DEF SortInv
<1>17. CASE degree = 0
  <2>1. Line' = Append(Line, m)
    BY <1>1, <1>4, <1>14, <1>17, Joined DEF Line
  <2>2. /\ DOMAIN Line' = 1..(L + 1)
        /\ \A i \in 1..L : Line'[i] = Line[i]
        /\ Line'[L + 1] = m
    <3>1. /\ Line' \in Seq(Ids) /\ Len(Line') = L + 1
          /\ \A i \in 1..L : Line'[i] = Line[i]
          /\ Line'[L + 1] = m
      BY <1>4, <1>15, <2>1, AppendProperties
    <3> QED BY <3>1
  <2> HIDE DEF L
  <2>3. \A i \in 1..(L + 1) : i \in 1..L \/ i = L + 1
    BY <1>15
  <2>4. \A i \in 1..L : Line[i] # m
    BY <1>2, <1>4, <1>6, <1>15 DEF QueuedInOrder
  <2>5. QueuedInOrder'
    <3>1. Distinct(Line)'
      BY <1>2, <1>15, <2>2, <2>3, <2>4 DEF QueuedInOrder, Distinct
    <3>2. \A i \in 1..(L + 1) : EdgesTo(Line'[i]) \subseteq Followed'
      <4>1. \A i \in 1..L : EdgesTo(Line[i]) \subseteq Followed'
        BY <1>2, <1>6, <1>15 DEF QueuedInOrder
      <4> QED BY <1>12, <1>17, <2>2, <2>3, <4>1
    <3>3. ASSUME NEW i \in 1..(L + 1), NEW l \in EdgesTo(Line'[i])
          PROVE  \E j \in DOMAIN order : j < i /\ order[j] = dag.edges[l].from
      <4>1. CASE i \in 1..L
        BY <1>2, <1>15, <2>2, <3>3, <4>1 DEF QueuedInOrder
      <4>2. CASE i = L + 1
        <5>1. l \in EdgesTo(m) /\ l \in DOMAIN dag.edges
          BY <2>2, <3>3, <4>2 DEF EdgesTo
        <5>2. dag.edges[l].from \in Taken
          BY <1>2, <1>6, <1>12, <1>17, <5>1 DEF Followed, PendingAreTaken
        <5>3. PICK j \in DOMAIN order : order[j] = dag.edges[l].from
          BY <5>2 DEF Taken
        <5>4. j < i  BY <1>15, <4>2, <5>3
        <5> QED BY <5>3, <5>4
      <4> QED BY <2>3, <4>1, <4>2
    <3> QED BY <1>1, <1>3, <2>2, <3>1, <3>2, <3>3 DEF QueuedInOrder
  <2>6. FreeIsQueued'
    <3>1. ASSUME NEW n \in Ids, EdgesTo(n) \subseteq Followed'
          PROVE  \E i \in DOMAIN Line' : Line'[i] = n
      <4>1. CASE n = m
        <5>1. L + 1 \in DOMAIN Line'  BY <1>15, <2>2
        <5> QED BY <2>2, <4>1, <5>1
      <4>2. CASE n # m
        <5>1. EdgesTo(n) \subseteq Followed  BY <1>5, <1>6, <3>1, <4>2
        <5>2. PICK i \in DOMAIN Line : Line[i] = n
          BY <1>1, <1>2, <5>1 DEF FreeIsQueued
        <5>3. i \in DOMAIN Line' /\ Line'[i] = n  BY <1>15, <2>2, <5>2
        <5> QED BY <5>3
      <4> QED BY <4>1, <4>2
    <3> QED BY <1>3, <3>1 DEF FreeIsQueued
  <2> QED BY <1>1, <1>11, <1>13, <2>5, <2>6 DEF SortInv
<1> QED BY <1>16, <1>17

\* Every step of validateDag keeps what the order is built on.
LEMMA SortPart == IInv /\ SortInv /\ [Next]_vars => SortInv'
<1> SUFFICES ASSUME IInv, SortInv, [Next]_vars PROVE SortInv'
  OBVIOUS
<1>1. TypeOK /\ CheckedInv
  BY DEF IInv
<1>2. CASE CheckDuplicates \/ CheckReferences
  <2>1. /\ order' = order /\ queue' = queue /\ ~Sorted'
        /\ pc \in {"duplicates", "references"} /\ (pc' = "done" => errors' # {})
    BY <1>2 DEF CheckDuplicates, CheckReferences, Sorted, sortVars
  <2> QED BY <2>1 DEF SortInv
<1>3. ASSUME NEW n \in Ids, Search(n) PROVE SortInv'
  <2>1. pc = "cycles" /\ pc' = "cycles" /\ order' = order /\ queue' = queue
    BY <1>3 DEF Search, StartSearch, Descend, PassBlack, FindCycle, Searching, sortVars
  <2> QED BY <2>1 DEF SortInv, Sorted
<1>4. CASE Leave \/ EndSearch
  <2>1. /\ pc = "cycles" /\ order' = order /\ queue' = queue /\ ~Sorted'
        /\ (pc' = "done" => errors' # {})
    BY <1>4 DEF Leave, EndSearch, Searching, Sorted, sortVars
  <2> QED BY <2>1 DEF SortInv
<1>5. CASE StartSort
  <2>1. /\ pc = "sort" /\ pc' = "sources" /\ dag' = dag /\ order' = order /\ queue' = queue
        /\ pending' = pending /\ inDegree' = [n \in Ids |-> Cardinality(EdgesTo(n))]
    BY <1>5 DEF StartSort
  <2>2. order' = <<>> /\ queue' = <<>> /\ pending' = {}
    BY <1>1, <2>1 DEF SortInv, TypeOK
  <2>3. Ids' = Ids /\ \A m : EdgesTo(m)' = EdgesTo(m)
    BY <2>1, SameDefinition, SameEdges
  <2>4. Followed' = {} /\ DOMAIN Line' = {}
    BY <2>2 DEF Followed, Taken, Line
  <2>5. DegreesCount'
    BY <2>1, <2>3, <2>4 DEF DegreesCount
  <2>6. QueuedInOrder' /\ FreeIsQueued' /\ PendingAreTaken'
    BY <2>1, <2>2, <2>4 DEF QueuedInOrder, Distinct, FreeIsQueued, PendingAreTaken
  <2> QED BY <2>1, <2>2, <2>5, <2>6 DEF SortInv
<1>6. ASSUME NEW n \in Ids, QueueSource(n) PROVE SortInv'
  BY <1>1, <1>6, QueueKeepsSort
<1>7. ASSUME dag' = dag, order' = order, queue' = queue, pending' = pending,
             inDegree' = inDegree
      PROVE  /\ DegreesCount => DegreesCount'
             /\ QueuedInOrder => QueuedInOrder'
             /\ PendingAreTaken => PendingAreTaken'
             /\ Line' = Line /\ Followed' = Followed
             /\ Ids' = Ids /\ \A m : EdgesTo(m)' = EdgesTo(m)
  <2>1. Ids' = Ids /\ \A m : EdgesTo(m)' = EdgesTo(m)
    BY <1>7, SameDefinition, SameEdges
  <2>2. Taken' = Taken /\ Line' = Line  BY <1>7 DEF Taken, Line
  <2>3. Followed' = Followed  BY <1>7, <2>2 DEF Followed
  <2>4. (DegreesCount => DegreesCount') /\ (PendingAreTaken => PendingAreTaken')
    BY <1>7, <2>1, <2>2, <2>3 DEF DegreesCount, PendingAreTaken
  <2>5. QueuedInOrder => QueuedInOrder'
    BY <1>7, <2>1, <2>2, <2>3 DEF QueuedInOrder, Distinct
  <2> QED BY <2>1, <2>2, <2>3, <2>4, <2>5
<1>8. CASE EndSources
  <2>1. /\ pc = "sources" /\ pc' = "sorting" /\ dag' = dag /\ Sources = {}
        /\ order' = order /\ queue' = queue /\ pending' = pending /\ inDegree' = inDegree
    BY <1>8 DEF EndSources, sortVars
  <2>2. DegreesCount /\ QueuedInOrder /\ PendingAreTaken /\ order = <<>>
    BY <2>1 DEF SortInv, Sorted
  <2>3. Line = queue
    BY <1>1, <2>2 DEF Line, TypeOK
  <2>4. ASSUME NEW n \in Ids, EdgesTo(n) \subseteq Followed
        PROVE  \E i \in DOMAIN Line : Line[i] = n
    <3>1. EdgesTo(n) \ Followed = {}  BY <2>4
    <3>2. inDegree[n] = 0  BY <2>2, <3>1, FS_EmptySet DEF DegreesCount
    <3> QED BY <2>1, <2>3, <3>2 DEF Sources
  <2>5. FreeIsQueued'
    BY <1>7, <2>1, <2>4 DEF FreeIsQueued
  <2> QED BY <1>7, <2>1, <2>2, <2>5 DEF SortInv
<1>9. CASE TakeNode
  BY <1>1, <1>9, TakeKeepsSort
<1>10. ASSUME NEW k \in pending, FollowEdge(k) PROVE SortInv'
  BY <1>1, <1>10, FollowKeepsSort
<1>11. CASE EndSort \/ UNCHANGED vars
  <2>1. /\ dag' = dag /\ errors' = errors /\ order' = order /\ queue' = queue
        /\ pending' = pending /\ inDegree' = inDegree
        /\ pc' = pc \/ (pc = "sorting" /\ pc' = "done" /\ queue = <<>>)
    BY <1>11 DEF EndSort, vars, searchVars, sortVars
  <2>2. FreeIsQueued /\ (pc' # pc => pc = "sorting") => FreeIsQueued'
    BY <1>7, <2>1 DEF FreeIsQueued
  <2> QED BY <1>7, <2>1, <2>2 DEF SortInv, Sorted
<1> QED BY <1>2, <1>3, <1>4, <1>5, <1>6, <1>8, <1>9, <1>10, <1>11 DEF Next

\* A sequence without repetitions is as long as it has elements.
LEMMA DistinctLength ==
    ASSUME NEW S, NEW s \in Seq(S), Distinct(s)
    PROVE  /\ Cardinality({s[i] : i \in DOMAIN s}) = Len(s)
           /\ IsFiniteSet({s[i] : i \in DOMAIN s})
<1> DEFINE T == {s[i] : i \in DOMAIN s}
<1>1. Len(s) \in Nat /\ DOMAIN s = 1..Len(s) /\ s = [i \in 1..Len(s) |-> s[i]]
  OBVIOUS
<1>2. s \in Bijection(1..Len(s), T)
  <2>1. s \in [1..Len(s) -> T]  BY <1>1
  <2>2. \A i, j \in 1..Len(s) : s[i] = s[j] => i = j  BY <1>1 DEF Distinct
  <2>3. \A t \in T : \E i \in 1..Len(s) : s[i] = t  BY <1>1
  <2> HIDE DEF T
  <2> QED BY <2>1, <2>2, <2>3 DEF Bijection, Injection, Surjection, IsInjective
<1>3. ExistsBijection(1..Len(s), T)
  BY <1>2 DEF ExistsBijection
<1>4. IsFiniteSet(1..Len(s))
  <2>1. 1 \in Int /\ Len(s) \in Int  BY <1>1
  <2> QED BY <2>1, FS_Interval
<1> HIDE DEF T
<1>5. Cardinality(T) = Len(s) /\ IsFiniteSet(T)
  BY <1>1, <1>3, <1>4, FS_CountingElements, FS_Bijection
<1> QED BY <1>5 DEF T

\* What the invariants say of an accepted definition.
LEMMA OrderFollows == IInv /\ SourceInv /\ SortInv => OrderIsTopological
<1> SUFFICES ASSUME IInv, SourceInv, SortInv, pc = "done", errors = {}
             PROVE  /\ Len(order) = Len(dag.nodes)
                    /\ Taken = Ids
                    /\ \A e \in Edges : \E i, j \in DOMAIN order :
                         i < j /\ order[i] = e.from /\ order[j] = e.to
  BY DEF OrderIsTopological, Taken
<1>1. TypeOK /\ Distinct(dag.nodes) /\ BadReferences = {}
  BY DEF IInv, CheckedInv
<1>2. queue = <<>> /\ pending = {} /\ QueuedInOrder /\ FreeIsQueued
  BY <1>1 DEF SortInv, Sorted, TypeOK
<1>3. order \in Seq(Ids) /\ Line = order
  BY <1>1, <1>2 DEF Line, TypeOK
<1>4. Taken \subseteq Ids
  BY <1>3 DEF Taken
<1>5. \A k \in DOMAIN dag.edges : /\ dag.edges[k].from \in Ids
                                  /\ dag.edges[k].to \in Neighbors(dag.edges[k].from)
  <2>1. \A k \in DOMAIN dag.edges : dag.edges[k] \in Edges  BY DEF Edges
  <2> QED BY <1>1, <2>1, GoodReferences DEF Neighbors
<1>6. Taken = Ids
  <2> SUFFICES ASSUME Ids \ Taken # {} PROVE FALSE
    BY <1>4
  <2>1. PICK n \in Ids \ Taken : \A m \in Ids \ Taken : n \notin Neighbors(m)
    <3>1. HasSource(Ids \ Taken)  BY DEF SourceInv
    <3> QED BY <3>1 DEF HasSource
  <2>2. \A k \in EdgesTo(n) : k \in DOMAIN dag.edges /\ dag.edges[k].from \in Taken
    BY <1>5, <2>1 DEF EdgesTo
  <2>3. EdgesTo(n) \subseteq Followed
    BY <1>2, <2>2 DEF Followed
  <2>4. PICK i \in DOMAIN order : order[i] = n
    BY <1>2, <1>3, <2>1, <2>3 DEF FreeIsQueued
  <2> QED BY <2>1, <2>4 DEF Taken
<1>7. Len(order) = Len(dag.nodes)
  <2>1. Distinct(order)  BY <1>2, <1>3 DEF QueuedInOrder
  <2>2. Cardinality(Taken) = Len(order)
    BY <1>3, <2>1, DistinctLength DEF Taken
  <2>3. Cardinality(Ids) = Len(dag.nodes)
    BY <1>1, DistinctLength DEF Ids, TypeOK
  <2> QED BY <1>6, <2>2, <2>3
<1>8. ASSUME NEW e \in Edges
      PROVE  \E i, j \in DOMAIN order : i < j /\ order[i] = e.from /\ order[j] = e.to
  <2>1. PICK k \in DOMAIN dag.edges : dag.edges[k] = e  BY DEF Edges
  <2>2. e.to \in Ids  BY <1>1, GoodReferences
  <2>3. PICK j \in DOMAIN order : order[j] = e.to  BY <1>6, <2>2 DEF Taken
  <2>4. k \in EdgesTo(order[j])  BY <2>1, <2>3 DEF EdgesTo
  <2>5. PICK i \in DOMAIN order : i < j /\ order[i] = dag.edges[k].from
    BY <1>2, <1>3, <2>4 DEF QueuedInOrder
  <2> QED BY <2>1, <2>3, <2>5
<1> QED BY <1>6, <1>7, <1>8

\* The execution order that validateDag returns, and by which executeRun numbers the
\* steps, holds every node of the definition exactly once and behind all nodes that an
\* edge leads from: for every definition, with any number of parallel edges, and in
\* whatever order nodes are queued and edges followed.
THEOREM OrderIsTopologicalAlways == Spec => []OrderIsTopological
<1>1. Init => SourceInv /\ SortInv
  <2>1. Init => Black = {}  BY DEF Init, Black
  <2>2. \A X \in SUBSET {} : HasSource(X)  BY DEF HasSource
  <2> QED BY <2>1, <2>2 DEF Init, SourceInv, SortInv, Sorted
<1> QED BY Invariance, SourcePart, SortPart, OrderFollows, <1>1, PTL DEF Spec

Graph == INSTANCE WorkflowGraph

\* The graph of the definition, as the layer loop of module DagExecution reads it.
Definition == [nodes |-> Ids, edges |-> Edges]

\* validateDag guarantees what the layer loop is built on (the assumption that DagExecution
\* makes of its workflows): when it accepts a definition, the edges join nodes, and every
\* set of nodes has one that waits for none of the set, so no layer is ever empty.
THEOREM AcceptedIsExecutable ==
    Spec => [](pc = "done" /\ errors = {} => IsFiniteSet(Ids) /\ Graph!Acyclic(Definition))
<1>1. ASSUME IInv, SourceInv, pc = "done", errors = {}
      PROVE  IsFiniteSet(Ids) /\ Graph!Acyclic(Definition)
  <2>1. TypeOK /\ Distinct(dag.nodes) /\ BadReferences = {}
    BY <1>1 DEF IInv, CheckedInv
  <2>2. IsFiniteSet(Ids)
    <3>1. dag.nodes \in Seq(NodeId)  BY <2>1 DEF TypeOK
    <3> QED BY <2>1, <3>1, DistinctLength DEF Ids
  <2>3. \A e \in Edges : e.from \in Ids /\ e.to \in Ids /\ e.to \in Neighbors(e.from)
    BY <2>1, GoodReferences DEF Neighbors
  <2>4. ASSUME NEW X \in SUBSET Ids, X # {}
        PROVE  \E n \in X : Graph!Preds(Definition, n) \cap X = {}
    <3>1. PICK n \in X : \A m \in X : n \notin Neighbors(m)
      BY <1>1, <2>4 DEF SourceInv, HasSource
    <3>2. \A m \in Graph!Preds(Definition, n) : n \in Neighbors(m)
      BY <2>3 DEF Graph!Preds, Definition
    <3> QED BY <3>1, <3>2
  <2> QED BY <2>2, <2>3, <2>4 DEF Graph!Acyclic, Definition
<1>2. Init => SourceInv
  <2>1. Init => Black = {}  BY DEF Init, Black
  <2>2. \A X \in SUBSET {} : HasSource(X)  BY DEF HasSource
  <2> QED BY <2>1, <2>2 DEF Init, SourceInv
<1> QED BY Invariance, SourcePart, <1>1, <1>2, PTL DEF Spec

-----------------------------------------------------------------------------
(* Termination: what is left to do never grows. *)

StageRank == [duplicates |-> 6, references |-> 5, cycles |-> 4, sort |-> 3,
              sources |-> 2, sorting |-> 1, done |-> 0]
White == {n \in Ids : color[n] = "white"}

\* The stages to come; then, of the search, the nodes to visit, the calls to return from
\* and the neighbours that the last call has yet to look at; of the sort, the sources to
\* queue, the nodes to take and the edges to follow.
Rank ==
    <<StageRank[pc],
      Cardinality(White), Len(stack), IF stack = <<>> THEN 0 ELSE Cardinality(Top.left),
      IF pc = "sources" THEN Cardinality(Sources) ELSE 0,
      Cardinality(Ids \ Taken), Cardinality(pending)>>

\* The order of the dictionary: the first number that differs is smaller.
Lower(r, s) == \E i \in 1..7 : r[i] < s[i] /\ \A j \in 1..(i - 1) : r[j] = s[j]

\* A set without one of its elements is smaller.
LEMMA Smaller ==
    ASSUME NEW S, IsFiniteSet(S), NEW T \in SUBSET S, NEW x \in S, x \notin T
    PROVE  Cardinality(T) < Cardinality(S)
<1>1. IsFiniteSet(T) /\ Cardinality(T) <= Cardinality(S) /\ Cardinality(S) # Cardinality(T)
  BY FS_Subset
<1>2. Cardinality(S) \in Nat /\ Cardinality(T) \in Nat
  BY <1>1, FS_CardinalityType
<1> QED BY <1>1, <1>2

\* A definition has finitely many nodes and edges.
LEMMA FiniteDefinition ==
    ASSUME TypeOK
    PROVE  /\ IsFiniteSet(Ids) /\ \A S \in SUBSET Ids : IsFiniteSet(S)
           /\ IsFiniteSet(pending)
<1>1. dag.nodes \in Seq(NodeId) /\ dag.edges \in Seq([from : NodeId, to : NodeId])
      /\ pending \subseteq DOMAIN dag.edges
  BY DEF TypeOK
<1>2. Len(dag.nodes) \in Int /\ Len(dag.edges) \in Int /\ 1 \in Int
      /\ DOMAIN dag.nodes = 1..Len(dag.nodes) /\ DOMAIN dag.edges = 1..Len(dag.edges)
  BY <1>1
<1>3. IsFiniteSet(DOMAIN dag.nodes) /\ IsFiniteSet(DOMAIN dag.edges)
  BY <1>2, FS_Interval
<1>4. dag.nodes \in Surjection(DOMAIN dag.nodes, Ids)
  <2>1. dag.nodes = [i \in DOMAIN dag.nodes |-> dag.nodes[i]]  BY <1>1
  <2>2. dag.nodes \in [DOMAIN dag.nodes -> Ids]  BY <2>1 DEF Ids
  <2>3. \A n \in Ids : \E i \in DOMAIN dag.nodes : dag.nodes[i] = n  BY DEF Ids
  <2> QED BY <2>2, <2>3 DEF Surjection
<1>5. IsFiniteSet(Ids)
  BY <1>3, <1>4, FS_Surjection
<1> QED BY <1>1, <1>3, <1>5, FS_Subset

\* The rank consists of natural numbers, whose lexicographic order is well-founded.
LEMMA RankType == TypeOK => Rank \in [1..7 -> Nat]
<1> SUFFICES ASSUME TypeOK PROVE Rank \in [1..7 -> Nat]
  OBVIOUS
<1>1. StageRank[pc] \in Nat
  BY DEF StageRank, TypeOK
<1>2. Cardinality(White) \in Nat /\ Cardinality(Sources) \in Nat
      /\ Cardinality(Ids \ Taken) \in Nat /\ Cardinality(pending) \in Nat
  <2>1. White \in SUBSET Ids /\ Sources \in SUBSET Ids /\ (Ids \ Taken) \in SUBSET Ids
    BY DEF White, Sources
  <2> QED BY <2>1, FiniteDefinition, FS_CardinalityType
<1>3. Len(stack) \in Nat /\ (stack # <<>> => Cardinality(Top.left) \in Nat)
  <2>1. stack \in Seq(Frame)  BY DEF TypeOK, Frame
  <2>2. stack # <<>> => Top.left \in SUBSET Ids
    BY <2>1, StackOperations DEF Frame
  <2> QED BY <2>1, <2>2, FiniteDefinition, FS_CardinalityType
<1> QED BY <1>1, <1>2, <1>3 DEF Rank

\* A step of the search visits a node, returns from a call, or looks at a neighbour.
LEMMA SearchGoesDown ==
    ASSUME TypeOK, NEW n \in Ids, Search(n)
    PROVE  Lower(Rank', Rank)
<1>1. dag' = dag /\ pc' = pc /\ Ids' = Ids
  BY SameDefinition DEF Search, StartSearch, Descend, PassBlack, FindCycle
<1>2. stack \in Seq(Frame)
  BY DEF TypeOK, Frame
<1>3. ASSUME color[n] = "white", color' = [color EXCEPT ![n] = "gray"]
      PROVE  Lower(Rank', Rank)
  <2>1. White' \in SUBSET White /\ n \in White /\ n \notin White'
    BY <1>1, <1>3 DEF White, TypeOK
  <2>2. IsFiniteSet(White)  BY FiniteDefinition DEF White
  <2>3. Cardinality(White') < Cardinality(White)  BY <2>1, <2>2, Smaller
  <2>4. Rank'[1] = Rank[1] /\ Rank'[2] < Rank[2]  BY <1>1, <2>3 DEF Rank
  <2> QED BY <2>4 DEF Lower
<1>4. ASSUME color' = color PROVE White' = White
  BY <1>1, <1>4 DEF White
<1>5. CASE FindCycle(n)
  <2>1. White' = White /\ Len(stack') < Len(stack)
    BY <1>2, <1>4, <1>5 DEF FindCycle, Searching
  <2>2. Rank'[1] = Rank[1] /\ Rank'[2] = Rank[2] /\ Rank'[3] < Rank[3]
    BY <1>1, <2>1 DEF Rank
  <2> QED BY <2>2 DEF Lower
<1>6. CASE PassBlack(n)
  <2>1. White' = White /\ stack # <<>> /\ stack' = Examined(n) /\ n \in Top.left
    BY <1>4, <1>6 DEF PassBlack, Searching
  <2>2. Len(stack') = Len(stack) /\ Len(stack) \in 1..Len(stack) /\ stack' # <<>>
    BY <1>2, <2>1, StackOperations
  <2>3. Top'.left = Top.left \ {n}
    <3>1. Top' = [stack[Len(stack)] EXCEPT !.left = @ \ {n}]
      BY <1>2, <2>1, <2>2 DEF Top, Examined
    <3>2. Top \in Frame  BY <1>2, <2>1, StackOperations
    <3> QED BY <3>1, <3>2 DEF Top, Frame
  <2>4. Cardinality(Top'.left) < Cardinality(Top.left)
    <3>1. Top.left \in SUBSET Ids  BY <1>2, <2>1, StackOperations DEF Frame
    <3> QED BY <2>1, <2>3, <3>1, FiniteDefinition, Smaller
  <2>5. /\ Rank'[1] = Rank[1] /\ Rank'[2] = Rank[2] /\ Rank'[3] = Rank[3]
        /\ Rank'[4] < Rank[4]
    BY <1>1, <2>1, <2>2, <2>4 DEF Rank
  <2> QED BY <2>5 DEF Lower
<1> QED BY <1>3, <1>5, <1>6 DEF Search, StartSearch, Descend

\* Returning from a call: its node was not visited again.
LEMMA LeaveGoesDown ==
    ASSUME TypeOK, Leave
    PROVE  Lower(Rank', Rank)
<1>1. pc' = pc /\ Ids' = Ids /\ stack # <<>>
      /\ color' = [color EXCEPT ![Top.node] = "black"]
      /\ stack' = SubSeq(stack, 1, Len(stack) - 1)
  BY SameDefinition DEF Leave, Searching
<1>2. stack \in Seq(Frame)
  BY DEF TypeOK, Frame
<1>3. Len(stack') < Len(stack)
  <2>1. Len(stack') = Len(stack) - 1 /\ Len(stack) \in Nat
    BY <1>1, <1>2, StackOperations
  <2> QED BY <2>1
<1>4. White' \in SUBSET White
  BY <1>1 DEF White, TypeOK
<1>5. CASE White' = White
  <2>1. Rank'[1] = Rank[1] /\ Rank'[2] = Rank[2] /\ Rank'[3] < Rank[3]
    BY <1>1, <1>3, <1>5 DEF Rank
  <2> QED BY <2>1 DEF Lower
<1>6. CASE White' # White
  <2>1. PICK n \in White : n \notin White'  BY <1>4, <1>6
  <2>2. IsFiniteSet(White)  BY FiniteDefinition DEF White
  <2>3. Cardinality(White') < Cardinality(White)  BY <1>4, <2>1, <2>2, Smaller
  <2>4. Rank'[1] = Rank[1] /\ Rank'[2] < Rank[2]  BY <1>1, <2>3 DEF Rank
  <2> QED BY <2>4 DEF Lower
<1> QED BY <1>5, <1>6

\* A step of the sort queues a source, takes a node, or follows an edge.
LEMMA SortGoesDown ==
    ASSUME TypeOK, SortInv,
           TakeNode \/ (\E n \in Ids : QueueSource(n)) \/ (\E k \in pending : FollowEdge(k))
    PROVE  Lower(Rank', Rank)
<1>1. dag' = dag /\ pc' = pc /\ Ids' = Ids /\ color' = color /\ stack' = stack
  BY SameDefinition DEF TakeNode, QueueSource, FollowEdge, searchVars
<1>2. /\ Rank'[1] = Rank[1] /\ Rank'[2] = Rank[2]
      /\ Rank'[3] = Rank[3] /\ Rank'[4] = Rank[4]
  <2>1. White' = White /\ Top' = Top  BY <1>1 DEF White, Top
  <2> QED BY <1>1, <2>1 DEF Rank
<1>3. ASSUME NEW n \in Ids, QueueSource(n) PROVE Lower(Rank', Rank)
  <2>1. /\ pc = "sources" /\ n \in Sources /\ queue' = Append(queue, n)
        /\ inDegree' = inDegree /\ queue \in Seq(Ids)
    BY <1>3 DEF QueueSource, TypeOK
  <2>2. /\ DOMAIN queue = 1..Len(queue) /\ Len(queue) \in Nat
        /\ DOMAIN queue' = 1..(Len(queue) + 1)
        /\ \A i \in 1..Len(queue) : queue'[i] = queue[i]
        /\ queue'[Len(queue) + 1] = n
    BY <2>1
  <2>3. Sources' \in SUBSET Sources
    BY <1>1, <2>1, <2>2 DEF Sources
  <2>4. n \notin Sources'
    BY <2>2 DEF Sources
  <2>5. IsFiniteSet(Sources)  BY FiniteDefinition DEF Sources
  <2>6. Cardinality(Sources') < Cardinality(Sources)
    BY <2>1, <2>3, <2>4, <2>5, Smaller
  <2>7. Rank'[5] < Rank[5]  BY <1>1, <2>1, <2>6 DEF Rank
  <2> QED BY <1>2, <2>7 DEF Lower
<1>4. CASE TakeNode
  <2>1. /\ pc = "sorting" /\ queue # <<>> /\ order' = Append(order, Head(queue))
        /\ order \in Seq(Ids) /\ queue \in Seq(Ids)
    BY <1>4 DEF TakeNode, TypeOK
  <2>2. Head(queue) \in Ids /\ Head(queue) \notin Taken
    <3>1. Distinct(Line)  BY <2>1 DEF SortInv, Sorted, QueuedInOrder
    <3>2. /\ Len(order) \in Nat /\ Len(queue) \in Nat \ {0} /\ DOMAIN order = 1..Len(order)
          /\ Head(queue) = queue[1] /\ queue[1] \in Ids
      BY <2>1
    <3>3. /\ Len(Line) = Len(order) + Len(queue)
          /\ \A i \in 1..Len(order) + Len(queue) : Line[i] =
               IF i <= Len(order) THEN order[i] ELSE queue[i - Len(order)]
      BY <2>1, ConcatProperties DEF Line
    <3>4. DOMAIN Line = 1..Len(Line)  BY <2>1, LineFacts
    <3>5. Line[Len(order) + 1] = queue[1] /\ Len(order) + 1 \in DOMAIN Line
      BY <3>2, <3>3, <3>4
    <3>6. ASSUME NEW i \in DOMAIN order PROVE order[i] # queue[1]
      <4>1. i \in DOMAIN Line /\ Line[i] = order[i] /\ i # Len(order) + 1
        BY <3>2, <3>3, <3>4
      <4> QED BY <3>1, <3>5, <4>1 DEF Distinct
    <3> QED BY <3>2, <3>6 DEF Taken
  <2>3. Taken' = Taken \cup {Head(queue)}
    <3>1. /\ DOMAIN order = 1..Len(order) /\ DOMAIN order' = 1..(Len(order) + 1)
          /\ \A i \in 1..Len(order) : order'[i] = order[i]
          /\ order'[Len(order) + 1] = Head(queue) /\ Len(order) \in Nat
      BY <2>1, <2>2
    <3>2. DOMAIN order' = DOMAIN order \cup {Len(order) + 1}  BY <3>1
    <3> QED BY <3>1, <3>2 DEF Taken
  <2>4. Cardinality(Ids' \ Taken') < Cardinality(Ids \ Taken)
    <3>1. IsFiniteSet(Ids \ Taken)  BY FiniteDefinition
    <3> QED BY <1>1, <2>2, <2>3, <3>1, Smaller
  <2>5. Rank'[5] = Rank[5] /\ Rank'[6] < Rank[6]
    BY <1>1, <2>1, <2>4 DEF Rank
  <2> QED BY <1>2, <2>5 DEF Lower
<1>5. ASSUME NEW k \in pending, FollowEdge(k) PROVE Lower(Rank', Rank)
  <2>1. pending' = pending \ {k} /\ order' = order /\ pc = "sorting"
    BY <1>5 DEF FollowEdge, TypeOK
  <2>2. Taken' = Taken  BY <2>1 DEF Taken
  <2>3. Cardinality(pending') < Cardinality(pending)
    BY <2>1, FiniteDefinition, Smaller
  <2>4. Rank'[5] = Rank[5] /\ Rank'[6] = Rank[6] /\ Rank'[7] < Rank[7]
    BY <1>1, <2>1, <2>2, <2>3 DEF Rank
  <2> QED BY <1>2, <2>4 DEF Lower
<1> QED BY <1>3, <1>4, <1>5

\* validateDag does not run for ever, whatever definition it is given and in whatever
\* order it looks at nodes and edges: each of its steps leaves less to do.
THEOREM EveryStepGoesDown ==
    Spec => [](Rank \in [1..7 -> Nat]) /\ [][Lower(Rank', Rank)]_vars
<1>1. ASSUME IInv, SortInv, [Next]_vars PROVE [Lower(Rank', Rank)]_vars
  <2>1. TypeOK  BY <1>1 DEF IInv
  <2>2. ASSUME StageRank[pc'] < StageRank[pc] PROVE Lower(Rank', Rank)
    <3>1. Rank'[1] < Rank[1]  BY <2>2 DEF Rank, StageRank
    <3> QED BY <3>1 DEF Lower
  <2>3. CASE CheckDuplicates \/ CheckReferences \/ EndSearch
    BY <2>2, <2>3 DEF CheckDuplicates, CheckReferences, EndSearch, StageRank
  <2>4. CASE StartSort \/ EndSources \/ EndSort
    BY <2>2, <2>4 DEF StartSort, EndSources, EndSort, StageRank
  <2> QED BY <1>1, <2>1, <2>3, <2>4, SearchGoesDown, LeaveGoesDown, SortGoesDown DEF Next
<1>2. Init => SortInv
  BY DEF Init, SortInv, Sorted
<1> QED BY Invariance, SortPart, RankType, <1>1, <1>2, PTL DEF Spec, IInv

=============================================================================
