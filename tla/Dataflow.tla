-------------------------------- MODULE Dataflow --------------------------------
(***************************************************************************)
(* What the engine promises the author of a workflow: a node begins once,  *)
(* when every predecessor is settled, and a node that began settles later. *)
(* A node may also be settled without ever having begun (it was skipped).  *)
(* Nodes begin and settle one or several at a time.                        *)
(***************************************************************************)
VARIABLES
    pred,      \* pred[n]: the predecessors of node n, given once and for all
    started,   \* the nodes that have begun
    settled    \* the nodes whose result is recorded

Init == started = {} /\ settled = {}

Ready(n) == pred[n] \subseteq settled

Begin == \E S \in SUBSET (DOMAIN pred \ (started \cup settled)) :
    /\ \A n \in S : Ready(n)
    /\ started' = started \cup S
    /\ UNCHANGED <<pred, settled>>

\* Settling waits for the predecessors too, or the successors could overtake it.
Settle == \E S \in SUBSET (DOMAIN pred \ settled) :
    /\ \A n \in S : Ready(n)
    /\ settled' = settled \cup S
    /\ UNCHANGED <<pred, started>>

Next == Begin \/ Settle

Spec == Init /\ [][Next]_<<pred, started, settled>>
=============================================================================
