--------------------------- MODULE DagExecutionProofs ---------------------------
(***************************************************************************)
(* Proofs about DagExecution: its safety properties, for every set of      *)
(* acyclic workflows, every number of retries and every number of rejected *)
(* database calls and throwing executors.                                  *)
(*                                                                         *)
(* The inductive invariant comes in parts, each inductive relative to the  *)
(* parts before it: types, layers, branches, the abort, failures, rows.    *)
(* Termination: every step lowers the rank, a tuple of natural numbers.    *)
(***************************************************************************)
EXTENDS DagExecution, FiniteSetTheorems, TLAPS

Started == {n \in Nodes : phase[n] # "idle"}
Settled == {n \in Nodes : result[n] # "none"}

\* TypeOK is not inductive: an outcome that is written to a row must be there, and
\* so must the verdict, which only the end of the loop fixes.
RecordedNodes ==
    /\ \A n \in Nodes : phase[n] = "finished" => outcome[n] # "none"
    /\ stage = "recording" => todo \subseteq layer /\ \A n \in layer : phase[n] = "finished"
    /\ stage = "verdict" => verdict # "none"
    /\ verdict # "none" => stage \in {"verdict", "catch", "over", "dead"}

TypeInv == TypeOK /\ wf \in Workflows /\ RecordedNodes

\* What the layer loop has settled at each of its stages.  The first conjunct is
\* the heart of it: the predecessors of every node of a layer lie in the layers
\* before, never in the layer that executes.
LayerInv ==
    /\ \A n \in visited : Preds(wf, n) \subseteq visited \ layer
    /\ Started \subseteq visited /\ Settled \subseteq visited
    /\ stage \in {"marking", "running", "recording"} => visited \ layer \subseteq Settled
    /\ stage \in {"marking", "running"} => layer \cap Settled = {} /\ ~hasFailure
    /\ stage = "marking" => layer \cap Started = {}
    /\ stage = "recording" => layer \ todo \subseteq Settled /\ todo \cap Settled = {}
    /\ stage = "layer" /\ ~hasFailure => visited \subseteq Settled
    /\ stage = "failing" => hasFailure
    /\ \A n \in Nodes : phase[n] \in {"executing", "backoff"}
                          => n \in layer /\ stage \in {"running", "catch", "over", "dead"}
    /\ stage = "failing" => layer = {}

\* A node is taken out before it could begin.
BranchInv ==
    /\ skipped \cap Started = {}
    /\ stage \in {"marking", "running"} => skipped \cap layer = {}

\* The nodes with a late attempt are nodes of the layer that was current at the abort;
\* none of them waits for another attempt.
LateInv ==
    \A n \in Nodes : late[n] = 0 \/ /\ late[n] = 1 /\ aborted
                                    /\ n \in layer /\ phase[n] \in {"executing", "finished", "thrown"}

\* A recorded failure is known to the loop, as long as it goes on.
Left == stage \in {"catch", "over", "dead"} /\ verdict = "none"
FailureInv == \A n \in Nodes : result[n] = "FAILED" => hasFailure \/ Left

\* Which rows are still open, that is, neither final nor being made so in the
\* background.
Open(n) == n \notin background /\ step[n] \notin NodeStatuses

\* Background writes concern nodes of earlier layers that do not execute, so they
\* meet no other write.
BackgroundRows ==
    /\ background \subseteq visited \ layer
    /\ stage = "failing" => todo \cap background = {}

\* The failure flag and the FAILED rows tell the same.
FailedRows ==
    /\ \A n \in Nodes : step[n] = "FAILED" => (hasFailure \/ Left) /\ n \notin background
    /\ hasFailure => \E n \in Nodes : step[n] = "FAILED"
    /\ stage = "recording" => \A n \in todo : step[n] # "FAILED"

\* Only what the current stage has yet to handle is open, and when the loop is left
\* before its end, nothing but the layer at hand.
OpenRows ==
    /\ stage = "marking" => todo \subseteq layer
    /\ \A n \in Nodes : step[n] = "RUNNING" => n \in layer
    /\ \A n \in visited : Open(n) =>
         \/ stage \in {"marking", "running"} /\ n \in layer
         \/ stage \in {"failing", "recording"} /\ n \in todo
         \/ Left /\ (n \in layer \/ layer = {})

\* What the verdict says of the loop it ended, and what becomes of it.
VerdictRows ==
    /\ stage \in {"catch", "dead"} => faults > 0
    /\ faults > 0 => stage \in {"catch", "over", "dead"}
    /\ verdict # "none" =>
         /\ verdict # "CANCELLED" => visited = Nodes
         /\ verdict = "SUCCESS" => ~hasFailure
         /\ verdict = "FAILED" => hasFailure
    /\ runStatus \in {"RUNNING", "FAILED", verdict}
    /\ stage = "over" /\ faults = 0 =>
         /\ runStatus = verdict /\ verdict # "none"
         /\ \A n \in Nodes : phase[n] \notin {"executing", "backoff"}
    /\ stage = "over" /\ faults = 1 => runStatus = "FAILED"

RowInv == BackgroundRows /\ FailedRows /\ OpenRows /\ VerdictRows

\* collectReachable returns nodes.
LEMMA ReachableNodes == \A S : Reachable(S) \subseteq Nodes
  BY DEF Reachable

\* So does what a conditional takes out.
LEMMA TakenOutNodes == \A n, met : TakenOut(n, met) \subseteq Nodes
  BY ReachableNodes DEF TakenOut

\* buildLayers puts no node into two layers.
LEMMA NextLayerNodes == NextLayer \subseteq Nodes \ visited
  BY DEF NextLayer, Unblocked

\* buildLayers puts every node into some layer.
LEMMA LastLayer ==
  ASSUME visited \subseteq Nodes, NextLayer = {}
  PROVE  visited = Nodes
  <1>1. Nodes \ visited = {}
    BY DEF NextLayer
  <1> QED
    BY <1>1

\* The strengthened type invariant is inductive.
LEMMA TypeInvariant == Spec => []TypeInv
  <1>1. Init => TypeInv
    <2> SUFFICES ASSUME Init PROVE TypeInv
      OBVIOUS
    <2>1. /\ tries \in [Nodes -> 0..MaxRetries]
          /\ late \in [Nodes -> Nat]
          /\ faults \in 0..MaxFaults
      BY BoundsAssumption DEF Init, Nodes
    <2>2. TypeOK
      BY <2>1 DEF Init, TypeOK, Stages, NodeStatuses, Nodes
    <2>3. wf \in Workflows /\ RecordedNodes
      BY DEF Init, RecordedNodes, Nodes
    <2> QED
      BY <2>2, <2>3 DEF TypeInv
  <1>2. TypeInv /\ [Next]_vars => TypeInv'
    <2> SUFFICES ASSUME TypeInv, [Next]_vars PROVE TypeInv'
      OBVIOUS
    <2> USE DEF TypeInv, TypeOK, RecordedNodes, Stages, NodeStatuses, Nodes, loopVars, nodeVars,
                dbVars
    <2>1. CASE TakeLayer
      BY <2>1, NextLayerNodes DEF TakeLayer, Advance
    <2>2. CASE TakeFailedLayer
      BY <2>2, NextLayerNodes DEF TakeFailedLayer
    <2>3. CASE StartLayer
      BY <2>3 DEF StartLayer, CountAttempts
    <2>4. CASE LayerDone
      BY <2>4 DEF LayerDone
    <2>5. CASE EndLoop
      BY <2>5 DEF EndLoop, Verdict
    <2>6. CASE WriteVerdict
      BY <2>6 DEF WriteVerdict
    <2>7. CASE FailRun
      BY <2>7 DEF FailRun
    <2>8. ASSUME NEW n \in Nodes, MarkFailed(n) PROVE TypeInv'
      BY <2>8 DEF MarkFailed, Handled
    <2>9. ASSUME NEW n \in Nodes, MarkRunning(n) PROVE TypeInv'
      BY <2>9 DEF MarkRunning, Handled
    <2>10. ASSUME NEW n \in Nodes, RecordResult(n) PROVE TypeInv'
      BY <2>10 DEF RecordResult, Handled
    <2>11. ASSUME NEW n \in Nodes, NodeSucceeds(n) PROVE TypeInv'
      BY <2>11, TakenOutNodes DEF NodeSucceeds, Finish
    <2>12. ASSUME NEW n \in Nodes, NodeFails(n) PROVE TypeInv'
      BY <2>12 DEF NodeFails, Finish
    <2>13. ASSUME NEW n \in Nodes, NodeBacksOff(n) PROVE TypeInv'
      BY <2>13, BoundsAssumption DEF NodeBacksOff, MayRetry
    <2>14. ASSUME NEW n \in Nodes, RetryNode(n) PROVE TypeInv'
      BY <2>14 DEF RetryNode, CountAttempts
    <2>15. ASSUME NEW n \in Nodes, BackgroundWrite(n) PROVE TypeInv'
      BY <2>15 DEF BackgroundWrite
    <2>16. CASE Abort
      BY <2>16 DEF Abort
    <2>17. CASE AwaitedCallFails
      BY <2>17, BoundsAssumption DEF AwaitedCallFails, RowUncertain
    <2>18. CASE FailRunFails
      BY <2>18, BoundsAssumption DEF FailRunFails
    <2>19. ASSUME NEW n \in Nodes, BackgroundWriteFails(n) PROVE TypeInv'
      BY <2>19, BoundsAssumption DEF BackgroundWriteFails, RowUncertain
    <2>20. CASE UNCHANGED vars
      BY <2>20 DEF vars
    <2>21. ASSUME NEW n \in Nodes, NodeThrows(n) PROVE TypeInv'
      BY <2>21, BoundsAssumption DEF NodeThrows
    <2>22. QED
      BY <2>1, <2>2, <2>3, <2>4, <2>5, <2>6, <2>7, <2>8, <2>9, <2>10,
         <2>11, <2>12, <2>13, <2>14, <2>15, <2>16, <2>17, <2>18, <2>19, <2>20,
         <2>21
      DEF Next, LoopStep, RowStep, AttemptEnds
  <1>3. QED
    BY <1>1, <1>2, PTL DEF Spec

\* In an acyclic workflow the last resort of buildLayers, a layer of orphans, is never
\* needed: the predecessors of every layer are visited.
LEMMA NextLayerUnblocked ==
  ASSUME wf \in Workflows, visited \subseteq Nodes
  PROVE  \A n \in NextLayer : Preds(wf, n) \subseteq visited
  <1>1. CASE Unblocked = {} /\ Nodes \ visited # {}
    <2>1. PICK n \in Nodes \ visited : Preds(wf, n) \cap (Nodes \ visited) = {}
      BY <1>1, WorkflowsAssumption DEF Acyclic, Nodes
    <2>2. Preds(wf, n) \subseteq Nodes
      BY WorkflowsAssumption DEF Acyclic, Preds, Nodes
    <2> QED
      BY <1>1, <2>1, <2>2 DEF Unblocked
  <1>2. CASE Unblocked # {} \/ Nodes \ visited = {}
    BY <1>2 DEF NextLayer, Unblocked
  <1> QED
    BY <1>1, <1>2

\* The layer loop keeps its books.
LEMMA LayerInvariant == Spec => []LayerInv
  <1>1. Init => LayerInv
    BY DEF Init, LayerInv, Started, Settled, Nodes
  <1>2. TypeInv /\ LayerInv /\ [Next]_vars => LayerInv'
    <2> SUFFICES ASSUME TypeInv, LayerInv, [Next]_vars PROVE LayerInv'
      OBVIOUS
    <2> USE DEF LayerInv, Started, Settled, TypeInv, TypeOK, RecordedNodes, NodeStatuses, Nodes,
                loopVars, nodeVars, dbVars
    <2>1. CASE TakeLayer
      BY <2>1, NextLayerNodes, NextLayerUnblocked DEF TakeLayer, Advance
    <2>2. CASE TakeFailedLayer
      BY <2>2, NextLayerNodes, NextLayerUnblocked DEF TakeFailedLayer
    <2>3. CASE StartLayer
      BY <2>3 DEF StartLayer, CountAttempts
    <2>4. CASE LayerDone
      BY <2>4 DEF LayerDone
    <2>5. CASE EndLoop
      BY <2>5 DEF EndLoop, Verdict
    <2>6. CASE WriteVerdict
      BY <2>6 DEF WriteVerdict
    <2>7. CASE FailRun
      BY <2>7 DEF FailRun
    <2>8. ASSUME NEW n \in Nodes, MarkFailed(n) PROVE LayerInv'
      BY <2>8 DEF MarkFailed, Handled
    <2>9. ASSUME NEW n \in Nodes, MarkRunning(n) PROVE LayerInv'
      BY <2>9 DEF MarkRunning, Handled
    <2>10. ASSUME NEW n \in Nodes, RecordResult(n) PROVE LayerInv'
      BY <2>10 DEF RecordResult, Handled
    <2>11. ASSUME NEW n \in Nodes, NodeSucceeds(n) PROVE LayerInv'
      BY <2>11 DEF NodeSucceeds, Finish
    <2>12. ASSUME NEW n \in Nodes, NodeFails(n) PROVE LayerInv'
      BY <2>12 DEF NodeFails, Finish
    <2>13. ASSUME NEW n \in Nodes, NodeBacksOff(n) PROVE LayerInv'
      BY <2>13 DEF NodeBacksOff, MayRetry
    <2>14. ASSUME NEW n \in Nodes, RetryNode(n) PROVE LayerInv'
      BY <2>14 DEF RetryNode, CountAttempts
    <2>15. ASSUME NEW n \in Nodes, BackgroundWrite(n) PROVE LayerInv'
      BY <2>15 DEF BackgroundWrite
    <2>16. CASE Abort
      BY <2>16 DEF Abort
    <2>17. CASE AwaitedCallFails
      BY <2>17 DEF AwaitedCallFails, RowUncertain
    <2>18. CASE FailRunFails
      BY <2>18 DEF FailRunFails
    <2>19. ASSUME NEW n \in Nodes, BackgroundWriteFails(n) PROVE LayerInv'
      BY <2>19 DEF BackgroundWriteFails, RowUncertain
    <2>20. CASE UNCHANGED vars
      BY <2>20 DEF vars
    <2>21. ASSUME NEW n \in Nodes, NodeThrows(n) PROVE LayerInv'
      BY <2>21 DEF NodeThrows
    <2>22. QED
      BY <2>1, <2>2, <2>3, <2>4, <2>5, <2>6, <2>7, <2>8, <2>9, <2>10,
         <2>11, <2>12, <2>13, <2>14, <2>15, <2>16, <2>17, <2>18, <2>19, <2>20,
         <2>21
      DEF Next, LoopStep, RowStep, AttemptEnds
  <1>3. QED
    BY <1>1, <1>2, TypeInvariant, PTL DEF Spec

\* What a conditional of the current layer takes out lies ahead: the nodes not yet
\* visited are closed under successors and contain the conditional's targets.
LEMMA TakenOutAhead ==
  ASSUME TypeInv, LayerInv, NEW n \in layer, NEW met
  PROVE  TakenOut(n, met) \cap visited = {}
  <1> DEFINE X == Nodes \ visited
             S == {e.to : e \in {d \in {e \in wf.edges : e.from = n} :
                                   d.when = IF met THEN "false" ELSE "true"}}
  <1>1. \A e \in wf.edges : e.from \in Nodes /\ e.to \in Nodes /\ e.from \in Preds(wf, e.to)
    BY WorkflowsAssumption DEF TypeInv, Acyclic, Preds, Nodes
  <1>2. S \subseteq X
    BY <1>1 DEF LayerInv
  <1>3. \A e \in wf.edges : e.from \in X => e.to \in X
    BY <1>1 DEF LayerInv
  <1>4. Reachable(S) \subseteq X
    BY <1>2, <1>3 DEF Reachable
  <1> QED
    BY <1>4 DEF TakenOut

\* Nodes off the branch have not begun and will not.
LEMMA BranchInvariant == Spec => []BranchInv
  <1>1. Init => BranchInv
    BY DEF Init, BranchInv, Started, Nodes
  <1>2. TypeInv /\ LayerInv /\ BranchInv /\ [Next]_vars => BranchInv'
    <2> SUFFICES ASSUME TypeInv, LayerInv, BranchInv, [Next]_vars PROVE BranchInv'
      OBVIOUS
    <2> USE DEF BranchInv, LayerInv, Started, TypeInv, TypeOK, Nodes, loopVars, nodeVars, dbVars
    <2>1. CASE TakeLayer
      BY <2>1 DEF TakeLayer, Advance
    <2>2. CASE TakeFailedLayer
      BY <2>2 DEF TakeFailedLayer
    <2>3. CASE StartLayer
      BY <2>3 DEF StartLayer, CountAttempts
    <2>4. CASE LayerDone
      BY <2>4 DEF LayerDone
    <2>5. CASE EndLoop
      BY <2>5 DEF EndLoop, Verdict
    <2>6. CASE WriteVerdict
      BY <2>6 DEF WriteVerdict
    <2>7. CASE FailRun
      BY <2>7 DEF FailRun
    <2>8. ASSUME NEW n \in Nodes, MarkFailed(n) PROVE BranchInv'
      BY <2>8 DEF MarkFailed, Handled
    <2>9. ASSUME NEW n \in Nodes, MarkRunning(n) PROVE BranchInv'
      BY <2>9 DEF MarkRunning, Handled
    <2>10. ASSUME NEW n \in Nodes, RecordResult(n) PROVE BranchInv'
      BY <2>10 DEF RecordResult, Handled
    <2>11. ASSUME NEW n \in Nodes, NodeSucceeds(n) PROVE BranchInv'
      BY <2>11, TakenOutAhead DEF NodeSucceeds, Finish
    <2>12. ASSUME NEW n \in Nodes, NodeFails(n) PROVE BranchInv'
      BY <2>12 DEF NodeFails, Finish
    <2>13. ASSUME NEW n \in Nodes, NodeBacksOff(n) PROVE BranchInv'
      BY <2>13 DEF NodeBacksOff, MayRetry
    <2>14. ASSUME NEW n \in Nodes, RetryNode(n) PROVE BranchInv'
      BY <2>14 DEF RetryNode, CountAttempts
    <2>15. ASSUME NEW n \in Nodes, BackgroundWrite(n) PROVE BranchInv'
      BY <2>15 DEF BackgroundWrite
    <2>16. CASE Abort
      BY <2>16 DEF Abort
    <2>17. CASE AwaitedCallFails
      BY <2>17 DEF AwaitedCallFails, RowUncertain
    <2>18. CASE FailRunFails
      BY <2>18 DEF FailRunFails
    <2>19. ASSUME NEW n \in Nodes, BackgroundWriteFails(n) PROVE BranchInv'
      BY <2>19 DEF BackgroundWriteFails, RowUncertain
    <2>20. CASE UNCHANGED vars
      BY <2>20 DEF vars
    <2>21. ASSUME NEW n \in Nodes, NodeThrows(n) PROVE BranchInv'
      BY <2>21 DEF NodeThrows
    <2>22. QED
      BY <2>1, <2>2, <2>3, <2>4, <2>5, <2>6, <2>7, <2>8, <2>9, <2>10,
         <2>11, <2>12, <2>13, <2>14, <2>15, <2>16, <2>17, <2>18, <2>19, <2>20,
         <2>21
      DEF Next, LoopStep, RowStep, AttemptEnds
  <1>3. QED
    BY <1>1, <1>2, TypeInvariant, LayerInvariant, PTL DEF Spec

\* collectReachable follows every edge.
LEMMA ReachableClosed ==
  ASSUME NEW S, NEW e \in wf.edges, e.from \in Reachable(S), e.to \in Nodes
  PROVE  e.to \in Reachable(S)
  BY DEF Reachable

\* It collects its starting points and successors of what it has collected, no more.
LEMMA ReachableFrom ==
  ASSUME TypeInv, NEW S, S \subseteq Nodes, NEW n \in Reachable(S)
  PROVE  n \in S \/ Preds(wf, n) \cap Reachable(S) # {}
  <1> SUFFICES ASSUME n \notin S, Preds(wf, n) \cap Reachable(S) = {} PROVE FALSE
    OBVIOUS
  <1> DEFINE X == Reachable(S) \ {n}
  <1>1. \A e \in wf.edges : e.from \in Nodes /\ e.to \in Nodes /\ e.from \in Preds(wf, e.to)
    BY WorkflowsAssumption DEF TypeInv, Acyclic, Preds, Nodes
  <1>2. S \subseteq X /\ X \subseteq Nodes
    BY DEF Reachable
  <1>3. \A e \in wf.edges : e.from \in X => e.to \in X
    BY <1>1, ReachableClosed
  <1>4. n \in X
    BY <1>2, <1>3 DEF Reachable
  <1> QED
    BY <1>4

\* A node all of whose predecessors a decided conditional has taken out is taken out.
LEMMA TakenOutIsClosed ==
  ASSUME TypeInv, NEW c \in Nodes, NEW met \in BOOLEAN, c \notin TakenOut(c, met),
         NEW n \in Nodes, Preds(wf, n) # {}, Preds(wf, n) \subseteq TakenOut(c, met)
  PROVE  n \in TakenOut(c, met)
  <1> DEFINE out == {e \in wf.edges : e.from = c}
             inactive == {e \in out : e.when = IF met THEN "false" ELSE "true"}
             I == {e.to : e \in inactive}
             A == {e.to : e \in out \ inactive}
  <1>0. TakenOut(c, met) = Reachable(I) \ Reachable(A)
    BY DEF TakenOut
  <1>1. \A e \in wf.edges : e.from \in Nodes /\ e.to \in Nodes
    BY WorkflowsAssumption DEF TypeInv, Acyclic, Nodes
  <1>2. A \subseteq Nodes /\ \A m \in A : c \in Preds(wf, m)
    BY <1>1 DEF Preds
  <1> HIDE DEF I, A
  <1>3. PICK e \in wf.edges : e.to = n /\ e.from \in Reachable(I)
    BY <1>0 DEF Preds
  <1>4. n \in Reachable(I)
    BY <1>3, ReachableClosed
  <1>5. n \notin Reachable(A)
    BY <1>0, <1>2, ReachableFrom
  <1> QED
    BY <1>0, <1>4, <1>5

\* With at most one conditional, what is skipped is what that one took out when it
\* succeeded, once.
DecidedInv ==
    Cardinality(wf.conditionals) <= 1 =>
      skipped = {} \/ \E c \in wf.conditionals, met \in BOOLEAN :
                        skipped = TakenOut(c, met) /\ phase[c] = "finished"

\* One decision: a finished node does not begin again.
LEMMA DecidedInvariant == Spec => []DecidedInv
  <1>1. Init => DecidedInv
    BY DEF Init, DecidedInv
  <1>2. TypeInv /\ LayerInv /\ DecidedInv /\ [Next]_vars => DecidedInv'
    <2> SUFFICES ASSUME TypeInv, LayerInv, DecidedInv, [Next]_vars,
                        Cardinality(wf'.conditionals) <= 1
                 PROVE  skipped' = {} \/ \E c \in wf'.conditionals, met \in BOOLEAN :
                                          skipped' = TakenOut(c, met)' /\ phase'[c] = "finished"
      BY DEF DecidedInv
    <2>1. wf' = wf /\ wf.conditionals \subseteq Nodes
      BY WorkflowsAssumption
      DEF TypeInv, Nodes, Next, LoopStep, RowStep, AttemptEnds, vars, TakeLayer, Advance, TakeFailedLayer,
          StartLayer, LayerDone, EndLoop, WriteVerdict, FailRun, MarkFailed, MarkRunning,
          RecordResult, NodeSucceeds, NodeFails, NodeBacksOff, NodeThrows, RetryNode, BackgroundWrite,
          Abort, AwaitedCallFails, FailRunFails, BackgroundWriteFails
    <2>2. \A c, met : TakenOut(c, met)' = TakenOut(c, met)
      BY <2>1 DEF TakenOut, Reachable, Nodes
    <2>3. \A c \in Nodes : phase[c] = "finished" => phase'[c] = "finished"
      <3>1. CASE StartLayer
        BY <3>1 DEF StartLayer, LayerInv, Started
      <3>2. ASSUME NEW n \in Nodes,
                   AttemptEnds(n) \/ RetryNode(n)
            PROVE  \A c \in Nodes : phase[c] = "finished" => phase'[c] = "finished"
        BY <3>2 DEF AttemptEnds, NodeSucceeds, NodeFails, NodeBacksOff, NodeThrows,
                   RetryNode, Finish, TypeInv, TypeOK
      <3>3. CASE UNCHANGED phase
        BY <3>3
      <3> QED
        BY <3>1, <3>2, <3>3
        DEF Next, LoopStep, RowStep, AttemptEnds, vars, nodeVars, TakeLayer, Advance, TakeFailedLayer,
            LayerDone, EndLoop, WriteVerdict, FailRun, MarkFailed, MarkRunning, RecordResult,
            BackgroundWrite, Abort, AwaitedCallFails, FailRunFails, BackgroundWriteFails
    <2>4. CASE UNCHANGED skipped
      BY <2>1, <2>2, <2>3, <2>4 DEF DecidedInv
    <2>5. ASSUME NEW n \in Nodes, n \in wf.conditionals, NodeSucceeds(n)
          PROVE  \E met \in BOOLEAN : skipped' = TakenOut(n, met)' /\ phase'[n] = "finished"
      <3>1. wf.conditionals = {n}
        <4>1. IsFiniteSet(wf.conditionals)
          BY <2>1, WorkflowsAssumption, FS_Subset DEF TypeInv, Nodes
        <4> QED
          BY <2>1, <2>5, <4>1, FS_Singleton, FS_EmptySet, FS_CardinalityType, FS_RemoveElement
      <3>2. skipped = {}
        BY <2>1, <2>5, <3>1 DEF DecidedInv, NodeSucceeds
      <3>3. phase'[n] = "finished"
        BY <2>5 DEF NodeSucceeds, Finish, TypeInv, TypeOK
      <3> QED
        BY <2>2, <2>5, <3>2, <3>3 DEF NodeSucceeds
    <2> QED
      BY <2>1, <2>4, <2>5
      DEF Next, LoopStep, RowStep, AttemptEnds, vars, TakeLayer, Advance, TakeFailedLayer,
          StartLayer, LayerDone, EndLoop, WriteVerdict, FailRun, MarkFailed, MarkRunning,
          RecordResult, NodeSucceeds, NodeFails, NodeBacksOff, NodeThrows, RetryNode, BackgroundWrite,
          Abort, AwaitedCallFails, FailRunFails, BackgroundWriteFails
  <1>3. QED
    BY <1>1, <1>2, TypeInvariant, LayerInvariant, PTL DEF Spec

\* The abort leaves at most one attempt to each node of the current layer.
LEMMA LateInvariant == Spec => []LateInv
  <1>1. Init => LateInv
    BY DEF Init, LateInv, Nodes
  <1>2. TypeInv /\ LayerInv /\ LateInv /\ [Next]_vars => LateInv'
    <2> SUFFICES ASSUME TypeInv, LayerInv, LateInv, [Next]_vars PROVE LateInv'
      OBVIOUS
    <2> USE DEF LateInv, LayerInv, Started, TypeInv, TypeOK, Nodes, loopVars, nodeVars, dbVars
    <2>1. CASE TakeLayer
      BY <2>1 DEF TakeLayer, Advance
    <2>2. CASE TakeFailedLayer
      BY <2>2 DEF TakeFailedLayer
    <2>3. CASE StartLayer
      BY <2>3 DEF StartLayer, CountAttempts
    <2>4. CASE LayerDone
      BY <2>4 DEF LayerDone
    <2>5. CASE EndLoop
      BY <2>5 DEF EndLoop, Verdict
    <2>6. CASE WriteVerdict
      BY <2>6 DEF WriteVerdict
    <2>7. CASE FailRun
      BY <2>7 DEF FailRun
    <2>8. ASSUME NEW n \in Nodes, MarkFailed(n) PROVE LateInv'
      BY <2>8 DEF MarkFailed, Handled
    <2>9. ASSUME NEW n \in Nodes, MarkRunning(n) PROVE LateInv'
      BY <2>9 DEF MarkRunning, Handled
    <2>10. ASSUME NEW n \in Nodes, RecordResult(n) PROVE LateInv'
      BY <2>10 DEF RecordResult, Handled
    <2>11. ASSUME NEW n \in Nodes, NodeSucceeds(n) PROVE LateInv'
      BY <2>11 DEF NodeSucceeds, Finish
    <2>12. ASSUME NEW n \in Nodes, NodeFails(n) PROVE LateInv'
      BY <2>12 DEF NodeFails, Finish
    <2>13. ASSUME NEW n \in Nodes, NodeBacksOff(n) PROVE LateInv'
      BY <2>13 DEF NodeBacksOff, MayRetry
    <2>14. ASSUME NEW n \in Nodes, RetryNode(n) PROVE LateInv'
      BY <2>14 DEF RetryNode, CountAttempts
    <2>15. ASSUME NEW n \in Nodes, BackgroundWrite(n) PROVE LateInv'
      BY <2>15 DEF BackgroundWrite
    <2>16. CASE Abort
      BY <2>16 DEF Abort
    <2>17. CASE AwaitedCallFails
      BY <2>17 DEF AwaitedCallFails, RowUncertain
    <2>18. CASE FailRunFails
      BY <2>18 DEF FailRunFails
    <2>19. ASSUME NEW n \in Nodes, BackgroundWriteFails(n) PROVE LateInv'
      BY <2>19 DEF BackgroundWriteFails, RowUncertain
    <2>20. CASE UNCHANGED vars
      BY <2>20 DEF vars
    <2>21. ASSUME NEW n \in Nodes, NodeThrows(n) PROVE LateInv'
      BY <2>21 DEF NodeThrows
    <2>22. QED
      BY <2>1, <2>2, <2>3, <2>4, <2>5, <2>6, <2>7, <2>8, <2>9, <2>10,
         <2>11, <2>12, <2>13, <2>14, <2>15, <2>16, <2>17, <2>18, <2>19, <2>20,
         <2>21
      DEF Next, LoopStep, RowStep, AttemptEnds
  <1>3. QED
    BY <1>1, <1>2, TypeInvariant, LayerInvariant, PTL DEF Spec

\* RecordResult writes the result and the flag together.
LEMMA FailureInvariant == Spec => []FailureInv
  <1>1. Init => FailureInv
    BY DEF Init, FailureInv, Nodes
  <1>2. TypeInv /\ FailureInv /\ [Next]_vars => FailureInv'
    <2> SUFFICES ASSUME TypeInv, FailureInv, [Next]_vars PROVE FailureInv'
      OBVIOUS
    <2> USE DEF FailureInv, Left, TypeInv, TypeOK, RecordedNodes, NodeStatuses, Nodes, loopVars,
                nodeVars, dbVars
    <2>1. CASE TakeLayer
      BY <2>1 DEF TakeLayer, Advance
    <2>2. CASE TakeFailedLayer
      BY <2>2 DEF TakeFailedLayer
    <2>3. CASE StartLayer
      BY <2>3 DEF StartLayer, CountAttempts
    <2>4. CASE LayerDone
      BY <2>4 DEF LayerDone
    <2>5. CASE EndLoop
      BY <2>5 DEF EndLoop, Verdict
    <2>6. CASE WriteVerdict
      BY <2>6 DEF WriteVerdict
    <2>7. CASE FailRun
      BY <2>7 DEF FailRun
    <2>8. ASSUME NEW n \in Nodes, MarkFailed(n) PROVE FailureInv'
      BY <2>8 DEF MarkFailed, Handled
    <2>9. ASSUME NEW n \in Nodes, MarkRunning(n) PROVE FailureInv'
      BY <2>9 DEF MarkRunning, Handled
    <2>10. ASSUME NEW n \in Nodes, RecordResult(n) PROVE FailureInv'
      BY <2>10 DEF RecordResult, Handled
    <2>11. ASSUME NEW n \in Nodes, NodeSucceeds(n) PROVE FailureInv'
      BY <2>11 DEF NodeSucceeds, Finish
    <2>12. ASSUME NEW n \in Nodes, NodeFails(n) PROVE FailureInv'
      BY <2>12 DEF NodeFails, Finish
    <2>13. ASSUME NEW n \in Nodes, NodeBacksOff(n) PROVE FailureInv'
      BY <2>13 DEF NodeBacksOff, MayRetry
    <2>14. ASSUME NEW n \in Nodes, RetryNode(n) PROVE FailureInv'
      BY <2>14 DEF RetryNode, CountAttempts
    <2>15. ASSUME NEW n \in Nodes, BackgroundWrite(n) PROVE FailureInv'
      BY <2>15 DEF BackgroundWrite
    <2>16. CASE Abort
      BY <2>16 DEF Abort
    <2>17. CASE AwaitedCallFails
      BY <2>17 DEF AwaitedCallFails, RowUncertain
    <2>18. CASE FailRunFails
      BY <2>18 DEF FailRunFails
    <2>19. ASSUME NEW n \in Nodes, BackgroundWriteFails(n) PROVE FailureInv'
      BY <2>19 DEF BackgroundWriteFails, RowUncertain
    <2>20. CASE UNCHANGED vars
      BY <2>20 DEF vars
    <2>21. ASSUME NEW n \in Nodes, NodeThrows(n) PROVE FailureInv'
      BY <2>21 DEF NodeThrows
    <2>22. QED
      BY <2>1, <2>2, <2>3, <2>4, <2>5, <2>6, <2>7, <2>8, <2>9, <2>10,
         <2>11, <2>12, <2>13, <2>14, <2>15, <2>16, <2>17, <2>18, <2>19, <2>20,
         <2>21
      DEF Next, LoopStep, RowStep, AttemptEnds
  <1>3. QED
    BY <1>1, <1>2, TypeInvariant, PTL DEF Spec

\* The rows follow the loop.
LEMMA RowInvariant == Spec => []RowInv
  <1>1. Init => RowInv
    BY DEF Init, RowInv, BackgroundRows, FailedRows, OpenRows, VerdictRows, Open, Left, NodeStatuses,
           Nodes
  <1>2. TypeInv /\ LayerInv /\ RowInv /\ [Next]_vars => RowInv'
    <2> SUFFICES ASSUME TypeInv, LayerInv, RowInv, [Next]_vars PROVE RowInv'
      OBVIOUS
    <2> USE DEF RowInv, BackgroundRows, FailedRows, OpenRows, VerdictRows, Open, Left, LayerInv,
                TypeInv, TypeOK, RecordedNodes, NodeStatuses, Nodes, loopVars, nodeVars, dbVars
    <2>1. CASE TakeLayer
      BY <2>1, NextLayerNodes DEF TakeLayer, Advance
    <2>2. CASE TakeFailedLayer
      BY <2>2, NextLayerNodes DEF TakeFailedLayer
    <2>3. CASE StartLayer
      BY <2>3 DEF StartLayer, CountAttempts
    <2>4. CASE LayerDone
      BY <2>4 DEF LayerDone
    <2>5. CASE EndLoop
      <3>1. BackgroundRows' /\ FailedRows' /\ OpenRows'
        BY <2>5 DEF EndLoop
      <3>2. NextLayer = {} => visited = Nodes
        BY LastLayer
      <3>3. VerdictRows'
        BY <2>5, <3>2 DEF EndLoop, Verdict
      <3> QED
        BY <3>1, <3>3
    <2>6. CASE WriteVerdict
      BY <2>6 DEF WriteVerdict
    <2>7. CASE FailRun
      BY <2>7 DEF FailRun
    <2>8. ASSUME NEW n \in Nodes, MarkFailed(n) PROVE RowInv'
      BY <2>8 DEF MarkFailed, Handled
    <2>9. ASSUME NEW n \in Nodes, MarkRunning(n) PROVE RowInv'
      BY <2>9 DEF MarkRunning, Handled
    <2>10. ASSUME NEW n \in Nodes, RecordResult(n) PROVE RowInv'
      <3>1. BackgroundRows' /\ OpenRows' /\ VerdictRows'
        BY <2>10 DEF RecordResult, Handled
      <3>2. hasFailure' => \E m \in Nodes : step'[m] = "FAILED"
        <4>1. CASE outcome[n] = "FAILED"
          BY <2>10, <4>1 DEF RecordResult
        <4>2. CASE hasFailure
          <5>1. PICK m \in Nodes : step[m] = "FAILED"
            BY <4>2
          <5>2. m # n
            BY <2>10, <5>1 DEF RecordResult
          <5> QED
            BY <2>10, <5>1, <5>2 DEF RecordResult
        <4> QED
          BY <2>10, <4>1, <4>2 DEF RecordResult
      <3>3. ASSUME NEW m \in Nodes, step'[m] = "FAILED"
            PROVE  hasFailure' /\ m \notin background'
        <4>1. CASE m = n
          <5>1. outcome[n] = "FAILED" /\ n \notin background
            BY <2>10, <3>3, <4>1 DEF RecordResult
          <5>2. hasFailure' = (hasFailure \/ outcome[n] = "FAILED") /\ background' = background
            BY <2>10 DEF RecordResult
          <5> QED
            BY <4>1, <5>1, <5>2, Zenon
        <4>2. CASE m # n
          <5>1. step[m] = "FAILED"
            BY <2>10, <3>3, <4>2 DEF RecordResult
          <5> QED
            BY <2>10, <5>1 DEF RecordResult
        <4> QED
          BY <4>1, <4>2
      <3>4. stage' = "recording" => \A m \in todo' : step'[m] # "FAILED"
        BY <2>10 DEF RecordResult, Handled
      <3>5. wf' = wf
        BY <2>10 DEF RecordResult
      <3> QED
        BY <3>1, <3>2, <3>3, <3>4, <3>5
    <2>11. ASSUME NEW n \in Nodes, NodeSucceeds(n) PROVE RowInv'
      BY <2>11 DEF NodeSucceeds, Finish
    <2>12. ASSUME NEW n \in Nodes, NodeFails(n) PROVE RowInv'
      BY <2>12 DEF NodeFails, Finish
    <2>13. ASSUME NEW n \in Nodes, NodeBacksOff(n) PROVE RowInv'
      BY <2>13 DEF NodeBacksOff, MayRetry
    <2>14. ASSUME NEW n \in Nodes, RetryNode(n) PROVE RowInv'
      BY <2>14 DEF RetryNode, CountAttempts
    <2>15. ASSUME NEW n \in Nodes, BackgroundWrite(n) PROVE RowInv'
      BY <2>15 DEF BackgroundWrite
    <2>16. CASE Abort
      BY <2>16 DEF Abort
    <2>17. CASE AwaitedCallFails
      BY <2>17 DEF AwaitedCallFails, RowUncertain
    <2>18. CASE FailRunFails
      BY <2>18 DEF FailRunFails
    <2>19. ASSUME NEW n \in Nodes, BackgroundWriteFails(n) PROVE RowInv'
      BY <2>19 DEF BackgroundWriteFails, RowUncertain
    <2>20. CASE UNCHANGED vars
      BY <2>20 DEF vars
    <2>21. ASSUME NEW n \in Nodes, NodeThrows(n) PROVE RowInv'
      <3>1. BackgroundRows' /\ OpenRows'
        BY <2>21 DEF NodeThrows
      <3>2. FailedRows'
        BY <2>21 DEF NodeThrows
      <3>3. faults' = faults + 1 /\ faults \in Nat
        BY <2>21, BoundsAssumption DEF NodeThrows
      <3>4. VerdictRows'
        BY <2>21, <3>3 DEF NodeThrows
      <3> QED
        BY <3>1, <3>2, <3>4
    <2>22. QED
      BY <2>1, <2>2, <2>3, <2>4, <2>5, <2>6, <2>7, <2>8, <2>9, <2>10,
         <2>11, <2>12, <2>13, <2>14, <2>15, <2>16, <2>17, <2>18, <2>19, <2>20,
         <2>21
      DEF Next, LoopStep, RowStep, AttemptEnds
  <1>3. QED
    BY <1>1, <1>2, TypeInvariant, LayerInvariant, PTL DEF Spec

-----------------------------------------------------------------------------
\* Every variable of the layer loop keeps its type.
THEOREM TypeCorrect == Spec => []TypeOK
  BY TypeInvariant, PTL DEF TypeInv

\* A node that a conditional took out (skippedByBranch) never executes.
THEOREM OffBranchIsIdle == Spec => []OffBranchNeverRuns
  <1>1. TypeInv /\ BranchInv => OffBranchNeverRuns
    BY DEF TypeInv, TypeOK, BranchInv, OffBranchNeverRuns, Started, Nodes
  <1> QED
    BY <1>1, TypeInvariant, BranchInvariant, PTL

\* With one conditional nothing executes on inputs none of which was produced: a
\* node behind skipped nodes only is skipped with them.
THEOREM DeadBranchesStayDead == Spec => []DeadBranchStaysDead
  <1>1. TypeInv /\ BranchInv /\ DecidedInv => DeadBranchStaysDead
    <2> SUFFICES ASSUME TypeInv, BranchInv, DecidedInv, Cardinality(wf.conditionals) <= 1,
                        NEW n \in Nodes, phase[n] # "idle", Preds(wf, n) # {},
                        Preds(wf, n) \subseteq skipped
                 PROVE  FALSE
      BY DEF DeadBranchStaysDead
    <2>1. PICK c \in wf.conditionals, met \in BOOLEAN :
            skipped = TakenOut(c, met) /\ phase[c] = "finished"
      BY DEF DecidedInv
    <2>2. c \in Nodes
      BY WorkflowsAssumption DEF TypeInv, Nodes
    <2>3. n \notin skipped /\ c \notin skipped
      BY <2>1, <2>2 DEF BranchInv, Started
    <2> QED
      BY <2>1, <2>2, <2>3, TakenOutIsClosed
  <1> QED
    BY <1>1, TypeInvariant, BranchInvariant, DecidedInvariant, PTL

\* After the abort signal each node of one layer begins at most one more attempt,
\* and no other node begins at all.
THEOREM AbortIsBounded == Spec => []AbortBoundsWork
  <1>1. TypeInv /\ LayerInv /\ LateInv => AbortBoundsWork
    BY DEF TypeInv, TypeOK, LayerInv, LateInv, AbortBoundsWork, Nodes
  <1> QED
    BY <1>1, TypeInvariant, LayerInvariant, LateInvariant, PTL

\* When executeRun has returned and the background writes are in, the row of the run
\* agrees with the rows of its steps: a SUCCESS with no open or failed step whatever
\* was rejected, and the other verdicts as VerdictMatchesSteps says, by the number of
\* rejected calls and thrown errors.
THEOREM RowsAgree == Spec => []VerdictMatchesSteps
  <1>1. TypeInv /\ LayerInv /\ RowInv => VerdictMatchesSteps
    <2> SUFFICES ASSUME TypeInv, LayerInv, RowInv, stage = "over", background = {}
                 PROVE  VerdictMatchesSteps
      BY DEF VerdictMatchesSteps
    <2>1. ASSUME verdict # "none" PROVE \A n \in visited : step[n] \in NodeStatuses
      BY <2>1 DEF RowInv, OpenRows, Open, Left, TypeInv, TypeOK, Nodes
    <2>2. ASSUME runStatus = "SUCCESS" PROVE \A n \in Nodes : step[n] \in {"SUCCESS", "SKIPPED"}
      <3>1. verdict = "SUCCESS" /\ visited = Nodes /\ ~hasFailure
        BY <2>2 DEF RowInv, VerdictRows
      <3> QED
        BY <2>1, <3>1 DEF RowInv, FailedRows, Left, NodeStatuses, Nodes
    <2>3. ASSUME faults = 0 PROVE runStatus = verdict /\ verdict # "none"
      BY <2>3 DEF RowInv, VerdictRows
    <2>4. ASSUME faults = 0 PROVE runStatus # "RUNNING" /\ \A n \in Nodes : step[n] # "RUNNING"
      BY <2>1, <2>3, <2>4 DEF RowInv, OpenRows, NodeStatuses, TypeInv, TypeOK, Nodes
    <2>5. ASSUME faults = 0, runStatus # "CANCELLED" PROVE \A n \in Nodes : step[n] # "PENDING"
      BY <2>1, <2>3, <2>5 DEF RowInv, VerdictRows, NodeStatuses
    <2>6. ASSUME faults = 0, runStatus = "FAILED" PROVE \E n \in Nodes : step[n] = "FAILED"
      BY <2>3, <2>6 DEF RowInv, FailedRows, VerdictRows
    <2>7. faults = 1 => runStatus = "FAILED"
      BY DEF RowInv, VerdictRows
    <2>8. ASSUME NEW n \in Nodes, step[n] = "RUNNING", NEW m \in Preds(wf, n)
          PROVE  step[m] \in NodeStatuses
      <3>1. n \in layer /\ m \in visited \ layer
        BY <2>8 DEF RowInv, OpenRows, LayerInv, TypeInv, TypeOK
      <3> QED
        BY <3>1 DEF RowInv, OpenRows, Open
    <2> QED
      BY <2>2, <2>4, <2>5, <2>6, <2>7, <2>8 DEF VerdictMatchesSteps
  <1> QED
    BY <1>1, TypeInvariant, LayerInvariant, RowInvariant, PTL

\* Once a failure is recorded no further node begins: only StartLayer lets an idle
\* node begin, and the loop reaches it only while no failure is recorded.
THEOREM FailureStops == Spec => FailureStopsTheWorkflow
  <1> DEFINE Stops == \A n \in Nodes : phase[n] = "idle" /\ phase'[n] # "idle"
                        => \A m \in Nodes : result[m] # "FAILED"
  <1>1. TypeInv /\ LayerInv /\ FailureInv /\ [Next]_vars => [Stops]_vars
    <2> SUFFICES ASSUME TypeInv, LayerInv, FailureInv, Next PROVE Stops
      OBVIOUS
    <2>1. CASE phase' = phase
      BY <2>1
    <2>2. CASE StartLayer
      <3>1. CASE layer = {}
        BY <2>2, <3>1 DEF StartLayer, TypeInv, TypeOK
      <3>2. CASE layer # {}
        BY <2>2, <3>2 DEF StartLayer, LayerInv, FailureInv, Left
      <3> QED
        BY <3>1, <3>2
    <2>3. ASSUME NEW n \in Nodes,
                 AttemptEnds(n) \/ RetryNode(n)
          PROVE  Stops
      BY <2>3 DEF AttemptEnds, NodeSucceeds, NodeFails, NodeBacksOff, NodeThrows,
                   RetryNode, Finish, TypeInv, TypeOK
    <2> QED
      BY <2>1, <2>2, <2>3
      DEF Next, LoopStep, RowStep, AttemptEnds, nodeVars, TakeLayer, Advance, TakeFailedLayer, LayerDone,
          EndLoop, WriteVerdict, FailRun, MarkFailed, MarkRunning, RecordResult,
          BackgroundWrite, Abort, AwaitedCallFails, FailRunFails, BackgroundWriteFails
  <1>2. QED
    BY <1>1, TypeInvariant, LayerInvariant, FailureInvariant, PTL
    DEF Spec, FailureStopsTheWorkflow

\* The layer loop implements Dataflow: a node begins when all its predecessors are
\* settled.  A layer begins together (Begin), the nodes off the branch settle with
\* the layer they would be in, the others one by one (Settle).
THEOREM InputsReady == Spec => InputsAreReady
  <1> DEFINE pred == [n \in Nodes |-> Preds(wf, n)]
  <1>1. Init => Flow!Init
    BY DEF Init, Flow!Init, Nodes
  <1>2. TypeInv /\ LayerInv /\ [Next]_vars => [Flow!Next]_<<pred, Started, Settled>>
    <2> SUFFICES ASSUME TypeInv, LayerInv, [Next]_vars
                 PROVE  [Flow!Next]_<<pred, Started, Settled>>
      OBVIOUS
    <2>0. wf' = wf => pred' = pred
      BY DEF Nodes, Preds
    <2>1. CASE TakeLayer
      <3> DEFINE off == NextLayer \cap skipped
      <3>1. Settled' = Settled \cup off
        BY <2>1, NextLayerNodes DEF TakeLayer, Advance, Settled, TypeInv, TypeOK, Nodes
      <3>2. off \subseteq Nodes \ Settled
        BY NextLayerNodes DEF LayerInv
      <3>3. \A n \in off : Preds(wf, n) \subseteq Settled
        BY <2>1, NextLayerUnblocked DEF TakeLayer, LayerInv, TypeInv, TypeOK
      <3>4. Started' = Started /\ pred' = pred
        BY <2>0, <2>1 DEF TakeLayer, Advance, nodeVars, Started, Nodes
      <3> QED
        BY <3>1, <3>2, <3>3, <3>4 DEF Flow!Next, Flow!Settle, Flow!Ready, Started, Settled
    <2>2. CASE StartLayer
      <3>1. Started' = Started \cup layer
        BY <2>2 DEF StartLayer, Started, TypeInv, TypeOK, Nodes
      <3>2. layer \subseteq Nodes \ (Started \cup Settled)
        BY <2>2 DEF StartLayer, LayerInv, TypeInv, TypeOK
      <3>3. \A n \in layer : Preds(wf, n) \subseteq Settled
        BY <2>2 DEF StartLayer, LayerInv, TypeInv, TypeOK
      <3>4. Settled' = Settled /\ pred' = pred
        BY <2>0, <2>2 DEF StartLayer, Settled, Nodes
      <3> QED
        BY <3>1, <3>2, <3>3, <3>4 DEF Flow!Next, Flow!Begin, Flow!Ready, Started, Settled
    <2>3. ASSUME NEW n \in todo, stage = "recording", wf' = wf, phase' = phase,
                 result' = [result EXCEPT ![n] = outcome[n]]
          PROVE  [Flow!Next]_<<pred, Started, Settled>>
      <3>1. n \in layer /\ outcome[n] # "none"
        BY <2>3 DEF TypeInv, TypeOK, RecordedNodes
      <3>2. Settled' = Settled \cup {n}
        BY <2>3, <3>1 DEF Settled, TypeInv, TypeOK, Nodes
      <3>3. n \in Nodes /\ n \notin Settled /\ Preds(wf, n) \subseteq Settled
        BY <2>3, <3>1 DEF LayerInv, TypeInv, TypeOK
      <3>4. Started' = Started /\ pred' = pred
        BY <2>0, <2>3 DEF Started, Nodes
      <3> DEFINE now == {n}
      <3>5. /\ Settled' = Settled \cup now /\ now \subseteq Nodes \ Settled
            /\ \A m \in now : Preds(wf, m) \subseteq Settled
        BY <3>2, <3>3
      <3> HIDE DEF now
      <3> QED
        BY <3>4, <3>5 DEF Flow!Next, Flow!Settle, Flow!Ready, Started, Settled
    <2>4. ASSUME NEW n \in Nodes,
                 AttemptEnds(n) \/ RetryNode(n)
          PROVE  UNCHANGED <<pred, Started, Settled>>
      <3>1. Started' = Started
        BY <2>4 DEF AttemptEnds, NodeSucceeds, NodeFails, NodeBacksOff, NodeThrows, RetryNode,
                    Finish, Started, TypeInv, TypeOK, Nodes
      <3> QED
        BY <2>0, <2>4, <3>1 DEF AttemptEnds, NodeSucceeds, NodeFails, NodeBacksOff, NodeThrows,
                                RetryNode, Settled, Nodes
    <2>5. CASE UNCHANGED <<wf, phase, result>>
      BY <2>0, <2>5 DEF Started, Settled, Nodes
    <2> QED
      BY <2>1, <2>2, <2>3, <2>4, <2>5
      DEF Next, LoopStep, RowStep, vars, nodeVars, TakeFailedLayer, LayerDone, EndLoop,
          WriteVerdict, FailRun, MarkFailed, MarkRunning, RecordResult, BackgroundWrite, Abort,
          AwaitedCallFails, FailRunFails, BackgroundWriteFails
  <1>3. QED
    BY <1>1, <1>2, TypeInvariant, LayerInvariant, PTL
    DEF Spec, InputsAreReady, Flow!Spec, Started, Settled

-----------------------------------------------------------------------------
(* Termination: what is left to do never grows. *)

\* A stage is followed by lower ones, until the next layer is taken.
StageRank == [marking |-> 7, running |-> 6, recording |-> 5, failing |-> 5, layer |-> 4,
              verdict |-> 3, catch |-> 2, over |-> 1, dead |-> 0]
Unfinished  == {n \in Nodes : phase[n] \notin {"finished", "thrown"}}
Waiting     == {n \in Nodes : phase[n] = "backoff"}
RetriesLeft == {r \in Nodes \X (1..MaxRetries) : tries[r[1]] < r[2]}

\* The nodes in layers to come; the stages to come of this layer and of the run, and what
\* the sequential loop of the stage has left; the signal; the background writes; the
\* promises to resolve, the retries left, and the nodes that wait for theirs.
Rank ==
    <<Cardinality(Nodes \ visited), StageRank[stage], Cardinality(todo),
      IF aborted THEN 0 ELSE 1, Cardinality(background),
      Cardinality(Unfinished), Cardinality(RetriesLeft), Cardinality(Waiting)>>

\* The order of the dictionary: the first number that differs is smaller.
Lower(r, s) == \E i \in 1..8 : r[i] < s[i] /\ \A j \in 1..(i - 1) : r[j] = s[j]

\* A set without one of its elements is smaller.
LEMMA Smaller ==
  ASSUME NEW S, IsFiniteSet(S), NEW T \in SUBSET S, NEW x \in S, x \notin T
  PROVE  Cardinality(T) < Cardinality(S)
  <1>1. IsFiniteSet(T) /\ Cardinality(T) <= Cardinality(S) /\ Cardinality(S) # Cardinality(T)
    BY FS_Subset
  <1>2. Cardinality(S) \in Nat /\ Cardinality(T) \in Nat
    BY <1>1, FS_CardinalityType
  <1> QED
    BY <1>1, <1>2

\* A workflow has finitely many nodes, and so many retries.
LEMMA FiniteWork ==
  ASSUME TypeInv
  PROVE  (\A S \in SUBSET Nodes : IsFiniteSet(S)) /\ IsFiniteSet(RetriesLeft)
  <1>1. IsFiniteSet(Nodes)
    BY WorkflowsAssumption DEF TypeInv, Nodes
  <1>2. IsFiniteSet(1..MaxRetries)
    <2>1. 1 \in Int /\ MaxRetries \in Int  BY BoundsAssumption
    <2> QED
      BY <2>1, FS_Interval
  <1>3. IsFiniteSet(Nodes \X (1..MaxRetries))
    BY <1>1, <1>2, FS_Product
  <1>4. RetriesLeft \in SUBSET (Nodes \X (1..MaxRetries))
    BY DEF RetriesLeft
  <1> QED
    BY <1>1, <1>3, <1>4, FS_Subset

\* The rank consists of natural numbers, whose lexicographic order is well-founded.
LEMMA RankType == TypeInv => Rank \in [1..8 -> Nat]
  <1> SUFFICES ASSUME TypeInv PROVE Rank \in [1..8 -> Nat]
    OBVIOUS
  <1>1. StageRank[stage] \in Nat
    BY DEF StageRank, TypeInv, TypeOK, Stages
  <1>2. /\ Cardinality(Nodes \ visited) \in Nat /\ Cardinality(todo) \in Nat
        /\ Cardinality(background) \in Nat /\ Cardinality(Unfinished) \in Nat
        /\ Cardinality(Waiting) \in Nat
    <2>1. /\ (Nodes \ visited) \in SUBSET Nodes /\ todo \in SUBSET Nodes
          /\ background \in SUBSET Nodes /\ Unfinished \in SUBSET Nodes
          /\ Waiting \in SUBSET Nodes
      BY DEF TypeInv, TypeOK, Unfinished, Waiting
    <2> QED
      BY <2>1, FiniteWork, FS_CardinalityType
  <1>3. Cardinality(RetriesLeft) \in Nat
    BY FiniteWork, FS_CardinalityType
  <1> QED
    BY <1>1, <1>2, <1>3 DEF Rank

\* A new layer: its nodes were not visited before.
LEMMA LayerGoesDown ==
  ASSUME TypeInv, TakeLayer \/ TakeFailedLayer
  PROVE  Lower(Rank', Rank)
  <1>1. wf' = wf /\ NextLayer # {} /\ visited' = visited \cup NextLayer
    BY DEF TakeLayer, TakeFailedLayer, Advance
  <1>2. PICK n \in NextLayer : n \in Nodes \ visited
    BY <1>1, NextLayerNodes
  <1>3. (Nodes \ visited)' \in SUBSET (Nodes \ visited) /\ n \notin (Nodes \ visited)'
    BY <1>1, <1>2 DEF Nodes
  <1>4. IsFiniteSet(Nodes \ visited)
    BY FiniteWork
  <1>5. Cardinality((Nodes \ visited)') < Cardinality(Nodes \ visited)
    BY <1>2, <1>3, <1>4, Smaller
  <1>6. Rank'[1] < Rank[1]
    BY <1>5 DEF Rank
  <1> QED
    BY <1>6 DEF Lower

\* What lowers the stage lowers the rank.
LEMMA StageGoesDown ==
  ASSUME wf' = wf, visited' = visited, StageRank[stage'] < StageRank[stage]
  PROVE  Lower(Rank', Rank)
  <1>1. Rank'[1] = Rank[1] /\ Rank'[2] < Rank[2]
    BY DEF Rank, Nodes, StageRank
  <1> QED
    BY <1>1 DEF Lower

\* The sequential loops handle a node, and leave the stage with their last.
LEMMA HandledGoesDown ==
  ASSUME TypeInv, NEW n \in Nodes, MarkFailed(n) \/ MarkRunning(n) \/ RecordResult(n)
  PROVE  Lower(Rank', Rank)
  <1>1. /\ wf' = wf /\ visited' = visited /\ n \in todo /\ todo' = todo \ {n}
        /\ stage' = stage \/ (stage \in {"failing", "recording"} /\ stage' = "layer")
    BY DEF MarkFailed, MarkRunning, RecordResult, Handled
  <1>2. CASE stage' = stage
    <2>1. todo \in SUBSET Nodes
      BY DEF TypeInv, TypeOK
    <2>2. Cardinality(todo') < Cardinality(todo)
      BY <1>1, <2>1, FiniteWork, Smaller
    <2>3. Rank'[1] = Rank[1] /\ Rank'[2] = Rank[2] /\ Rank'[3] < Rank[3]
      BY <1>1, <1>2, <2>2 DEF Rank, Nodes
    <2> QED
      BY <2>3 DEF Lower
  <1>3. CASE stage' # stage
    BY <1>1, <1>3, StageGoesDown DEF StageRank
  <1> QED
    BY <1>2, <1>3

\* A node finishes, backs off, or begins its next attempt.
LEMMA AttemptGoesDown ==
  ASSUME TypeInv, NEW n \in Nodes,
         AttemptEnds(n) \/ RetryNode(n)
  PROVE  Lower(Rank', Rank)
  <1>0. CASE NodeThrows(n) /\ stage = "running"
    BY <1>0, StageGoesDown DEF NodeThrows, StageRank
  <1> SUFFICES ASSUME ~(NodeThrows(n) /\ stage = "running") PROVE Lower(Rank', Rank)
    BY <1>0
  <1>1. /\ wf' = wf /\ visited' = visited /\ stage' = stage /\ todo' = todo
        /\ aborted' = aborted /\ background' = background /\ Nodes' = Nodes
    BY DEF AttemptEnds, NodeSucceeds, NodeFails, NodeBacksOff, NodeThrows, RetryNode,
           loopVars, dbVars, Nodes
  <1>2. \A i \in 1..5 : Rank'[i] = Rank[i]
    BY <1>1 DEF Rank
  <1>3. phase \in [Nodes -> {"idle", "executing", "backoff", "finished", "thrown"}]
        /\ tries \in [Nodes -> 0..MaxRetries] /\ MaxRetries \in Nat
    BY BoundsAssumption DEF TypeInv, TypeOK
  <1>4. CASE NodeSucceeds(n) \/ NodeFails(n) \/ NodeThrows(n)
    <2>1. /\ phase[n] = "executing"
          /\ \E end \in {"finished", "thrown"} : phase' = [phase EXCEPT ![n] = end]
      BY <1>4 DEF NodeSucceeds, NodeFails, NodeThrows, Finish
    <2>2. Unfinished' \in SUBSET Unfinished /\ n \in Unfinished /\ n \notin Unfinished'
      BY <1>1, <1>3, <2>1 DEF Unfinished
    <2>3. IsFiniteSet(Unfinished)
      BY FiniteWork DEF Unfinished
    <2>4. Cardinality(Unfinished') < Cardinality(Unfinished)
      BY <2>2, <2>3, Smaller
    <2>5. Rank'[6] < Rank[6]
      BY <2>4 DEF Rank
    <2> QED
      BY <1>2, <2>5 DEF Lower
  <1>5. CASE NodeBacksOff(n)
    <2>1. /\ phase[n] = "executing" /\ phase' = [phase EXCEPT ![n] = "backoff"]
          /\ tries[n] < MaxRetries /\ tries' = [tries EXCEPT ![n] = @ + 1]
      BY <1>5 DEF NodeBacksOff, MayRetry
    <2>2. Unfinished' = Unfinished
      BY <1>1, <1>3, <2>1 DEF Unfinished
    <2> DEFINE r == <<n, tries[n] + 1>>
    <2>3. r \in RetriesLeft
      BY <1>3, <2>1 DEF RetriesLeft
    <2>4. RetriesLeft' \in SUBSET RetriesLeft /\ r \notin RetriesLeft'
      <3>1. \A m \in Nodes : tries'[m] = IF m = n THEN tries[n] + 1 ELSE tries[m]
        BY <1>3, <2>1
      <3>2. \A m \in Nodes, i \in 1..MaxRetries : tries'[m] < i => tries[m] < i
        BY <1>3, <3>1
      <3>3. ~(tries'[n] < tries[n] + 1)
        BY <1>3, <3>1
      <3> QED
        BY <1>1, <3>2, <3>3 DEF RetriesLeft
    <2>5. Cardinality(RetriesLeft') < Cardinality(RetriesLeft)
      BY <2>3, <2>4, FiniteWork, Smaller
    <2>6. Rank'[6] = Rank[6] /\ Rank'[7] < Rank[7]
      BY <2>2, <2>5 DEF Rank
    <2> QED
      BY <1>2, <2>6 DEF Lower
  <1>6. CASE RetryNode(n)
    <2>1. /\ phase[n] = "backoff" /\ phase' = [phase EXCEPT ![n] = "executing"]
          /\ tries' = tries
      BY <1>6 DEF RetryNode
    <2>2. Unfinished' = Unfinished /\ RetriesLeft' = RetriesLeft
      BY <1>1, <1>3, <2>1 DEF Unfinished, RetriesLeft
    <2>3. Waiting' \in SUBSET Waiting /\ n \in Waiting /\ n \notin Waiting'
      BY <1>1, <1>3, <2>1 DEF Waiting
    <2>4. IsFiniteSet(Waiting)
      BY FiniteWork DEF Waiting
    <2>5. Cardinality(Waiting') < Cardinality(Waiting)
      BY <2>3, <2>4, Smaller
    <2>6. Rank'[6] = Rank[6] /\ Rank'[7] = Rank[7] /\ Rank'[8] < Rank[8]
      BY <2>2, <2>5 DEF Rank
    <2> QED
      BY <1>2, <2>6 DEF Lower
  <1> QED
    BY <1>4, <1>5, <1>6 DEF AttemptEnds

\* A background write lands, or the signal is set, once.
LEMMA BesideGoesDown ==
  ASSUME TypeInv, Abort \/ \E n \in Nodes : BackgroundWrite(n)
  PROVE  Lower(Rank', Rank)
  <1>1. /\ wf' = wf /\ visited' = visited /\ stage' = stage /\ todo' = todo
    BY DEF Abort, BackgroundWrite, loopVars
  <1>2. \A i \in 1..3 : Rank'[i] = Rank[i]
    BY <1>1 DEF Rank, Nodes
  <1>3. CASE Abort
    <2>1. Rank'[4] < Rank[4]
      BY <1>3 DEF Abort, Rank
    <2> QED
      BY <1>2, <2>1 DEF Lower
  <1>4. ASSUME NEW n \in Nodes, BackgroundWrite(n) PROVE Lower(Rank', Rank)
    <2>1. n \in background /\ background' = background \ {n} /\ aborted' = aborted
      BY <1>4 DEF BackgroundWrite
    <2>2. background \in SUBSET Nodes
      BY DEF TypeInv, TypeOK
    <2>3. Cardinality(background') < Cardinality(background)
      BY <2>1, <2>2, FiniteWork, Smaller
    <2>4. Rank'[4] = Rank[4] /\ Rank'[5] < Rank[5]
      BY <2>1, <2>3 DEF Rank
    <2> QED
      BY <1>2, <2>4 DEF Lower
  <1> QED
    BY <1>3, <1>4

\* executeRun does not run for ever: every step of the loop, of its nodes and their
\* retries, of the background writes, and every abort and rejection leaves less to do,
\* whatever the workflow and however the steps interleave.
THEOREM EveryStepGoesDown ==
    Spec => [](Rank \in [1..8 -> Nat]) /\ [][Lower(Rank', Rank)]_vars
  <1>1. ASSUME TypeInv, [Next]_vars PROVE [Lower(Rank', Rank)]_vars
    <2> USE <1>1
    <2>1. CASE StartLayer \/ LayerDone \/ EndLoop \/ WriteVerdict \/ FailRun
      BY <2>1, StageGoesDown
      DEF StartLayer, LayerDone, EndLoop, WriteVerdict, FailRun, StageRank
    <2>2. CASE AwaitedCallFails \/ FailRunFails
      BY <2>2, StageGoesDown DEF AwaitedCallFails, FailRunFails, StageRank
    <2>3. ASSUME NEW n \in Nodes, BackgroundWriteFails(n) PROVE Lower(Rank', Rank)
      BY <2>3, StageGoesDown DEF BackgroundWriteFails, StageRank, TypeInv, TypeOK, Stages
    <2> QED
      BY <2>1, <2>2, <2>3, LayerGoesDown, HandledGoesDown, AttemptGoesDown, BesideGoesDown
      DEF Next, LoopStep, RowStep
  <1> QED
    BY TypeInvariant, RankType, <1>1, PTL DEF Spec

=============================================================================
