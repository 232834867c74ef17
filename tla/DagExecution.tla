------------------------------ MODULE DagExecution ------------------------------
(***************************************************************************)
(* The layer loop of executeRun: one delivery of one run, from the moment  *)
(* its step rows exist to the moment its row is final.                     *)
(*                                                                         *)
(* The nodes of a layer execute concurrently (Promise.all), each with its  *)
(* own retries; everything else of the loop is sequential, one database    *)
(* call after the other.  The rows of nodes off the taken branch are       *)
(* written in the background: nobody awaits those calls.  What a node      *)
(* computes is abstracted to whether it succeeds, fails or throws and, for *)
(* a conditional, which way it decides.  An executor that throws rejects   *)
(* Promise.all: the run fails at once while the other nodes of the layer   *)
(* go on, with nobody left to take their results.  WorkflowRun holds what  *)
(* is around the loop; the loop's own effects are its pc "body".           *)
(***************************************************************************)
EXTENDS Naturals, FiniteSets, WorkflowGraph

CONSTANTS
    Workflows,    \* the definitions a run may execute
    MaxRetries,   \* settings.maxRetries of the nodes that retry
    MaxFaults     \* bound: database calls that reject and executors that throw

\* A definition: nodes; edges [from, to, when], where "when" is the condition of
\* the edge ("always" if it has none); the conditional nodes; and each node's
\* error strategy ("fail" also stands for disabled or missing settings).
\* createVersion's validation guarantees that it is Acyclic (DagValidatorProofs proves
\* it of what validateDag accepts).
ASSUME WorkflowsAssumption ==
    \A w \in Workflows : /\ w.nodes # {} /\ IsFiniteSet(w.nodes) /\ Acyclic(w)
                         /\ w.conditionals \subseteq w.nodes
                         /\ w.onError \in [w.nodes -> {"fail", "skip", "retry"}]
ASSUME BoundsAssumption == MaxRetries \in Nat /\ MaxFaults \in Nat

VARIABLES
    wf,          \* the run's definition
    stage,       \* where the loop is (see Stages)
    visited,     \* the nodes of the layers taken so far
    layer,       \* the nodes of the current layer that execute
    verdict,     \* finalStatus of the run, "none" before the loop has ended
    todo,        \* those the current sequential loop has not handled yet
    phase,       \* phase[n]: the promise of node n ("finished" resolved, "thrown" rejected)
    outcome,     \* outcome[n]: finalStatus of a finished promise
    tries,       \* tries[n]: retryCount
    result,      \* nodeResults
    skipped,     \* skippedByBranch
    hasFailure, aborted,
    step,        \* step[n]: status of n's workflow_run_steps row
    background,  \* nodes whose SKIPPED row is still being written
    runStatus,   \* status of the run's row
    late,        \* late[n]: history, attempts begun after the abort
    faults       \* how much of MaxFaults is used

nodeVars == <<phase, outcome, tries, late>>
dbVars   == <<step, background, runStatus>>
loopVars == <<stage, visited, layer, todo, verdict>>
vars == <<wf, loopVars, nodeVars, result, skipped, hasFailure, aborted, dbVars, faults>>

\*   layer      at the head of the loop
\*   failing    marking a layer FAILED after an earlier failure
\*   marking    marking a layer RUNNING
\*   running    awaiting Promise.all
\*   recording  writing the results of the layer
\*   verdict    the verdict is computed, not yet written
\*   catch      failRun after a call or Promise.all has rejected
\*   over       executeRun has returned
\*   dead       the process died of an unhandled rejection
Stages == {"layer", "failing", "marking", "running", "recording", "verdict",
           "catch", "over", "dead"}
NodeStatuses == {"SUCCESS", "FAILED", "SKIPPED"}
Nodes == wf.nodes

TypeOK ==
    /\ stage \in Stages
    /\ visited \subseteq Nodes /\ layer \subseteq visited /\ todo \subseteq visited
    /\ verdict \in {"none", "SUCCESS", "FAILED", "CANCELLED"}
    /\ phase \in [Nodes -> {"idle", "executing", "backoff", "finished", "thrown"}]
    /\ outcome \in [Nodes -> NodeStatuses \cup {"none"}]
    /\ tries \in [Nodes -> 0..MaxRetries]
    /\ result \in [Nodes -> NodeStatuses \cup {"none"}]
    /\ skipped \subseteq Nodes
    /\ hasFailure \in BOOLEAN /\ aborted \in BOOLEAN
    /\ step \in [Nodes -> NodeStatuses \cup {"PENDING", "RUNNING"}]
    /\ background \subseteq Nodes
    /\ runStatus \in {"RUNNING", "SUCCESS", "FAILED", "CANCELLED"}
    /\ late \in [Nodes -> Nat]
    /\ faults \in 0..MaxFaults

Init ==
    /\ wf \in Workflows
    /\ stage = "layer"
    /\ visited = {} /\ layer = {} /\ todo = {} /\ verdict = "none"
    /\ phase = [n \in Nodes |-> "idle"]
    /\ outcome = [n \in Nodes |-> "none"]
    /\ tries = [n \in Nodes |-> 0]
    /\ late = [n \in Nodes |-> 0]
    /\ result = [n \in Nodes |-> "none"]
    /\ skipped = {} /\ hasFailure = FALSE /\ aborted = FALSE
    /\ step = [n \in Nodes |-> "PENDING"]
    /\ background = {}
    /\ runStatus = "RUNNING"
    /\ faults = 0

-----------------------------------------------------------------------------
(* buildLayers and collectReachable. *)

\* The layer that follows the visited nodes: Kahn's algorithm lets a node in when
\* its last predecessor is visited; what it never reaches is a last layer of orphans.
\* Mutant: a node is let in with its first predecessor.
Unblocked_FirstPredecessor ==
    {n \in Nodes \ visited : Preds(wf, n) = {} \/ Preds(wf, n) \cap visited # {}}
Unblocked == {n \in Nodes \ visited : Preds(wf, n) \subseteq visited}
NextLayer == IF Unblocked # {} THEN Unblocked ELSE Nodes \ visited

\* The nodes reachable from the nodes in S, which are reachable themselves.
Reachable(S) ==
    {n \in Nodes : \A X \in SUBSET Nodes :
       S \subseteq X /\ (\A e \in wf.edges : e.from \in X => e.to \in X) => n \in X}

\* Mutant: only the targets of the inactive edges, not what lies behind them.
TakenOut_TargetsOnly(n, met) ==
    {e.to : e \in {d \in wf.edges : d.from = n /\ d.when = IF met THEN "false" ELSE "true"}}

\* The nodes a decided conditional takes out: those behind its inactive edges
\* that no active edge leads to.
TakenOut(n, met) ==
    LET out == {e \in wf.edges : e.from = n}
        inactive == {e \in out : e.when = IF met THEN "false" ELSE "true"}
        targets(E) == {e.to : e \in E}
    IN Reachable(targets(inactive)) \ Reachable(targets(out \ inactive))

-----------------------------------------------------------------------------
(* The layer loop. *)

\* The loop takes the next layer: the nodes in "off" get their result at once and
\* their row in the background, the others are to be marked RUNNING.
Advance(off) ==
    /\ visited' = visited \cup NextLayer
    /\ background' = background \cup off
    /\ result' = [n \in Nodes |-> IF n \in off THEN "SKIPPED" ELSE result[n]]
    /\ layer' = NextLayer \ off
    /\ todo' = NextLayer \ off
    /\ stage' = IF NextLayer \subseteq off THEN "layer" ELSE "marking"
    /\ UNCHANGED <<wf, verdict, nodeVars, skipped, hasFailure, aborted, step, runStatus, faults>>

\* Mutants: the loop head forgets the signal, the failure, the filter.
TakeLayer_IgnoresAbort ==
    stage = "layer" /\ NextLayer # {} /\ ~hasFailure /\ Advance(NextLayer \cap skipped)
TakeLayer_IgnoresFailure ==
    stage = "layer" /\ NextLayer # {} /\ ~aborted /\ Advance(NextLayer \cap skipped)
TakeLayer_NoFilter ==
    stage = "layer" /\ NextLayer # {} /\ ~aborted /\ ~hasFailure /\ Advance({})

\* The next layer, when neither the signal nor a failure is set: the nodes off the
\* taken branch are filtered out.
TakeLayer ==
    /\ stage = "layer" /\ NextLayer # {} /\ ~aborted /\ ~hasFailure
    /\ Advance(NextLayer \cap skipped)

\* The next layer after a failure: every row of it is set to FAILED.
TakeFailedLayer ==
    /\ stage = "layer" /\ NextLayer # {} /\ ~aborted /\ hasFailure
    /\ visited' = visited \cup NextLayer
    /\ layer' = {}
    /\ todo' = NextLayer
    /\ stage' = "failing"
    /\ UNCHANGED <<wf, verdict, nodeVars, result, skipped, hasFailure, aborted, dbVars, faults>>

\* A sequential loop has handled n, and goes to "next" after its last node.
Handled(n, next) ==
    /\ todo' = todo \ {n}
    /\ stage' = IF todo = {n} THEN next ELSE stage
    /\ UNCHANGED <<visited, layer, verdict>>

MarkFailed(n) ==
    /\ stage = "failing" /\ n \in todo
    /\ step' = [step EXCEPT ![n] = "FAILED"]
    /\ Handled(n, "layer")
    /\ UNCHANGED <<wf, nodeVars, result, skipped, hasFailure, aborted, background,
                   runStatus, faults>>

MarkRunning(n) ==
    /\ stage = "marking" /\ n \in todo
    /\ step' = [step EXCEPT ![n] = "RUNNING"]
    /\ Handled(n, "marking")
    /\ UNCHANGED <<wf, nodeVars, result, skipped, hasFailure, aborted, background,
                   runStatus, faults>>

\* An attempt that begins counts as late when the signal is already set.
CountAttempts(S) == late' = [n \in Nodes |-> IF n \in S /\ aborted THEN late[n] + 1 ELSE late[n]]

\* Promise.all: every node of the layer begins its first attempt.
StartLayer ==
    /\ stage = "marking" /\ todo = {}
    /\ stage' = "running"
    /\ phase' = [n \in Nodes |-> IF n \in layer THEN "executing" ELSE phase[n]]
    /\ CountAttempts(layer)
    /\ UNCHANGED <<wf, visited, layer, todo, verdict, outcome, tries, result, skipped, hasFailure,
                   aborted, dbVars, faults>>

\* The promise of n resolves.  It does so also when the loop has left the layer,
\* because another node has thrown; its result is then dropped.
Finish(n, finalStatus) ==
    /\ phase' = [phase EXCEPT ![n] = "finished"]
    /\ outcome' = [outcome EXCEPT ![n] = finalStatus]

\* n succeeds; a conditional then takes out the branch it did not choose.
NodeSucceeds(n) ==
    /\ stage # "dead" /\ phase[n] = "executing"
    /\ Finish(n, "SUCCESS")
    /\ IF n \in wf.conditionals
         THEN \E met \in BOOLEAN : skipped' = skipped \cup TakenOut(n, met)
         ELSE UNCHANGED skipped
    /\ UNCHANGED <<wf, loopVars, tries, late, result, hasFailure, aborted, dbVars, faults>>

\* Mutant: one retry too many.
MayRetry_OneMore(n) == wf.onError[n] = "retry" /\ tries[n] <= MaxRetries /\ ~aborted

MayRetry(n) == wf.onError[n] = "retry" /\ tries[n] < MaxRetries /\ ~aborted

\* An attempt of n fails and another one is due after a delay.
NodeBacksOff(n) ==
    /\ stage # "dead" /\ phase[n] = "executing" /\ MayRetry(n)
    /\ phase' = [phase EXCEPT ![n] = "backoff"]
    /\ tries' = [tries EXCEPT ![n] = @ + 1]
    /\ UNCHANGED <<wf, loopVars, outcome, late, result, skipped, hasFailure, aborted,
                   dbVars, faults>>

\* The delay is over; the signal is not looked at again before this attempt.
RetryNode(n) ==
    /\ stage # "dead" /\ phase[n] = "backoff"
    /\ phase' = [phase EXCEPT ![n] = "executing"]
    /\ CountAttempts({n})
    /\ UNCHANGED <<wf, loopVars, outcome, tries, result, skipped, hasFailure, aborted,
                   dbVars, faults>>

\* The last attempt of n fails: SKIPPED if its settings say so.
NodeFails(n) ==
    /\ stage # "dead" /\ phase[n] = "executing" /\ ~MayRetry(n)
    /\ Finish(n, IF wf.onError[n] = "skip" THEN "SKIPPED" ELSE "FAILED")
    /\ UNCHANGED <<wf, loopVars, tries, late, result, skipped, hasFailure, aborted,
                   dbVars, faults>>

\* The executor of n throws instead of returning a FAILED result.  The first rejection
\* rejects Promise.all, and control goes to the catch block; later ones change nothing.
NodeThrows(n) ==
    /\ stage # "dead" /\ phase[n] = "executing" /\ faults < MaxFaults
    /\ faults' = faults + 1
    /\ phase' = [phase EXCEPT ![n] = "thrown"]
    /\ stage' = IF stage = "running" THEN "catch" ELSE stage
    /\ UNCHANGED <<wf, visited, layer, todo, verdict, outcome, tries, late, result, skipped,
                   hasFailure, aborted, dbVars>>

\* Mutant: the loop waits for the skipped nodes of the layer as well.
LayerDone_WaitsForSkipped ==
    /\ stage = "running" /\ \A n \in visited : phase[n] = "finished"
    /\ stage' = "recording"
    /\ todo' = layer
    /\ UNCHANGED <<wf, visited, layer, verdict, nodeVars, result, skipped, hasFailure, aborted,
                   dbVars, faults>>

\* Promise.all resolves.
LayerDone ==
    /\ stage = "running" /\ \A n \in layer : phase[n] = "finished"
    /\ stage' = "recording"
    /\ todo' = layer
    /\ UNCHANGED <<wf, visited, layer, verdict, nodeVars, result, skipped, hasFailure, aborted,
                   dbVars, faults>>

\* One result of the layer: nodeResults, the row, and the failure flag.
RecordResult(n) ==
    /\ stage = "recording" /\ n \in todo
    /\ result' = [result EXCEPT ![n] = outcome[n]]
    /\ step' = [step EXCEPT ![n] = outcome[n]]
    /\ hasFailure' = (hasFailure \/ outcome[n] = "FAILED")
    /\ Handled(n, "layer")
    /\ UNCHANGED <<wf, nodeVars, skipped, aborted, background, runStatus, faults>>

\* The loop ends after the last layer, or breaks because of the signal.  The
\* verdict is fixed here: it is written in a later step.
Verdict == IF aborted THEN "CANCELLED" ELSE IF hasFailure THEN "FAILED" ELSE "SUCCESS"

\* Mutant: a failure breaks out of the loop instead of failing what is left.
EndLoop_BreaksOnFailure ==
    /\ stage = "layer" /\ (NextLayer = {} \/ aborted \/ hasFailure)
    /\ stage' = "verdict"
    /\ verdict' = Verdict
    /\ UNCHANGED <<wf, visited, layer, todo, nodeVars, result, skipped, hasFailure, aborted,
                   dbVars, faults>>

EndLoop ==
    /\ stage = "layer" /\ (NextLayer = {} \/ aborted)
    /\ stage' = "verdict"
    /\ verdict' = Verdict
    /\ UNCHANGED <<wf, visited, layer, todo, nodeVars, result, skipped, hasFailure, aborted,
                   dbVars, faults>>

WriteVerdict ==
    /\ stage = "verdict"
    /\ stage' = "over"
    /\ runStatus' = verdict
    /\ UNCHANGED <<wf, visited, layer, todo, verdict, nodeVars, result, skipped, hasFailure,
                   aborted, step, background, faults>>

-----------------------------------------------------------------------------
(* What happens beside the loop. *)

\* A background write lands, at any time, even after executeRun has returned.
BackgroundWrite(n) ==
    /\ stage # "dead" /\ n \in background
    /\ background' = background \ {n}
    /\ step' = [step EXCEPT ![n] = "SKIPPED"]
    /\ UNCHANGED <<wf, loopVars, nodeVars, result, skipped, hasFailure, aborted,
                   runStatus, faults>>

\* cancelRun signals the controller.
Abort ==
    /\ ~aborted /\ stage \notin {"over", "dead"}
    /\ aborted' = TRUE
    /\ UNCHANGED <<wf, loopVars, nodeVars, result, skipped, hasFailure, dbVars, faults>>

\* A write of n's row rejects: its statement may have been committed all the same,
\* when only the reply is lost.
RowUncertain(n, status) == step' \in {step, [step EXCEPT ![n] = status]}

\* An awaited call rejects and control goes to the catch block.  A result of the layer
\* is in nodeResults before its row is written, the failure flag is set after.
AwaitedCallFails ==
    /\ faults < MaxFaults
    /\ \/ \E n \in todo :
            /\ \/ stage = "failing" /\ RowUncertain(n, "FAILED") /\ UNCHANGED result
               \/ stage = "marking" /\ RowUncertain(n, "RUNNING") /\ UNCHANGED result
               \/ /\ stage = "recording" /\ RowUncertain(n, outcome[n])
                  /\ result' = [result EXCEPT ![n] = outcome[n]]
            /\ UNCHANGED runStatus
       \/ /\ stage = "verdict" /\ runStatus' \in {runStatus, verdict}
          /\ UNCHANGED <<step, result>>
    /\ faults' = faults + 1
    /\ stage' = "catch"
    /\ UNCHANGED <<wf, visited, layer, todo, verdict, nodeVars, skipped, hasFailure,
                   aborted, background>>

\* failRun in the catch block.
FailRun ==
    /\ stage = "catch"
    /\ stage' = "over"
    /\ runStatus' = "FAILED"
    /\ UNCHANGED <<wf, visited, layer, todo, verdict, nodeVars, result, skipped, hasFailure,
                   aborted, step, background, faults>>

\* failRun rejects as well, written or not, and the error is swallowed.
FailRunFails ==
    /\ stage = "catch" /\ faults < MaxFaults
    /\ faults' = faults + 1
    /\ stage' = "over"
    /\ runStatus' \in {runStatus, "FAILED"}
    /\ UNCHANGED <<wf, visited, layer, todo, verdict, nodeVars, result, skipped, hasFailure,
                   aborted, step, background>>

\* A background write rejects, written or not.  Nothing handles the rejection, so
\* Node.js ends the process.
BackgroundWriteFails(n) ==
    /\ stage # "dead" /\ n \in background /\ faults < MaxFaults
    /\ faults' = faults + 1
    /\ stage' = "dead"
    /\ RowUncertain(n, "SKIPPED")
    /\ UNCHANGED <<wf, visited, layer, todo, verdict, nodeVars, result, skipped, hasFailure,
                   aborted, background, runStatus>>

-----------------------------------------------------------------------------
\* The sequential loops over the rows of a layer.
RowStep(n) == MarkFailed(n) \/ MarkRunning(n) \/ RecordResult(n)

\* An attempt of n ends.
AttemptEnds(n) == NodeSucceeds(n) \/ NodeFails(n) \/ NodeBacksOff(n) \/ NodeThrows(n)

LoopStep == TakeLayer \/ TakeFailedLayer \/ StartLayer \/ LayerDone \/ EndLoop
            \/ WriteVerdict \/ FailRun

Next ==
    \/ LoopStep
    \/ \E n \in Nodes : RowStep(n) \/ AttemptEnds(n) \/ RetryNode(n)
    \/ \E n \in Nodes : BackgroundWrite(n) \/ BackgroundWriteFails(n)
    \/ Abort \/ AwaitedCallFails \/ FailRunFails

Spec == Init /\ [][Next]_vars

\* The event loop keeps running what is runnable: the loop's next step and its
\* database calls, the timers of back-offs, the background writes.  Nothing makes an
\* attempt end: an HTTP call clears its time-out with the headers and then reads a
\* body without bound.
FairSpec ==
    /\ Spec
    /\ WF_vars(LoopStep)
    /\ WF_vars(\E n \in Nodes : RowStep(n))
    /\ WF_vars(\E n \in Nodes : RetryNode(n))
    /\ WF_vars(\E n \in Nodes : BackgroundWrite(n))

-----------------------------------------------------------------------------
(* Properties. *)

\* Once a failure is recorded no further node begins.
FailureStopsTheWorkflow ==
    [][\A n \in Nodes : phase[n] = "idle" /\ phase'[n] # "idle"
         => \A m \in Nodes : result[m] # "FAILED"]_vars

\* After the abort signal each node begins at most one more attempt, and all that
\* still begins belongs to one layer: no node that does depends on another.
AbortBoundsWork ==
    /\ \A n \in Nodes : late[n] <= 1
    /\ \A m, n \in Nodes : late[m] > 0 /\ late[n] > 0 => m \notin Preds(wf, n)

\* A node off the taken branch never executes.
OffBranchNeverRuns == \A n \in skipped : phase[n] = "idle"

\* With one conditional, a node whose predecessors are all off the branch is off
\* the branch too: nothing runs on inputs none of which was produced.  (With two
\* conditionals a join behind both inactive branches does run.)
DeadBranchStaysDead ==
    Cardinality(wf.conditionals) <= 1 =>
      \A n \in Nodes : phase[n] # "idle" /\ Preds(wf, n) # {}
                         => ~(Preds(wf, n) \subseteq skipped)

\* The row of a run and the rows of its steps tell the same story once executeRun has
\* returned and the background writes are in.
\*   - A SUCCESS has no step that failed or is left open, whatever call was rejected.
\*   - If nothing was rejected, nothing is left open unless the run was cancelled, a
\*     cancelled run has no step that looks as if it were running, and a FAILED has a
\*     failed step.
\*   - One rejection, an executor that throws included, makes the run FAILED, even if
\*     no step failed; only nodes whose predecessors are all final are left RUNNING.
VerdictMatchesSteps ==
    stage = "over" /\ background = {} =>
      /\ runStatus = "SUCCESS" => \A n \in Nodes : step[n] \in {"SUCCESS", "SKIPPED"}
      /\ faults = 0 =>
           /\ runStatus # "RUNNING" /\ \A n \in Nodes : step[n] # "RUNNING"
           /\ runStatus # "CANCELLED" => \A n \in Nodes : step[n] # "PENDING"
           /\ runStatus = "FAILED" => \E n \in Nodes : step[n] = "FAILED"
      /\ faults = 1 => runStatus = "FAILED"
      /\ \A n \in Nodes : step[n] = "RUNNING"
                           => \A m \in Preds(wf, n) : step[m] \in NodeStatuses

\* If no attempt of the layer it waits for hangs for ever, and the process lives, then
\* executeRun returns and every row it has begun to write in the background is written.
NodesEnd == []<>(stage = "running" => \A n \in Nodes : phase[n] # "executing")
RunEnds == NodesEnd /\ [](stage # "dead") => <>[](stage = "over" /\ background = {})

\* A node begins when all its predecessors are settled, so that its inputs are
\* the recorded outputs and never undefined.
Flow == INSTANCE Dataflow WITH
    pred <- [n \in Nodes |-> Preds(wf, n)],
    started <- {n \in Nodes : phase[n] # "idle"},
    settled <- {n \in Nodes : result[n] # "none"}
InputsAreReady == Flow!Spec
=============================================================================
