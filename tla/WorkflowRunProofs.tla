--------------------------- MODULE WorkflowRunProofs ---------------------------
(***************************************************************************)
(* Proofs about WorkflowRun, for any number of runs, servers and nodes and *)
(* for any bound on crashes, lost locks and failed calls.                  *)
(***************************************************************************)
EXTENDS WorkflowRun, TLAPS

\* TypeOK alone is not inductive: an executor on its way to inserting rows must
\* have a row left to insert.
RowsLeft ==
    \A s \in Servers : exec[s].pc \in {"load", "mark", "create"} => exec[s].row < NodeCount

TypeInv == TypeOK /\ RowsLeft

\* One executor moves to a state of its type: the others are where they were.
LEMMA OneExecutorMoves ==
    ASSUME NEW s \in Servers, NEW e \in Executions, ExecTypes, RowsLeft,
           exec' = [exec EXCEPT ![s] = e],
           e.pc \in {"load", "mark", "create"} => e.row < NodeCount
    PROVE  ExecTypes' /\ RowsLeft'
  BY DEF ExecTypes, RowsLeft

\* The strengthened type invariant is inductive.
LEMMA TypeInvariant == Spec => []TypeInv
<1> USE RunsAssumption, BoundsAssumption
<1>1. Init => TypeInv
  <2> SUFFICES ASSUME Init PROVE TypeInv
    OBVIOUS
  <2>1. RowTypes BY DEF Init, RowTypes, Statuses
  <2>2. QueueTypes BY DEF Init, QueueTypes
  <2>3. ExecTypes /\ RowsLeft
    BY DEF Init, ExecTypes, Executions, RowsLeft, Idle, Fresh, Phases
  <2>4. ApiTypes BY DEF Init, ApiTypes
  <2>5. BoundTypes BY DEF Init, BoundTypes
  <2>6. StrayTypes BY DEF Init, StrayTypes
  <2> QED BY <2>1, <2>2, <2>3, <2>4, <2>5, <2>6 DEF TypeInv, TypeOK
<1>2. /\ RowTypes /\ UNCHANGED rowVars => RowTypes'
      /\ QueueTypes /\ UNCHANGED queueVars => QueueTypes'
      /\ ExecTypes /\ UNCHANGED exec => ExecTypes'
      /\ RowsLeft /\ UNCHANGED exec => RowsLeft'
      /\ StrayTypes /\ UNCHANGED strays => StrayTypes'
      /\ ApiTypes /\ UNCHANGED apiVars => ApiTypes'
      /\ BoundTypes /\ UNCHANGED boundVars => BoundTypes'
  BY DEF RowTypes, rowVars, QueueTypes, queueVars, ExecTypes, Executions, RowsLeft,
         StrayTypes, ApiTypes, apiVars, BoundTypes, boundVars
<1>3. TypeInv /\ [Next]_vars => TypeInv'
  <2> SUFFICES ASSUME TypeInv, [Next]_vars PROVE TypeInv'
    OBVIOUS
  <2> USE DEF TypeInv, TypeOK
  <2>1. ASSUME NEW s \in Servers, NEW r \in Runs, CreateRun(s, r) PROVE TypeInv'
    <3>1. RowTypes' BY <2>1 DEF CreateRun, RowTypes, Statuses
    <3>2. ApiTypes' BY <2>1 DEF CreateRun, ApiTypes
    <3> QED BY <2>1, <1>2, <3>1, <3>2 DEF CreateRun
  <2>2. ASSUME NEW s \in Servers, NEW r \in Runs, CancelCheck(s, r) PROVE TypeInv'
    <3>1. ApiTypes' BY <2>2, ZenonT(60) DEF CancelCheck, ApiTypes
    <3> QED BY <2>2, <1>2, <3>1 DEF CancelCheck
  <2>3. ASSUME NEW r \in Runs, Enqueue(r) PROVE TypeInv'
    <3>1. QueueTypes' BY <2>3 DEF Enqueue, QueueTypes
    <3>2. ApiTypes' BY <2>3 DEF Enqueue, ApiTypes
    <3> QED BY <2>3, <1>2, <3>1, <3>2 DEF Enqueue
  <2>4. ASSUME NEW r \in Runs, EnqueueFault(r) PROVE TypeInv'
    <3>1. ApiTypes' BY <2>4 DEF EnqueueFault, ApiTypes
    <3>2. BoundTypes' BY <2>4 DEF EnqueueFault, BoundTypes
    <3>3. QueueTypes' BY <2>4 DEF EnqueueFault, QueueTypes
    <3> QED BY <2>4, <1>2, <3>1, <3>2, <3>3 DEF EnqueueFault
  <2>5. ASSUME NEW r \in Runs, StalledCheck(r) PROVE TypeInv'
    <3>1. QueueTypes' BY <2>5 DEF StalledCheck, QueueTypes
    <3> QED BY <2>5, <1>2, <3>1 DEF StalledCheck
  <2>6. ASSUME NEW r \in Runs, CancelAbort(r) PROVE TypeInv'
    <3>1. ExecTypes' BY <2>6, ZenonT(60) DEF CancelAbort, ExecTypes, Executions
    <3>2. ApiTypes'
      <4> DEFINE server == cancel[r].server
                 inTime == /\ HasController(server, r)
                           /\ exec[server].pc \in InTry \ {"verdict", "failEarly"}
      <4>1. inTime \in BOOLEAN
        OBVIOUS
      <4>2. /\ cancel' = [cancel EXCEPT ![r] = [@ EXCEPT !.pc = "sent", !.inTime = inTime]]
            /\ trigger' = trigger
        BY <2>6 DEF CancelAbort
      <4> HIDE DEF inTime
      <4> QED BY <4>1, <4>2 DEF ApiTypes
    <3>3. RowsLeft' BY <2>6 DEF CancelAbort, RowsLeft, ExecTypes, Executions
    <3> QED BY <2>6, <1>2, <3>1, <3>2, <3>3 DEF CancelAbort
  <2>7. ASSUME NEW r \in Runs, CancelWrite(r) PROVE TypeInv'
    <3>1. RowTypes' BY <2>7 DEF CancelWrite, RowTypes, Statuses, Terminal
    <3>2. ApiTypes' BY <2>7 DEF CancelWrite, ApiTypes
    <3> QED BY <2>7, <1>2, <3>1, <3>2 DEF CancelWrite
  <2>8. ASSUME NEW s \in Servers, CallFails(s) PROVE TypeInv'
    <3>1. ExecTypes' BY <2>8 DEF CallFails, ExecTypes, Executions, Goto, Phases, Controlled
    <3>2. BoundTypes' BY <2>8 DEF CallFails, BoundTypes
    <3>3. RowsLeft' BY <2>8 DEF CallFails, RowsLeft, ExecTypes, Executions, Goto
    <3>4. RowTypes'
      <4>1. CASE UNCHANGED <<status, rows>>
        BY <2>8, <4>1 DEF CallFails, RowTypes
      <4>2. CASE ReplyLost(s)
        <5>1. StatusWritten(s) \in Statuses \/ At(s, "verdict")
          BY DEF StatusWritten, Statuses, Terminal
        <5>2. StatusWritten(s) \in Statuses
          BY <5>1 DEF StatusWritten, Statuses, At, ExecTypes, Executions
        <5>3. At(s, "create") => exec[s].row + 1 \in 0..NodeCount
          BY DEF At, RowsLeft, ExecTypes, Executions
        <5> QED BY <2>8, <4>2, <5>2, <5>3 DEF CallFails, ReplyLost, RowTypes
      <4> QED BY <2>8, <4>1, <4>2 DEF CallFails
    <3>5. StrayTypes' BY <2>8 DEF CallFails, StrayTypes
    <3> QED BY <2>8, <1>2, <3>1, <3>2, <3>3, <3>4, <3>5 DEF CallFails
  <2>9. ASSUME NEW s \in Servers, Crash(s) PROVE TypeInv'
    <3>1. QueueTypes' BY <2>9 DEF Crash, QueueTypes
    <3>2. ExecTypes' BY <2>9 DEF Crash, ExecTypes, Executions, Idle, Fresh, Phases
    <3>3. ApiTypes' BY <2>9, SMTT(40) DEF Crash, ApiTypes
    <3>4. BoundTypes' BY <2>9 DEF Crash, BoundTypes
    <3>5. RowsLeft' BY <2>9 DEF Crash, RowsLeft, ExecTypes, Executions, Idle, Fresh
    <3>6. StrayTypes' BY <2>9 DEF Crash, StrayTypes
    <3> QED BY <2>9, <1>2, <3>1, <3>2, <3>3, <3>4, <3>5, <3>6 DEF Crash
  <2>10. ASSUME NEW s \in Servers, BlockEventLoop(s) PROVE TypeInv'
    <3>1. QueueTypes' BY <2>10 DEF BlockEventLoop, QueueTypes
    <3>2. BoundTypes' BY <2>10 DEF BlockEventLoop, BoundTypes
    <3> QED BY <2>10, <1>2, <3>1, <3>2 DEF BlockEventLoop
  <2>11. ASSUME NEW s \in Servers, NEW r \in Runs, Deliver(s, r) PROVE TypeInv'
    <3>1. QueueTypes' BY <2>11 DEF Deliver, QueueTypes
    <3>2. Begin(r) \in Executions /\ Begin(r).row < NodeCount
      BY DEF Begin, Fresh, Executions, Phases, Controlled, InTry
    <3>3. ExecTypes' /\ RowsLeft'
      BY <2>11, <3>2, OneExecutorMoves DEF Deliver
    <3> QED BY <2>11, <1>2, <3>1, <3>2, <3>3 DEF Deliver
  <2>12. ASSUME NEW s \in Servers, LoadVersion(s) PROVE TypeInv'
    <3>1. ExecTypes' BY <2>12 DEF LoadVersion, ExecTypes, Executions, Goto, Phases, Controlled, InTry
    <3>2. RowsLeft' BY <2>12 DEF LoadVersion, RowsLeft, ExecTypes, Executions, At, Goto
    <3> QED BY <2>12, <1>2, <3>1, <3>2 DEF LoadVersion
  <2>13. ASSUME NEW s \in Servers, MarkRunning(s) PROVE TypeInv'
    <3>1. RowTypes' BY <2>13 DEF MarkRunning, RowTypes, Statuses
    <3>2. ExecTypes' BY <2>13 DEF MarkRunning, ExecTypes, Executions, Goto, Phases, Controlled, InTry
    <3>3. RowsLeft' BY <2>13 DEF MarkRunning, RowsLeft, ExecTypes, Executions, At, Goto
    <3> QED BY <2>13, <1>2, <3>1, <3>2, <3>3 DEF MarkRunning
  <2>14. ASSUME NEW s \in Servers, CreateStep(s) PROVE TypeInv'
    <3>1. RowTypes'
      BY <2>14 DEF CreateStep, RowTypes, ExecTypes, Executions, RowsLeft, At
    <3>2. ExecTypes' /\ RowsLeft'
      <4> DEFINE next == exec[s].row + 1
                 phase == IF next = NodeCount THEN "start" ELSE "create"
                 e == [exec[s] EXCEPT !.row = next, !.pc = phase]
      <4>1. next \in 0..NodeCount /\ (phase = "create" => next < NodeCount)
        BY <2>14 DEF CreateStep, At, RowsLeft, ExecTypes, Executions
      <4>2. CASE rows[exec[s].run] >= next
        BY <2>14, <4>2 DEF CreateStep, ExecTypes, Executions, RowsLeft, Goto, Phases, Controlled
      <4>3. CASE ~(rows[exec[s].run] >= next)
        <5>1. exec' = [exec EXCEPT ![s] = e]
          BY <2>14, <4>3 DEF CreateStep
        <5>2. phase \in {"start", "create"}
          OBVIOUS
        <5> HIDE DEF next, phase
        <5>3. e \in Executions /\ e.pc = phase /\ e.row = next
          BY <4>1, <5>2 DEF ExecTypes, Executions, Phases, Controlled, InTry
        <5> HIDE DEF e
        <5> QED BY <4>1, <5>1, <5>2, <5>3, OneExecutorMoves
      <4> QED BY <4>2, <4>3
    <3> QED BY <2>14, <1>2, <3>1, <3>2 DEF CreateStep
  <2>15. ASSUME NEW s \in Servers, StartNodes(s) PROVE TypeInv'
    <3>1. RowTypes'
      <4>1. CASE exec[s].aborted BY <2>15, <4>1 DEF StartNodes, RowTypes
      <4>2. CASE ~exec[s].aborted BY <2>15, <4>2 DEF StartNodes, RowTypes
      <4> QED BY <4>1, <4>2
    <3>2. PICK e \in Executions : /\ exec' = [exec EXCEPT ![s] = e]
                                 /\ e.pc \in {"verdict", "body"}
      <4> DEFINE stop == [exec[s] EXCEPT !.pc = "verdict", !.verdict = Verdict(TRUE, FALSE)]
                 go == [exec[s] EXCEPT !.pc = "body"]
      <4>1. exec' = [exec EXCEPT ![s] = stop] \/ exec' = [exec EXCEPT ![s] = go]
        BY <2>15 DEF StartNodes, Goto
      <4>2. stop \in Executions /\ go \in Executions /\ stop.pc = "verdict" /\ go.pc = "body"
        BY DEF ExecTypes, Executions, Verdict, Terminal, Phases, Controlled, InTry
      <4> HIDE DEF stop, go
      <4> QED BY <4>1, <4>2
    <3>3. ExecTypes' /\ RowsLeft'
      BY <3>2, OneExecutorMoves
    <3> QED BY <2>15, <1>2, <3>1, <3>2, <3>3 DEF StartNodes
  <2>16. ASSUME NEW s \in Servers, FinishNodes(s) PROVE TypeInv'
    <3>1. ExecTypes'
      <4>1. PICK hasFailure \in BOOLEAN :
              exec' = [exec EXCEPT ![s] = [@ EXCEPT
                !.pc = "verdict", !.verdict = Verdict(exec[s].aborted, hasFailure)]]
        BY <2>16 DEF FinishNodes
      <4>2. Verdict(exec[s].aborted, hasFailure) \in Terminal
        BY DEF Verdict, Terminal
      <4> QED BY <4>1, <4>2, ZenonT(60) DEF ExecTypes, Executions, Phases, Controlled, InTry
    <3>2. RowsLeft' BY <2>16 DEF FinishNodes, RowsLeft, ExecTypes, Executions
    <3> QED BY <2>16, <1>2, <3>1, <3>2 DEF FinishNodes
  <2>17. ASSUME NEW s \in Servers, WriteVerdict(s) PROVE TypeInv'
    <3>1. RowTypes' BY <2>17 DEF WriteVerdict, RowTypes, ExecTypes, Executions, Statuses
    <3>2. ExecTypes' BY <2>17 DEF WriteVerdict, ExecTypes, Executions, Goto, Phases
    <3>3. RowsLeft' BY <2>17 DEF WriteVerdict, RowsLeft, ExecTypes, Executions, Goto
    <3> QED BY <2>17, <1>2, <3>1, <3>2, <3>3 DEF WriteVerdict
  <2>18. ASSUME NEW s \in Servers, FailRun(s) PROVE TypeInv'
    <3>1. RowTypes' BY <2>18 DEF FailRun, RowTypes, Statuses, Terminal
    <3>2. ExecTypes' BY <2>18 DEF FailRun, ExecTypes, Executions, Goto, Phases
    <3>3. RowsLeft' BY <2>18 DEF FailRun, RowsLeft, ExecTypes, Executions, Goto
    <3> QED BY <2>18, <1>2, <3>1, <3>2, <3>3 DEF FailRun
  <2>19. ASSUME NEW s \in Servers, Acknowledge(s) PROVE TypeInv'
    <3>1. QueueTypes' BY <2>19 DEF Acknowledge, QueueTypes
    <3>2. ExecTypes' BY <2>19 DEF Acknowledge, ExecTypes, Executions, Idle, Fresh, Phases
    <3>3. RowsLeft' BY <2>19 DEF Acknowledge, RowsLeft, ExecTypes, Executions, Idle, Fresh
    <3> QED BY <2>19, <1>2, <3>1, <3>2, <3>3 DEF Acknowledge
  <2>21. ASSUME NEW s \in Servers, NEW r \in Runs, CreateReplyLost(s, r) PROVE TypeInv'
    <3>1. RowTypes' BY <2>21 DEF CreateReplyLost, RowTypes, Statuses
    <3>2. ApiTypes' BY <2>21 DEF CreateReplyLost, ApiTypes
    <3>3. BoundTypes' BY <2>21 DEF CreateReplyLost, BoundTypes
    <3> QED BY <2>21, <1>2, <3>1, <3>2, <3>3 DEF CreateReplyLost
  <2>22. ASSUME NEW r \in Runs, CancelFault(r) PROVE TypeInv'
    <3>1. RowTypes' BY <2>22 DEF CancelFault, RowTypes, Statuses, Terminal
    <3>2. ApiTypes' BY <2>22 DEF CancelFault, ApiTypes
    <3>3. BoundTypes' BY <2>22 DEF CancelFault, BoundTypes
    <3> QED BY <2>22, <1>2, <3>1, <3>2, <3>3 DEF CancelFault
  <2>20. CASE UNCHANGED vars
    BY <2>20, <1>2 DEF vars
  <2> QED
    BY <2>1, <2>2, <2>3, <2>4, <2>5, <2>6, <2>7, <2>8, <2>9, <2>10,
       <2>11, <2>12, <2>13, <2>14, <2>15, <2>16, <2>17, <2>18, <2>19, <2>20, <2>21, <2>22
    DEF Next, WorkerStep
<1> QED
  BY <1>1, <1>3, PTL DEF Spec

\* The variables keep their types; in particular no executor inserts more step
\* rows than its run has nodes, and no run gets a status the schema lacks.
THEOREM TypeCorrect == Spec => []TypeOK
  BY TypeInvariant, PTL DEF TypeInv

-----------------------------------------------------------------------------
(* Exclusive execution. *)

\* A step that writes no step row, starts no nodes and makes no executor a
\* claimant keeps ClaimInv.
LEMMA NoNewClaimant ==
    ASSUME ClaimInv, UNCHANGED <<rows, ran>>,
           \A s \in Servers : Claimant(s)' => /\ Claimant(s)
                                              /\ exec'[s].row = exec[s].row
                                              /\ exec'[s].run = exec[s].run,
           BusyHasRun'
    PROVE  ClaimInv'
  BY DEF ClaimInv, ClaimantHoldsRows, OneClaimant, RanWasClaimed

\* ClaimInv is an invariant: the unique index on (workflowRunId, nodeId) lets one
\* executor of a run past its first row, and only that one starts the nodes.
LEMMA ClaimInvariant == Spec => []ClaimInv
<1> USE RunsAssumption, BoundsAssumption
<1>1. Init => ClaimInv
  BY DEF Init, ClaimInv, BusyHasRun, ClaimantHoldsRows, OneClaimant, RanWasClaimed,
         Claimant, Idle, Fresh
<1>2. TypeInv /\ TypeInv' /\ ClaimInv /\ [Next]_vars => ClaimInv'
  <2> SUFFICES ASSUME TypeInv, TypeInv', ClaimInv, [Next]_vars PROVE ClaimInv'
    OBVIOUS
  <2>t. RowTypes'
    BY DEF TypeInv, TypeOK
  <2>0. RowTypes /\ ExecTypes /\ BusyHasRun
    BY DEF TypeInv, TypeOK, ClaimInv
  <2> USE DEF Executions
  <2>1. CASE UNCHANGED <<rows, ran, exec>>
    BY <2>1, NoNewClaimant DEF ClaimInv, BusyHasRun, Claimant
  <2>2. ASSUME NEW s \in Servers, NEW e \in Executions,
               exec' = [exec EXCEPT ![s] = e], UNCHANGED <<rows, ran>>,
               e.pc # "start" /\ ~(e.pc = "create" /\ e.row > 0),
               e.pc # "idle" => e.run \in Runs,
               e.pc \in {"load", "mark"} => e.row = 0
        PROVE  ClaimInv'
    BY <2>0, <2>2, NoNewClaimant DEF BusyHasRun, Claimant, ExecTypes
  <2>3. ASSUME NEW r \in Runs, CancelAbort(r) PROVE ClaimInv'
    <3>1. UNCHANGED <<rows, ran>>
      BY <2>3 DEF CancelAbort, rowVars
    <3>2. \A s \in Servers : /\ exec'[s].pc = exec[s].pc
                             /\ exec'[s].row = exec[s].row
                             /\ exec'[s].run = exec[s].run
      BY <2>0, <2>3 DEF CancelAbort, ExecTypes
    <3> QED
      BY <2>0, <3>1, <3>2, NoNewClaimant DEF BusyHasRun, Claimant
  <2>4. ASSUME NEW s \in Servers, NEW r \in Runs, Deliver(s, r) PROVE ClaimInv'
    <3>1. /\ Begin(r) \in Executions /\ Begin(r).pc = "load"
          /\ Begin(r).run = r /\ Begin(r).row = 0
      BY DEF Begin, Fresh, Phases, Controlled, InTry
    <3> QED
      BY <2>2, <2>4, <3>1 DEF Deliver, rowVars
  <2>5. ASSUME NEW s \in Servers, Acknowledge(s) \/ Crash(s) PROVE ClaimInv'
    <3>1. Idle \in Executions /\ Idle.pc = "idle"
      BY DEF Idle, Fresh, Phases
    <3> QED
      BY <2>2, <2>5, <3>1 DEF Acknowledge, Crash, rowVars
  <2>6. ASSUME NEW s \in Servers, NEW p \in Phases \ {"idle", "load", "start"},
               exec[s].pc # "idle", Goto(s, p), UNCHANGED <<rows, ran>>,
               p \in {"mark", "create"} => exec[s].row = 0
        PROVE  ClaimInv'
    <3> DEFINE e == [exec[s] EXCEPT !.pc = p]
    <3>1. e \in Executions /\ e.pc = p /\ e.row = exec[s].row /\ e.run = exec[s].run
      BY <2>0 DEF ExecTypes
    <3>2. exec' = [exec EXCEPT ![s] = e]
      BY <2>6 DEF Goto
    <3>3. exec[s].run \in Runs
      BY <2>0, <2>6 DEF BusyHasRun
    <3>4. /\ e.pc # "start" /\ ~(e.pc = "create" /\ e.row > 0)
          /\ e.pc # "idle" => e.run \in Runs
          /\ e.pc \in {"load", "mark"} => e.row = 0
      BY <2>6, <3>1, <3>3
    <3> HIDE DEF e
    <3> QED
      BY <2>2, <2>6, <3>1, <3>2, <3>4
  <2>7. ASSUME NEW s \in Servers, LoadVersion(s) PROVE ClaimInv'
    BY <2>0, <2>6, <2>7 DEF LoadVersion, At, rowVars, BusyHasRun, Phases, Controlled, InTry
  <2>8. ASSUME NEW s \in Servers, MarkRunning(s) PROVE ClaimInv'
    BY <2>0, <2>6, <2>8 DEF MarkRunning, At, BusyHasRun, Phases, Controlled, InTry
  <2>9. ASSUME NEW s \in Servers, WriteVerdict(s) PROVE ClaimInv'
    BY <2>6, <2>9 DEF WriteVerdict, At, Phases
  <2>10. ASSUME NEW s \in Servers, FailRun(s) PROVE ClaimInv'
    BY <2>6, <2>10 DEF FailRun, Phases
  <2>11. ASSUME NEW s \in Servers, CallFails(s) PROVE ClaimInv'
    \* The rows can only grow, and s is no claimant afterwards.
    <3> DEFINE p == IF At(s, "failCatch") THEN "ack" ELSE "failCatch"
               e == [exec[s] EXCEPT !.pc = p]
    <3>1. /\ exec' = [exec EXCEPT ![s] = e] /\ ran' = ran
          /\ exec[s].pc \in Controlled
      BY <2>11 DEF CallFails, Goto
    <3>2. e \in Executions /\ e.pc = p /\ e.run = exec[s].run /\ p \in {"ack", "failCatch"}
      BY <2>0 DEF ExecTypes, Phases, Controlled
    <3>3. exec[s].run \in Runs
      BY <2>0, <3>1 DEF BusyHasRun, Controlled, InTry
    <3>4. \A q \in Runs : rows'[q] >= rows[q]
      <4>1. CASE rows' = rows
        BY <2>0, <4>1 DEF RowTypes
      <4>2. CASE rows' # rows
        <5>1. /\ rows[exec[s].run] <= exec[s].row
              /\ rows' = [rows EXCEPT ![exec[s].run] = exec[s].row + 1]
          BY <2>11, <4>2 DEF CallFails, ReplyLost
        <5> QED BY <2>0, <3>3, <5>1 DEF RowTypes, ExecTypes
      <4> QED BY <4>1, <4>2
    <3> HIDE DEF e, p
    <3>5. /\ exec'[s].pc \in {"ack", "failCatch"} /\ exec'[s].run = exec[s].run
          /\ \A t \in Servers \ {s} : exec'[t] = exec[t]
      BY <2>0, <3>1, <3>2 DEF ExecTypes
    <3>6. \A t \in Servers : Claimant(t)' => t # s /\ Claimant(t) /\ exec'[t] = exec[t]
      BY <3>5 DEF Claimant
    <3>7. BusyHasRun'
      BY <2>0, <3>3, <3>5 DEF BusyHasRun
    <3>8. ClaimantHoldsRows'
      <4> SUFFICES ASSUME NEW t \in Servers, Claimant(t)'
                   PROVE /\ exec'[t].row > 0 /\ rows'[exec'[t].run] >= exec'[t].row
                         /\ ran'[exec'[t].run] = 0
        BY DEF ClaimantHoldsRows
      <4>1. /\ exec[t].run \in Runs /\ exec[t].row > 0 /\ rows[exec[t].run] >= exec[t].row
            /\ ran[exec[t].run] = 0 /\ exec'[t] = exec[t]
        BY <2>0, <3>6 DEF BusyHasRun, Claimant, ClaimInv, ClaimantHoldsRows
      <4>2. /\ rows[exec[t].run] \in Nat /\ exec[t].row \in Nat
            /\ rows'[exec[t].run] \in Nat
        BY <2>0, <2>t, <4>1 DEF RowTypes, ExecTypes
      <4> QED BY <3>1, <3>4, <4>1, <4>2
    <3>9. OneClaimant'
      BY <3>6 DEF OneClaimant, ClaimInv
    <3>10. RanWasClaimed'
      <4> SUFFICES ASSUME NEW q \in Runs PROVE ran[q] = 0 \/ (ran[q] = 1 /\ rows'[q] > 0)
        BY <3>1 DEF RanWasClaimed
      <4>1. rows'[q] >= rows[q] /\ rows[q] \in Nat /\ rows'[q] \in Nat
        BY <2>0, <2>t, <3>4 DEF RowTypes
      <4> QED BY <4>1 DEF ClaimInv, RanWasClaimed
    <3> QED BY <3>7, <3>8, <3>9, <3>10 DEF ClaimInv
  <2>12. ASSUME NEW s \in Servers, FinishNodes(s) PROVE ClaimInv'
    <3>1. PICK hasFailure \in BOOLEAN :
            exec' = [exec EXCEPT ![s] = [@ EXCEPT
              !.pc = "verdict", !.verdict = Verdict(exec[s].aborted, hasFailure)]]
      BY <2>12 DEF FinishNodes
    <3> DEFINE e == [exec[s] EXCEPT
                       !.pc = "verdict", !.verdict = Verdict(exec[s].aborted, hasFailure)]
    <3>2. Verdict(exec[s].aborted, hasFailure) \in Terminal
      BY DEF Verdict, Terminal
    <3>3. e \in Executions /\ e.pc = "verdict" /\ e.run = exec[s].run
      BY <2>0, <3>2 DEF ExecTypes, Phases, Controlled, InTry
    <3>4. exec[s].run \in Runs
      BY <2>0, <2>12 DEF BusyHasRun, FinishNodes, At
    <3>5. UNCHANGED <<rows, ran>>
      BY <2>12 DEF FinishNodes, rowVars
    <3> HIDE DEF e
    <3> QED
      BY <2>2, <3>1, <3>3, <3>4, <3>5 DEF e
  <2>13. ASSUME NEW s \in Servers, CreateStep(s) PROVE ClaimInv'
    <3> DEFINE r == exec[s].run
               next == exec[s].row + 1
               phase == IF next = NodeCount THEN "start" ELSE "create"
    <3>0. r \in Runs /\ exec[s].pc = "create" /\ next \in Nat
      BY <2>0, <2>13 DEF BusyHasRun, CreateStep, At, ExecTypes
    <3>1. CASE rows[r] >= next
      <4>1. Goto(s, "failCatch") /\ UNCHANGED <<rows, ran>>
        BY <2>13, <3>1 DEF CreateStep
      <4> QED
        BY <2>6, <3>0, <4>1 DEF Phases, Controlled
    <3>2. CASE ~(rows[r] >= next)
      <4>1. /\ rows' = [rows EXCEPT ![r] = next]
            /\ exec' = [exec EXCEPT ![s] = [@ EXCEPT !.row = next, !.pc = phase]]
            /\ ran' = ran
        BY <2>13, <3>2 DEF CreateStep
      <4>2. /\ exec'[s].row = next /\ exec'[s].run = r /\ exec'[s].pc \in {"create", "start"}
            /\ \A t \in Servers \ {s} : exec'[t] = exec[t]
        BY <2>0, <4>1 DEF ExecTypes
      <4>3. rows'[r] = next /\ \A q \in Runs \ {r} : rows'[q] = rows[q]
        BY <2>0, <3>0, <4>1 DEF RowTypes
      <4>4. rows[r] = exec[s].row /\ rows[r] \in Nat
        <5>1. rows[r] \in Nat /\ exec[s].row \in Nat
          BY <2>0, <3>0 DEF RowTypes, ExecTypes
        <5>2. exec[s].row > 0 => rows[r] >= exec[s].row
          BY <3>0 DEF ClaimInv, ClaimantHoldsRows, Claimant
        <5> QED
          BY <3>2, <5>1, <5>2
      <4>5. \A t \in Servers \ {s} : Claimant(t) => exec[t].run # r
        \* Another claimant t of r would hold exec[t].row > 0 rows of r; if s
        \* holds none the table has none of r, and if s holds some, s is t.
        <5> SUFFICES ASSUME NEW t \in Servers \ {s}, Claimant(t), exec[t].run = r
                     PROVE FALSE
          OBVIOUS
        <5>1. exec[t].row > 0 /\ rows[r] >= exec[t].row /\ exec[t].row \in Nat
          BY <2>0 DEF ClaimInv, ClaimantHoldsRows, ExecTypes
        <5>2. exec[s].row > 0
          BY <2>0, <4>4, <5>1 DEF ExecTypes
        <5> QED
          BY <3>0, <5>2 DEF ClaimInv, OneClaimant, Claimant
      <4>6. ran[r] = 0
        <5>1. CASE exec[s].row > 0
          BY <3>0, <5>1 DEF ClaimInv, ClaimantHoldsRows, Claimant
        <5>2. CASE exec[s].row = 0
          BY <3>0, <4>4, <5>2 DEF ClaimInv, RanWasClaimed
        <5> QED
          BY <2>0, <5>1, <5>2 DEF ExecTypes
      <4> HIDE DEF r, next
      <4>7. BusyHasRun'
        BY <2>0, <3>0, <4>2 DEF BusyHasRun
      <4>8. ClaimantHoldsRows'
        <5> SUFFICES ASSUME NEW t \in Servers, Claimant(t)'
                     PROVE /\ exec'[t].row > 0 /\ rows'[exec'[t].run] >= exec'[t].row
                           /\ ran'[exec'[t].run] = 0
          BY DEF ClaimantHoldsRows
        <5>1. CASE t = s
          BY <2>0, <4>1, <4>2, <4>3, <4>6, <5>1 DEF ExecTypes, next
        <5>2. CASE t # s
          <6>1. Claimant(t) /\ exec'[t] = exec[t] /\ exec[t].run \in Runs
            BY <2>0, <4>2, <5>2 DEF Claimant, BusyHasRun
          <6> QED
            BY <4>1, <4>3, <4>5, <5>2, <6>1 DEF ClaimInv, ClaimantHoldsRows
        <5> QED BY <5>1, <5>2
      <4>9. OneClaimant'
        BY <4>2, <4>5 DEF OneClaimant, ClaimInv, Claimant
      <4>10. RanWasClaimed'
        BY <3>0, <4>1, <4>3, <4>6 DEF RanWasClaimed, ClaimInv
      <4> QED
        BY <4>7, <4>8, <4>9, <4>10 DEF ClaimInv
    <3> QED BY <3>1, <3>2
  <2>14. ASSUME NEW s \in Servers, StartNodes(s) PROVE ClaimInv'
    <3> DEFINE r == exec[s].run
    <3>0. r \in Runs /\ exec[s].pc = "start" /\ Claimant(s)
      BY <2>0, <2>14 DEF BusyHasRun, StartNodes, At, Claimant
    <3>1. CASE exec[s].aborted
      <4> DEFINE e == [exec[s] EXCEPT !.pc = "verdict", !.verdict = Verdict(TRUE, FALSE)]
      <4>1. exec' = [exec EXCEPT ![s] = e] /\ UNCHANGED <<rows, ran>>
        BY <2>14, <3>1 DEF StartNodes
      <4>2. e \in Executions /\ e.pc = "verdict" /\ e.run = r
        BY <2>0 DEF ExecTypes, Verdict, Terminal, Phases, Controlled, InTry
      <4> HIDE DEF e
      <4> QED
        BY <2>2, <3>0, <4>1, <4>2
    <3>2. CASE ~exec[s].aborted
      <4>1. /\ exec' = [exec EXCEPT ![s].pc = "body"]
            /\ ran' = [ran EXCEPT ![r] = @ + 1]
            /\ rows' = rows
        BY <2>14, <3>2 DEF StartNodes, Goto
      <4>2. /\ exec'[s].pc = "body" /\ exec'[s].run = r
            /\ \A t \in Servers \ {s} : exec'[t] = exec[t]
        BY <2>0, <4>1 DEF ExecTypes
      <4>3. /\ ran[r] = 0 /\ rows[r] >= exec[s].row /\ exec[s].row > 0
            /\ rows[r] \in Nat /\ exec[s].row \in Nat
        BY <2>0, <3>0 DEF ClaimInv, ClaimantHoldsRows, RowTypes, ExecTypes
      <4>4. ran'[r] = 1 /\ rows'[r] > 0 /\ \A q \in Runs \ {r} : ran'[q] = ran[q]
        BY <2>0, <3>0, <4>1, <4>3 DEF RowTypes
      <4>5. \A t \in Servers : Claimant(t)' =>
              t # s /\ Claimant(t) /\ exec'[t] = exec[t] /\ exec[t].run # r
        BY <3>0, <4>2 DEF Claimant, ClaimInv, OneClaimant
      <4>6. BusyHasRun'
        BY <2>0, <3>0, <4>2 DEF BusyHasRun
      <4>7. ClaimantHoldsRows'
        <5> SUFFICES ASSUME NEW t \in Servers, Claimant(t)'
                     PROVE /\ exec'[t].row > 0 /\ rows'[exec'[t].run] >= exec'[t].row
                           /\ ran'[exec'[t].run] = 0
          BY DEF ClaimantHoldsRows
        <5>1. exec[t].run \in Runs
          BY <2>0, <4>5 DEF BusyHasRun, Claimant
        <5> QED
          BY <4>1, <4>4, <4>5, <5>1 DEF ClaimInv, ClaimantHoldsRows
      <4>8. OneClaimant'
        BY <4>5 DEF OneClaimant, ClaimInv
      <4>9. RanWasClaimed'
        BY <4>1, <4>4 DEF RanWasClaimed, ClaimInv
      <4> QED
        BY <4>6, <4>7, <4>8, <4>9 DEF ClaimInv
    <3> QED BY <3>1, <3>2
  <2> QED
    BY <2>1, <2>3, <2>4, <2>5, <2>7, <2>8, <2>9, <2>10, <2>11, <2>12, <2>13, <2>14
    DEF Next, WorkerStep, vars, rowVars, CreateRun, CancelCheck, Enqueue, EnqueueFault,
        StalledCheck, CancelWrite, BlockEventLoop, CreateReplyLost, CancelFault
<1> QED
  BY <1>1, <1>2, TypeInvariant, PTL DEF Spec

\* No run's nodes are started twice, whatever crashes, lost locks, redeliveries,
\* cancel requests and failed calls come in between.
THEOREM AtMostOnce == Spec => []NodesRunAtMostOnce
<1>1. ClaimInv => NodesRunAtMostOnce
  <2> SUFFICES ASSUME ClaimInv, NEW r \in Runs PROVE ran[r] <= 1
    BY DEF NodesRunAtMostOnce
  <2>1. ran[r] = 0 \/ ran[r] = 1
    BY DEF ClaimInv, RanWasClaimed
  <2> QED
    BY <2>1
<1> QED
  BY <1>1, ClaimInvariant, PTL

-----------------------------------------------------------------------------
(* What a SUCCESS says. *)

\* Every step row of the run is in and its nodes were started once.
Executed(r) == rows[r] = NodeCount /\ ran[r] = 1

\* An executor starts the nodes behind its last row, so that whoever has come
\* through the layer loop without being aborted has executed the run.
Earned(s) ==
    /\ exec[s].pc = "start" => exec[s].row = NodeCount
    /\ exec[s].pc = "body" => Executed(exec[s].run)
    /\ exec[s].pc = "verdict" /\ exec[s].verdict = "SUCCESS" => Executed(exec[s].run)

ExecutedInv == (\A s \in Servers : Earned(s)) /\ SuccessWasExecuted

\* Step rows are never deleted, and starts are never forgotten.
LEMMA StaysExecuted ==
    ASSUME TypeInv, TypeInv', ClaimInv, ClaimInv', [Next]_vars, NEW r \in Runs, Executed(r)
    PROVE  Executed(r)'
<1>0. /\ RowTypes /\ RowTypes' /\ ExecTypes /\ BusyHasRun
      /\ ran'[r] = 0 \/ ran'[r] = 1
  BY DEF TypeInv, TypeOK, ClaimInv, RanWasClaimed
<1>1. rows'[r] >= rows[r] /\ ran'[r] >= ran[r]
  <2>1. CASE UNCHANGED <<rows, ran>>
    BY <1>0, <2>1 DEF RowTypes
  <2>2. ASSUME NEW s \in Servers, CreateStep(s) PROVE rows'[r] >= rows[r] /\ ran'[r] >= ran[r]
    <3>1. /\ ran' = ran
          /\ \/ rows' = rows
             \/ /\ ~(rows[exec[s].run] >= exec[s].row + 1)
                /\ rows' = [rows EXCEPT ![exec[s].run] = exec[s].row + 1]
      BY <2>2 DEF CreateStep
    <3>2. exec[s].row \in Nat
      BY <1>0 DEF ExecTypes, Executions
    <3> QED BY <1>0, <3>1, <3>2 DEF RowTypes
  <2>3. ASSUME NEW s \in Servers, CallFails(s) PROVE rows'[r] >= rows[r] /\ ran'[r] >= ran[r]
    <3>1. /\ ran' = ran
          /\ \/ rows' = rows
             \/ /\ rows[exec[s].run] <= exec[s].row
                /\ rows' = [rows EXCEPT ![exec[s].run] = exec[s].row + 1]
      BY <2>3 DEF CallFails, ReplyLost
    <3>2. exec[s].row \in Nat
      BY <1>0 DEF ExecTypes, Executions
    <3> QED BY <1>0, <3>1, <3>2 DEF RowTypes
  <2>4. ASSUME NEW s \in Servers, StartNodes(s) PROVE rows'[r] >= rows[r] /\ ran'[r] >= ran[r]
    <3>1. rows' = rows /\ (ran' = ran \/ ran' = [ran EXCEPT ![exec[s].run] = @ + 1])
      BY <2>4 DEF StartNodes
    <3> QED BY <1>0, <3>1 DEF RowTypes
  <2> QED
    BY <2>1, <2>2, <2>3, <2>4
    DEF Next, WorkerStep, vars, rowVars, CreateRun, CreateReplyLost, CancelCheck, Enqueue,
        EnqueueFault, StalledCheck, CancelAbort, CancelWrite, CancelFault, Deliver, LoadVersion,
        MarkRunning, FinishNodes, WriteVerdict, FailRun, Acknowledge, Crash, BlockEventLoop, Goto
<1> QED BY <1>0, <1>1 DEF Executed, RowTypes

\* The SUCCESS of a row comes from a verdict, the verdict from the layer loop, and the
\* layer loop from the last step row.
LEMMA ExecutedInvariant == Spec => []ExecutedInv
<1> USE RunsAssumption, BoundsAssumption
<1>1. Init => ExecutedInv
  BY DEF Init, ExecutedInv, Earned, SuccessWasExecuted, Idle, Fresh
<1>2. /\ TypeInv /\ TypeInv' /\ ClaimInv /\ ClaimInv' /\ ExecutedInv /\ [Next]_vars
      => ExecutedInv'
  <2> SUFFICES ASSUME TypeInv, TypeInv', ClaimInv, ClaimInv', ExecutedInv, [Next]_vars
               PROVE  ExecutedInv'
    OBVIOUS
  <2>0. RowTypes /\ ExecTypes /\ BusyHasRun
    BY DEF TypeInv, TypeOK, ClaimInv
  <2>e. \A q \in Runs : Executed(q) => Executed(q)'
    BY StaysExecuted
  <2>r. \A s \in Servers : exec[s].pc # "idle" => exec[s].run \in Runs
    BY <2>0 DEF BusyHasRun
  \* The executors stay, or one of them moves to a phase that claims nothing, and no
  \* row becomes SUCCESS.
  <2>same. ASSUME \A s \in Servers :
                    \/ exec'[s].pc \notin {"start", "body", "verdict"}
                    \/ /\ exec'[s].pc = exec[s].pc /\ exec'[s].run = exec[s].run
                       /\ exec'[s].row = exec[s].row /\ exec'[s].verdict = exec[s].verdict,
                  \A q \in Runs : status'[q] = "SUCCESS" => status[q] = "SUCCESS" \/ Executed(q)
           PROVE  ExecutedInv'
    <3>1. \A q \in Runs : Executed(q) => rows'[q] = NodeCount /\ ran'[q] = 1
      BY <2>e DEF Executed
    <3>2. SuccessWasExecuted'
      BY <2>same, <3>1 DEF ExecutedInv, SuccessWasExecuted, Executed
    <3>3. ASSUME NEW s \in Servers PROVE Earned(s)'
      <4>1. CASE exec'[s].pc \notin {"start", "body", "verdict"}
        BY <4>1 DEF Earned
      <4>2. CASE exec'[s].pc \in {"start", "body", "verdict"}
        BY <2>same, <2>r, <3>1, <4>2 DEF ExecutedInv, Earned, Executed
      <4> QED BY <4>1, <4>2
    <3> QED BY <3>2, <3>3 DEF ExecutedInv
  <2>1. CASE UNCHANGED <<exec, status>>
    BY <2>1, <2>same
  <2>2. ASSUME NEW s \in Servers, NEW p, Goto(s, p), p \notin {"start", "body", "verdict"},
               \A q \in Runs : status'[q] = "SUCCESS" => status[q] = "SUCCESS" \/ Executed(q)
        PROVE  ExecutedInv'
    <3>1. /\ exec'[s].pc = p /\ \A t \in Servers \ {s} : exec'[t] = exec[t]
      BY <2>0, <2>2 DEF Goto, ExecTypes, Executions
    <3> QED BY <2>2, <2>same, <3>1
  <2>3. ASSUME NEW s \in Servers, NEW r \in Runs, Deliver(s, r) PROVE ExecutedInv'
    <3>1. /\ exec'[s].pc = "load" /\ \A t \in Servers \ {s} : exec'[t] = exec[t]
          /\ status' = status
      BY <2>0, <2>3 DEF Deliver, rowVars, Begin, Fresh, ExecTypes
    <3> QED BY <2>same, <3>1
  <2>4. ASSUME NEW s \in Servers, Acknowledge(s) \/ Crash(s) PROVE ExecutedInv'
    <3>1. /\ exec'[s].pc = "idle" /\ \A t \in Servers \ {s} : exec'[t] = exec[t]
          /\ status' = status
      BY <2>0, <2>4 DEF Acknowledge, Crash, rowVars, Idle, Fresh, ExecTypes
    <3> QED BY <2>same, <3>1
  <2>5. ASSUME NEW s \in Servers, NEW r \in Runs, CreateRun(s, r) \/ CreateReplyLost(s, r)
        PROVE  ExecutedInv'
    <3>1. exec' = exec /\ status' = [status EXCEPT ![r] = "PENDING"]
      BY <2>5 DEF CreateRun, CreateReplyLost
    <3> QED BY <2>0, <2>same, <3>1 DEF RowTypes
  <2>6. ASSUME NEW r \in Runs, CancelWrite(r) \/ CancelFault(r) PROVE ExecutedInv'
    <3>1. exec' = exec /\ status' \in {status, [status EXCEPT ![r] = "CANCELLED"]}
      BY <2>6 DEF CancelWrite, CancelFault
    <3> QED BY <2>0, <2>same, <3>1 DEF RowTypes
  <2>7. ASSUME NEW r \in Runs, CancelAbort(r) PROVE ExecutedInv'
    <3>1. /\ status' = status
          /\ \A s \in Servers : /\ exec'[s].pc = exec[s].pc /\ exec'[s].run = exec[s].run
                                /\ exec'[s].row = exec[s].row
                                /\ exec'[s].verdict = exec[s].verdict
      BY <2>0, <2>7 DEF CancelAbort, rowVars, ExecTypes, Executions
    <3> QED BY <2>same, <3>1
  <2>8. ASSUME NEW s \in Servers, LoadVersion(s) PROVE ExecutedInv'
    BY <2>2, <2>8 DEF LoadVersion, rowVars
  <2>9. ASSUME NEW s \in Servers, MarkRunning(s) PROVE ExecutedInv'
    <3>1. Goto(s, "create") /\ status' = [status EXCEPT ![exec[s].run] = "RUNNING"]
      BY <2>9 DEF MarkRunning
    <3> QED BY <2>0, <2>2, <3>1 DEF RowTypes
  <2>10. ASSUME NEW s \in Servers, FailRun(s) PROVE ExecutedInv'
    <3>1. Goto(s, "ack") /\ status' = [status EXCEPT ![exec[s].run] = "FAILED"]
      BY <2>10 DEF FailRun
    <3> QED BY <2>0, <2>2, <3>1 DEF RowTypes
  <2>11. ASSUME NEW s \in Servers, WriteVerdict(s) PROVE ExecutedInv'
    <3>1. /\ Goto(s, "ack") /\ status' = [status EXCEPT ![exec[s].run] = exec[s].verdict]
          /\ exec[s].pc = "verdict"
      BY <2>11 DEF WriteVerdict, At
    <3>2. \A q \in Runs : status'[q] = "SUCCESS" => status[q] = "SUCCESS" \/ Executed(q)
      BY <2>0, <3>1 DEF RowTypes, ExecutedInv, Earned
    <3> QED BY <2>2, <3>1, <3>2
  <2>12. ASSUME NEW s \in Servers, CallFails(s) PROVE ExecutedInv'
    <3>1. PICK p \in {"ack", "failCatch"} : Goto(s, p)
      BY <2>12 DEF CallFails
    <3>2. status' = status \/ status' = [status EXCEPT ![exec[s].run] = StatusWritten(s)]
      BY <2>12 DEF CallFails, ReplyLost
    <3>3. StatusWritten(s) = "SUCCESS" => exec[s].pc = "verdict" /\ exec[s].verdict = "SUCCESS"
      BY DEF StatusWritten, At
    <3>4. \A q \in Runs : status'[q] = "SUCCESS" => status[q] = "SUCCESS" \/ Executed(q)
      BY <2>0, <3>2, <3>3 DEF RowTypes, ExecutedInv, Earned
    <3> QED BY <2>2, <3>1, <3>4
  <2>13. ASSUME NEW s \in Servers, CreateStep(s) PROVE ExecutedInv'
    <3> DEFINE r == exec[s].run
               next == exec[s].row + 1
               phase == IF next = NodeCount THEN "start" ELSE "create"
    <3>0. status' = status
      BY <2>13 DEF CreateStep
    <3>1. CASE rows[r] >= next
      BY <2>2, <2>13, <3>0, <3>1 DEF CreateStep
    <3>2. CASE ~(rows[r] >= next)
      <4>1. exec' = [exec EXCEPT ![s] = [@ EXCEPT !.row = next, !.pc = phase]]
        BY <2>13, <3>2 DEF CreateStep
      <4>2. phase = "create" \/ (phase = "start" /\ next = NodeCount)
        OBVIOUS
      <4> HIDE DEF next, phase
      <4>3. /\ exec'[s].pc = phase /\ exec'[s].row = next
            /\ \A t \in Servers \ {s} : exec'[t] = exec[t]
        BY <2>0, <4>1 DEF ExecTypes, Executions
      <4>4. ASSUME NEW t \in Servers PROVE Earned(t)'
        <5>1. CASE t = s
          BY <4>2, <4>3, <5>1 DEF Earned
        <5>2. CASE t # s
          BY <2>e, <2>r, <4>3, <5>2 DEF ExecutedInv, Earned, Executed
        <5> QED BY <5>1, <5>2
      <4>5. SuccessWasExecuted'
        BY <2>e, <3>0 DEF ExecutedInv, SuccessWasExecuted, Executed
      <4> QED BY <4>4, <4>5 DEF ExecutedInv
    <3> QED BY <3>1, <3>2
  <2>14. ASSUME NEW s \in Servers, StartNodes(s) PROVE ExecutedInv'
    <3>0. exec[s].pc = "start" /\ status' = status /\ rows' = rows /\ exec[s].run \in Runs
      BY <2>r, <2>14 DEF StartNodes, At
    <3>1. \/ exec'[s].pc = "verdict" /\ exec'[s].verdict = "CANCELLED"
          \/ exec'[s].pc = "body" /\ exec'[s].run = exec[s].run
             /\ ran' = [ran EXCEPT ![exec[s].run] = @ + 1]
      <4> DEFINE e == [exec[s] EXCEPT !.pc = "verdict", !.verdict = Verdict(TRUE, FALSE)]
      <4>1. CASE exec[s].aborted
        <5>1. exec' = [exec EXCEPT ![s] = e]
          BY <2>14, <4>1 DEF StartNodes
        <5>2. e.pc = "verdict" /\ e.verdict = "CANCELLED"
          BY <2>0 DEF ExecTypes, Executions, Verdict
        <5> HIDE DEF e
        <5> QED BY <2>0, <5>1, <5>2 DEF ExecTypes
      <4>2. CASE ~exec[s].aborted
        BY <2>0, <2>14, <4>2 DEF StartNodes, Goto, ExecTypes, Executions
      <4> QED BY <4>1, <4>2
    <3>2. \A t \in Servers \ {s} : exec'[t] = exec[t]
      BY <2>0, <2>14 DEF StartNodes, Goto, ExecTypes
    <3>3. exec'[s].pc = "body" => rows'[exec[s].run] = NodeCount /\ ran'[exec[s].run] = 1
      <4>1. rows[exec[s].run] = NodeCount /\ ran[exec[s].run] = 0
        BY <2>0, <3>0 DEF ExecutedInv, Earned, ClaimInv, ClaimantHoldsRows, Claimant, RowTypes
      <4> QED BY <2>0, <3>0, <3>1, <4>1 DEF RowTypes
    <3>4. ASSUME NEW t \in Servers PROVE Earned(t)'
      <4>1. CASE t = s
        BY <3>1, <3>3, <4>1 DEF Earned, Executed
      <4>2. CASE t # s
        BY <2>e, <2>r, <3>2, <4>2 DEF ExecutedInv, Earned, Executed
      <4> QED BY <4>1, <4>2
    <3>5. SuccessWasExecuted'
      BY <2>e, <3>0 DEF ExecutedInv, SuccessWasExecuted, Executed
    <3> QED BY <3>4, <3>5 DEF ExecutedInv
  <2>15. ASSUME NEW s \in Servers, FinishNodes(s) PROVE ExecutedInv'
    <3>1. /\ exec[s].pc = "body" /\ status' = status
          /\ exec'[s].pc = "verdict" /\ exec'[s].run = exec[s].run
          /\ \A t \in Servers \ {s} : exec'[t] = exec[t]
      BY <2>0, <2>15 DEF FinishNodes, At, rowVars, ExecTypes, Executions
    <3>2. ASSUME NEW t \in Servers PROVE Earned(t)'
      <4>1. CASE t = s
        BY <2>e, <2>r, <3>1, <4>1 DEF ExecutedInv, Earned, Executed
      <4>2. CASE t # s
        BY <2>e, <2>r, <3>1, <4>2 DEF ExecutedInv, Earned, Executed
      <4> QED BY <4>1, <4>2
    <3>3. SuccessWasExecuted'
      BY <2>e, <3>1 DEF ExecutedInv, SuccessWasExecuted, Executed
    <3> QED BY <3>2, <3>3 DEF ExecutedInv
  <2> QED
    BY <2>1, <2>3, <2>4, <2>5, <2>6, <2>7, <2>8, <2>9, <2>10, <2>11, <2>12, <2>13, <2>14, <2>15
    DEF Next, WorkerStep, vars, rowVars, CancelCheck, Enqueue, EnqueueFault, StalledCheck,
        BlockEventLoop
<1> QED
  BY <1>1, <1>2, TypeInvariant, ClaimInvariant, PTL DEF Spec

\* A run whose row says SUCCESS has had its nodes started exactly once, whatever
\* deliveries, crashes, lost replies and lost locks lie behind it.
THEOREM SuccessesWereExecuted == Spec => []SuccessWasExecuted
  BY ExecutedInvariant, PTL DEF ExecutedInv
=============================================================================
