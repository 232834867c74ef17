-------------------------- MODULE WorkflowRunEndProofs --------------------------
(***************************************************************************)
(* Proofs about how a run of WorkflowRun ends: a completed job leaves a    *)
(* finished run, an abort in time decides it, and a run nobody disturbs    *)
(* lives the life of RunRecord.                                            *)
(*                                                                         *)
(* All three rest on DeliveryInv, what the queue's lock and the counting   *)
(* of stalled deliveries make true of the workers.                         *)
(***************************************************************************)
EXTENDS WorkflowRunProofs

BeforeNodes == {"load", "failEarly", "mark", "create", "start"}

IdleHasNoRun == \A s \in Servers : exec[s].pc = "idle" => exec[s].run = NoRun

\* A job is added only by the request that has inserted the row, be it a request
\* that has not learnt of it.
TriggeredFirst ==
    \A r \in Runs : /\ job[r] # "none" => trigger[r].pc \in {"done", "lost"}
                    /\ trigger[r].pc = "none" <=> status[r] = "none"
                    /\ cancel[r].pc # "none" => trigger[r].pc # "none"
                    /\ \A s \in Servers : exec[s].run = r => job[r] # "none"

\* Only a call that failed leaves nodes behind.
StraysOfAFault == strays = {} \/ faults > 0

\* Without a failed call a lock is lost only to a crash, which ends the executor, or
\* while nodes execute.
HoldsLock ==
    \A s \in Servers : faults = 0 /\ exec[s].pc \in BeforeNodes =>
      job[exec[s].run] = "active" /\ holder[exec[s].run] = s

\* Without a stalled delivery there is one executor, and the job is still its job.
OneDelivery ==
    \A s \in Servers, r \in Runs : exec[s].run = r /\ stalls[r] = 0 =>
      job[r] = "active" /\ \A t \in Servers : exec[t].run = r => t = s

UnusableOnly == \A s \in Servers : exec[s].pc = "failEarly" => exec[s].run \in BrokenRuns

HasVerdict == \A s \in Servers : exec[s].pc = "verdict" => exec[s].verdict \in Terminal

\* The first delivery finds no step row that it has not inserted itself.
FirstRows ==
    \A r \in Runs : stalls[r] = 0 =>
      /\ job[r] \in {"none", "wait"} => rows[r] = 0
      /\ \A s \in Servers : exec[s].run = r /\ exec[s].pc \in {"load", "mark", "create"} =>
           rows[r] = exec[s].row

\* So what sends the first delivery to the catch block is a failed call.
CaughtAFault ==
    \A s \in Servers : exec[s].pc = "failCatch" /\ stalls[exec[s].run] = 0 => faults > 0

DeliveryInv ==
    /\ IdleHasNoRun /\ TriggeredFirst /\ StraysOfAFault /\ HoldsLock /\ OneDelivery
    /\ UnusableOnly /\ HasVerdict /\ FirstRows /\ CaughtAFault

-----------------------------------------------------------------------------
(* What the actions that move an executor write, field by field. *)

\* Deliver hands the job to one idle worker, which becomes the holder of its lock.
LEMMA DeliverEffect ==
    ASSUME TypeInv, NEW s \in Servers, NEW r \in Runs, Deliver(s, r)
    PROVE  /\ exec[s].pc = "idle" /\ exec'[s] = Begin(r)
           /\ exec'[s].pc = "load" /\ exec'[s].run = r /\ exec'[s].row = 0
           /\ ~exec'[s].aborted
           /\ \A t \in Servers \ {s} : exec'[t] = exec[t]
           /\ job[r] = "wait" /\ UNCHANGED <<status, rows, stalls, strays, trigger, cancel, faults>>
           /\ job'[r] = "active" /\ \A q \in Runs \ {r} : job'[q] = job[q]
           /\ holder'[r] = s /\ \A q \in Runs \ {r} : holder'[q] = holder[q]
<1>1. ExecTypes /\ QueueTypes
  BY DEF TypeInv, TypeOK
<1>2. /\ Begin(r).pc = "load" /\ Begin(r).run = r /\ Begin(r).row = 0
      /\ ~Begin(r).aborted
  BY DEF Begin, Fresh
<1>3. /\ exec' = [exec EXCEPT ![s] = Begin(r)] /\ exec[s].pc = "idle" /\ job[r] = "wait"
      /\ job' = [job EXCEPT ![r] = "active"] /\ holder' = [holder EXCEPT ![r] = s]
      /\ UNCHANGED <<status, rows, stalls, strays, trigger, cancel, faults>>
  BY DEF Deliver, rowVars, apiVars, boundVars
<1> QED BY <1>1, <1>2, <1>3 DEF ExecTypes, QueueTypes

\* Either the unique index refuses the next row, or it is in.
LEMMA CreateStepEffect ==
    ASSUME TypeInv, BusyHasRun, NEW s \in Servers, CreateStep(s)
    PROVE  LET r == exec[s].run IN
           /\ r \in Runs /\ exec[s].pc = "create"
           /\ UNCHANGED <<status, job, holder, stalls, strays, trigger, cancel, faults>>
           /\ exec'[s].run = r /\ exec'[s].aborted = exec[s].aborted
           /\ \A t \in Servers \ {s} : exec'[t] = exec[t]
           /\ \A q \in Runs \ {r} : rows'[q] = rows[q]
           /\ \/ exec'[s].pc = "failCatch" /\ rows[r] >= exec[s].row + 1
              \/ /\ exec'[s].pc \in {"create", "start"} /\ ~(rows[r] >= exec[s].row + 1)
                 /\ rows'[r] = exec[s].row + 1 /\ exec'[s].row = exec[s].row + 1
<1> DEFINE r == exec[s].run
           next == exec[s].row + 1
           phase == IF next = NodeCount THEN "start" ELSE "create"
<1>1. RowTypes /\ ExecTypes
  BY DEF TypeInv, TypeOK
<1>2. /\ r \in Runs /\ exec[s].pc = "create"
      /\ UNCHANGED <<status, job, holder, stalls, strays, trigger, cancel, faults>>
  BY DEF CreateStep, At, BusyHasRun, rowVars, queueVars, apiVars, boundVars
<1>3. CASE rows[r] >= next
  BY <1>1, <1>2, <1>3 DEF CreateStep, Goto, ExecTypes, Executions
<1>4. CASE ~(rows[r] >= next)
  <2>1. /\ rows' = [rows EXCEPT ![r] = next]
        /\ exec' = [exec EXCEPT ![s] = [@ EXCEPT !.row = next, !.pc = phase]]
    BY <1>4 DEF CreateStep
  <2>2. phase \in {"create", "start"}
    OBVIOUS
  <2> HIDE DEF next, phase
  <2>3. /\ exec'[s].row = next /\ exec'[s].run = exec[s].run /\ exec'[s].pc = phase
        /\ exec'[s].aborted = exec[s].aborted
        /\ \A t \in Servers \ {s} : exec'[t] = exec[t]
    BY <1>1, <2>1 DEF ExecTypes, Executions
  <2>4. rows'[r] = next /\ \A q \in Runs \ {r} : rows'[q] = rows[q]
    BY <1>1, <1>2, <2>1 DEF RowTypes
  <2> HIDE DEF r
  <2> QED BY <1>2, <1>4, <2>2, <2>3, <2>4 DEF r, next
<1> QED BY <1>3, <1>4

\* An executor that was aborted before goes straight to its verdict.
LEMMA StartNodesEffect ==
    ASSUME TypeInv, NEW s \in Servers, StartNodes(s)
    PROVE  /\ exec[s].pc = "start"
           /\ UNCHANGED <<status, rows, job, holder, stalls, strays, trigger, cancel, faults>>
           /\ exec'[s].run = exec[s].run /\ exec'[s].aborted = exec[s].aborted
           /\ \A t \in Servers \ {s} : exec'[t] = exec[t]
           /\ \/ exec'[s].pc = "body"
              \/ exec[s].aborted /\ exec'[s].pc = "verdict" /\ exec'[s].verdict = "CANCELLED"
<1>1. ExecTypes
  BY DEF TypeInv, TypeOK
<1>2. /\ exec[s].pc = "start"
      /\ UNCHANGED <<status, rows, job, holder, stalls, strays, trigger, cancel, faults>>
  BY DEF StartNodes, At, queueVars, apiVars, boundVars
<1>3. CASE exec[s].aborted
  <2> DEFINE e == [exec[s] EXCEPT !.pc = "verdict", !.verdict = Verdict(TRUE, FALSE)]
  <2>1. exec' = [exec EXCEPT ![s] = e]
    BY <1>3 DEF StartNodes
  <2>2. /\ e.pc = "verdict" /\ e.verdict = "CANCELLED" /\ e.run = exec[s].run
        /\ e.aborted = exec[s].aborted
    BY <1>1 DEF ExecTypes, Executions, Verdict
  <2> HIDE DEF e
  <2> QED BY <1>1, <1>2, <1>3, <2>1, <2>2 DEF ExecTypes
<1>4. CASE ~exec[s].aborted
  BY <1>1, <1>2, <1>4 DEF StartNodes, Goto, ExecTypes, Executions
<1> QED BY <1>3, <1>4

\* The verdict is a terminal status, and CANCELLED where the abort was seen.
LEMMA FinishNodesEffect ==
    ASSUME TypeInv, NEW s \in Servers, FinishNodes(s)
    PROVE  /\ exec[s].pc = "body"
           /\ UNCHANGED <<status, rows, job, holder, stalls, strays, trigger, cancel, faults>>
           /\ exec'[s].run = exec[s].run /\ exec'[s].pc = "verdict"
           /\ \A t \in Servers \ {s} : exec'[t] = exec[t]
           /\ exec'[s].verdict \in Terminal
           /\ exec'[s].aborted = exec[s].aborted
           /\ exec[s].aborted <=> exec'[s].verdict = "CANCELLED"
<1>1. ExecTypes
  BY DEF TypeInv, TypeOK
<1>2. PICK hasFailure \in BOOLEAN :
        exec' = [exec EXCEPT ![s] = [@ EXCEPT
          !.pc = "verdict", !.verdict = Verdict(exec[s].aborted, hasFailure)]]
  BY DEF FinishNodes
<1> DEFINE v == Verdict(exec[s].aborted, hasFailure)
           e == [exec[s] EXCEPT !.pc = "verdict", !.verdict = v]
<1>3. v \in Terminal /\ (exec[s].aborted <=> v = "CANCELLED")
  BY DEF Verdict, Terminal
<1> HIDE DEF v
<1>4. e.pc = "verdict" /\ e.verdict = v /\ e.run = exec[s].run /\ e.aborted = exec[s].aborted
  BY <1>1 DEF ExecTypes, Executions
<1>5. exec' = [exec EXCEPT ![s] = e]
  BY <1>2 DEF v
<1>6. /\ exec[s].pc = "body"
      /\ UNCHANGED <<status, rows, job, holder, stalls, strays, trigger, cancel, faults>>
  BY DEF FinishNodes, At, rowVars, queueVars, apiVars, boundVars
<1> HIDE DEF e
<1> QED BY <1>1, <1>3, <1>4, <1>5, <1>6 DEF ExecTypes

\* The verdict is written to the row of the executor's own run.
LEMMA WriteVerdictEffect ==
    ASSUME TypeInv, BusyHasRun, NEW s \in Servers, WriteVerdict(s)
    PROVE  /\ exec[s].pc = "verdict" /\ exec'[s].pc = "ack" /\ exec'[s].run = exec[s].run
           /\ exec'[s].aborted = exec[s].aborted
           /\ \A t \in Servers \ {s} : exec'[t] = exec[t]
           /\ exec[s].run \in Runs /\ status'[exec[s].run] = exec[s].verdict
           /\ \A q \in Runs \ {exec[s].run} : status'[q] = status[q]
           /\ UNCHANGED <<rows, job, holder, stalls, strays, trigger, cancel, faults>>
<1>1. RowTypes /\ ExecTypes
  BY DEF TypeInv, TypeOK
<1>2. /\ exec[s].pc = "verdict" /\ exec[s].run \in Runs
      /\ status' = [status EXCEPT ![exec[s].run] = exec[s].verdict]
      /\ exec' = [exec EXCEPT ![s].pc = "ack"]
      /\ UNCHANGED <<rows, job, holder, stalls, strays, trigger, cancel, faults>>
  BY DEF WriteVerdict, Goto, At, BusyHasRun, queueVars, apiVars, boundVars
<1> QED BY <1>1, <1>2 DEF RowTypes, ExecTypes, Executions

\* The executor goes to the catch block or out of it; what its call was to write is
\* in the row or not.
LEMMA CallFailsEffect ==
    ASSUME TypeInv, BusyHasRun, NEW s \in Servers, CallFails(s)
    PROVE  LET r == exec[s].run IN
           /\ r \in Runs /\ exec[s].pc \in Controlled /\ exec'[s].run = r
           /\ exec'[s].aborted = exec[s].aborted
           /\ \/ exec[s].pc = "failCatch" /\ exec'[s].pc = "ack"
              \/ exec[s].pc # "failCatch" /\ exec'[s].pc = "failCatch"
           /\ \A t \in Servers \ {s} : exec'[t] = exec[t]
           /\ \A q \in Runs \ {r} : status'[q] = status[q] /\ rows'[q] = rows[q]
           /\ \/ status'[r] = status[r]
              \/ exec[s].pc = "mark" /\ status'[r] = "RUNNING"
              \/ exec[s].pc = "verdict" /\ status'[r] = exec[s].verdict
              \/ exec[s].pc \in {"failEarly", "failCatch"} /\ status'[r] = "FAILED"
           /\ faults \in Nat /\ faults' = faults + 1
           /\ strays' \in {strays, strays \cup {s}}
           /\ UNCHANGED <<job, holder, stalls, trigger, cancel>>
<1> DEFINE r == exec[s].run
           p == IF At(s, "failCatch") THEN "ack" ELSE "failCatch"
<1>1. RowTypes /\ ExecTypes /\ BoundTypes
  BY DEF TypeInv, TypeOK
<1>2. /\ exec' = [exec EXCEPT ![s].pc = p] /\ exec[s].pc \in Controlled
      /\ faults' = faults + 1 /\ strays' \in {strays, strays \cup {s}}
      /\ UNCHANGED <<job, holder, stalls, trigger, cancel>>
  BY DEF CallFails, Goto, queueVars, apiVars
<1>3. r \in Runs
  BY <1>2 DEF BusyHasRun, Controlled, InTry
<1>4. /\ \/ exec[s].pc = "failCatch" /\ p = "ack"
         \/ exec[s].pc # "failCatch" /\ p = "failCatch"
  BY DEF At
<1> HIDE DEF p
<1>5. /\ exec'[s].pc = p /\ exec'[s].run = r /\ exec'[s].aborted = exec[s].aborted
      /\ \A t \in Servers \ {s} : exec'[t] = exec[t]
  BY <1>1, <1>2 DEF ExecTypes, Executions
<1>6. /\ \A q \in Runs \ {r} : status'[q] = status[q] /\ rows'[q] = rows[q]
      /\ \/ status'[r] = status[r]
         \/ /\ exec[s].pc \in {"mark", "verdict", "failEarly", "failCatch"}
            /\ status'[r] = StatusWritten(s)
  BY <1>1, <1>3 DEF CallFails, ReplyLost, RowTypes
<1>7. exec[s].pc \in {"mark", "verdict", "failEarly", "failCatch"} =>
        \/ exec[s].pc = "mark" /\ StatusWritten(s) = "RUNNING"
        \/ exec[s].pc = "verdict" /\ StatusWritten(s) = exec[s].verdict
        \/ exec[s].pc \in {"failEarly", "failCatch"} /\ StatusWritten(s) = "FAILED"
  BY DEF StatusWritten, At
<1>8. faults \in Nat
  BY <1>1, BoundsAssumption DEF BoundTypes
<1> QED BY <1>2, <1>3, <1>4, <1>5, <1>6, <1>7, <1>8

-----------------------------------------------------------------------------
(* One delivery, one executor. *)

\* A step that hands out no run and takes no job from an executor keeps OneDelivery.
LEMMA NoNewDelivery ==
    ASSUME OneDelivery, UNCHANGED <<job, stalls>>,
           \A s \in Servers : exec'[s].run = exec[s].run
    PROVE  OneDelivery'
  BY DEF OneDelivery

\* Every step keeps the facts about the queue, its locks and its executors.
LEMMA DeliveryInvariant == Spec => []DeliveryInv
<1> USE RunsAssumption, BoundsAssumption
<1>1. Init => DeliveryInv
  BY DEF Init, DeliveryInv, IdleHasNoRun, TriggeredFirst, StraysOfAFault, HoldsLock, OneDelivery, UnusableOnly,
         HasVerdict, FirstRows, CaughtAFault, BeforeNodes, Idle, Fresh
<1>2. TypeInv /\ ClaimInv /\ DeliveryInv /\ [Next]_vars => DeliveryInv'
  <2> SUFFICES ASSUME TypeInv, ClaimInv, DeliveryInv, [Next]_vars PROVE DeliveryInv'
    OBVIOUS
  <2>0. RowTypes /\ QueueTypes /\ ExecTypes /\ ApiTypes /\ BoundTypes /\ BusyHasRun
    BY DEF TypeInv, TypeOK, ClaimInv
  <2> USE DEF DeliveryInv, IdleHasNoRun, TriggeredFirst, StraysOfAFault, HoldsLock, OneDelivery, UnusableOnly,
          HasVerdict, FirstRows, CaughtAFault, BeforeNodes
  <2>11. ASSUME NEW s \in Servers, NEW r \in Runs, Deliver(s, r) PROVE DeliveryInv'
    <3>1. /\ exec'[s].pc = "load" /\ exec'[s].run = r /\ exec'[s].row = 0
          /\ \A t \in Servers \ {s} : exec'[t] = exec[t]
      BY <2>11, DeliverEffect
    <3>2. stalls[r] = 0 => rows[r] = 0 /\ \A t \in Servers : exec[t].run # r
      BY <2>11 DEF Deliver
    <3>3. /\ job[r] = "wait" /\ UNCHANGED <<status, rows, stalls, strays, trigger, cancel, faults>>
          /\ job'[r] = "active" /\ \A q \in Runs \ {r} : job'[q] = job[q]
          /\ holder'[r] = s /\ \A q \in Runs \ {r} : holder'[q] = holder[q]
      BY <2>11, DeliverEffect
    <3>4. OneDelivery'
      <4> SUFFICES ASSUME NEW t \in Servers, NEW q \in Runs, exec'[t].run = q, stalls'[q] = 0
                   PROVE  job'[q] = "active" /\ \A u \in Servers : exec'[u].run = q => u = t
        OBVIOUS
      <4>1. CASE q = r
        BY <3>1, <3>2, <3>3, <4>1
      <4>2. CASE q # r
        BY <3>1, <3>3, <4>2
      <4> QED BY <4>1, <4>2
    <3>5. FirstRows'
      <4> SUFFICES ASSUME NEW q \in Runs, stalls'[q] = 0
                   PROVE  /\ job'[q] \in {"none", "wait"} => rows'[q] = 0
                          /\ \A t \in Servers :
                               exec'[t].run = q /\ exec'[t].pc \in {"load", "mark", "create"} =>
                                 rows'[q] = exec'[t].row
        OBVIOUS
      <4>1. CASE q = r
        BY <3>1, <3>2, <3>3, <4>1
      <4>2. CASE q # r
        BY <3>1, <3>3, <4>2
      <4> QED BY <4>1, <4>2
    <3>6. HoldsLock'
      <4> SUFFICES ASSUME NEW t \in Servers \ {s}, faults = 0, exec[t].pc \in BeforeNodes
                   PROVE  job'[exec[t].run] = "active" /\ holder'[exec[t].run] = t
        BY <3>1, <3>3
      <4>1. exec[t].run \in Runs /\ job[exec[t].run] = "active" /\ holder[exec[t].run] = t
        BY <2>0 DEF BusyHasRun
      <4> QED BY <3>3, <4>1
    <3>7. TriggeredFirst' /\ StraysOfAFault' /\ CaughtAFault'
      BY <3>1, <3>3
    <3>8. IdleHasNoRun' /\ UnusableOnly' /\ HasVerdict'
      BY <3>1
    <3> QED BY <3>4, <3>5, <3>6, <3>7, <3>8
  <2>14. ASSUME NEW s \in Servers, CreateStep(s) PROVE DeliveryInv'
    <3> DEFINE r == exec[s].run
               next == exec[s].row + 1
    <3>1. /\ r \in Runs /\ exec[s].pc = "create"
          /\ UNCHANGED <<status, job, holder, stalls, strays, trigger, cancel, faults>>
      BY <2>0, <2>14, CreateStepEffect
    <3>2. /\ exec'[s].run = r /\ \A t \in Servers \ {s} : exec'[t] = exec[t]
          /\ \A q \in Runs \ {r} : rows'[q] = rows[q]
          /\ \/ exec'[s].pc = "failCatch" /\ rows[r] >= next
             \/ /\ exec'[s].pc \in {"create", "start"}
                /\ rows'[r] = next /\ exec'[s].row = next
      BY <2>0, <2>14, CreateStepEffect
    <3>3. stalls[r] = 0 => ~(rows[r] >= next)
      BY <2>0, <3>1 DEF RowTypes, ExecTypes, Executions
    <3>4. OneDelivery'
      BY <3>1, <3>2, NoNewDelivery
    <3> HIDE DEF r, next
    <3>5. FirstRows'
      <4> SUFFICES ASSUME NEW q \in Runs, stalls'[q] = 0
                   PROVE  /\ job'[q] \in {"none", "wait"} => rows'[q] = 0
                          /\ \A t \in Servers :
                               exec'[t].run = q /\ exec'[t].pc \in {"load", "mark", "create"} =>
                                 rows'[q] = exec'[t].row
        OBVIOUS
      <4>1. CASE q = r
        <5>1. job'[q] = "active" /\ \A t \in Servers : exec'[t].run = q => t = s
          BY <3>1, <3>2, <3>4, <4>1
        <5> QED BY <3>1, <3>2, <3>3, <4>1, <5>1
      <4>2. CASE q # r
        BY <3>1, <3>2, <4>2
      <4> QED BY <4>1, <4>2
    <3>6. HoldsLock'
      <4> SUFFICES ASSUME NEW t \in Servers, faults' = 0, exec'[t].pc \in BeforeNodes
                   PROVE  job'[exec'[t].run] = "active" /\ holder'[exec'[t].run] = t
        OBVIOUS
      <4>1. exec[t].pc \in BeforeNodes /\ exec'[t].run = exec[t].run
        BY <3>1, <3>2 DEF r
      <4> QED BY <3>1, <4>1
    <3>7. IdleHasNoRun' /\ UnusableOnly' /\ HasVerdict'
      BY <3>1, <3>2
    <3>8. TriggeredFirst' /\ StraysOfAFault'
      BY <3>1, <3>2 DEF r
    <3>9. CaughtAFault'
      BY <3>1, <3>2, <3>3
    <3> QED BY <3>4, <3>5, <3>6, <3>7, <3>8, <3>9
  <2>15. ASSUME NEW s \in Servers, StartNodes(s) PROVE DeliveryInv'
    <3>1. /\ exec'[s].pc = "body" \/ (exec'[s].pc = "verdict" /\ exec'[s].verdict = "CANCELLED")
          /\ exec'[s].run = exec[s].run /\ exec[s].pc = "start"
          /\ \A t \in Servers \ {s} : exec'[t] = exec[t]
      BY <2>15, StartNodesEffect
    <3>2. UNCHANGED <<status, rows, job, holder, stalls, strays, trigger, cancel, faults>>
      BY <2>15, StartNodesEffect
    <3>3. OneDelivery'
      BY <3>1, <3>2, NoNewDelivery
    <3> QED BY <3>1, <3>2, <3>3 DEF Terminal
  <2>16. ASSUME NEW s \in Servers, FinishNodes(s) PROVE DeliveryInv'
    <3>1. /\ exec'[s].pc = "verdict" /\ exec'[s].run = exec[s].run /\ exec[s].pc = "body"
          /\ exec'[s].verdict \in Terminal /\ \A t \in Servers \ {s} : exec'[t] = exec[t]
          /\ UNCHANGED <<status, rows, job, holder, stalls, strays, trigger, cancel, faults>>
      BY <2>16, FinishNodesEffect
    <3>2. OneDelivery'
      BY <3>1, NoNewDelivery
    <3> QED BY <3>1, <3>2
  <2>17. ASSUME NEW s \in Servers, WriteVerdict(s) PROVE DeliveryInv'
    <3>1. /\ exec'[s].pc = "ack" /\ exec'[s].run = exec[s].run /\ exec[s].pc = "verdict"
          /\ \A t \in Servers \ {s} : exec'[t] = exec[t]
      BY <2>0, <2>17, WriteVerdictEffect
    <3>2. /\ status'[exec[s].run] = exec[s].verdict /\ exec[s].run \in Runs
          /\ \A q \in Runs \ {exec[s].run} : status'[q] = status[q]
          /\ UNCHANGED <<rows, job, holder, stalls, strays, trigger, cancel, faults>>
      BY <2>0, <2>17, WriteVerdictEffect
    <3>3. OneDelivery'
      BY <3>1, <3>2, NoNewDelivery
    <3>4. FirstRows' /\ CaughtAFault' /\ HoldsLock'
      BY <3>1, <3>2
    <3> QED BY <3>1, <3>2, <3>3, <3>4 DEF Terminal
  <2>8. ASSUME NEW s \in Servers, CallFails(s) PROVE DeliveryInv'
    <3> DEFINE r == exec[s].run
    <3>1. /\ exec'[s].run = r /\ exec'[s].pc \in {"ack", "failCatch"}
          /\ r \in Runs /\ exec[s].pc # "idle"
          /\ \A t \in Servers \ {s} : exec'[t] = exec[t]
          /\ \A q \in Runs \ {r} : status'[q] = status[q] /\ rows'[q] = rows[q]
      BY <2>0, <2>8, CallFailsEffect DEF Controlled, InTry
    <3>2. /\ UNCHANGED <<job, holder, stalls, trigger, cancel>> /\ faults' > 0
          /\ \/ status'[r] \in {status[r], "RUNNING", "FAILED"}
             \/ exec[s].pc = "verdict" /\ status'[r] = exec[s].verdict
      BY <2>0, <2>8, CallFailsEffect
    <3>3. status[r] # "none" /\ status'[r] # "none" /\ job[r] # "none"
      BY <3>1, <3>2 DEF Terminal
    <3>4. OneDelivery'
      BY <3>1, <3>2, NoNewDelivery
    <3>5. exec[s].run = r
      OBVIOUS
    <3> HIDE DEF r
    <3>6. FirstRows'
      <4> SUFFICES ASSUME NEW q \in Runs, stalls'[q] = 0
                   PROVE  /\ job'[q] \in {"none", "wait"} => rows'[q] = 0
                          /\ \A t \in Servers :
                               exec'[t].run = q /\ exec'[t].pc \in {"load", "mark", "create"} =>
                                 rows'[q] = exec'[t].row
        OBVIOUS
      <4>1. CASE q = r
        BY <3>1, <3>2, <3>4, <4>1
      <4>2. CASE q # r
        BY <3>1, <3>2, <4>2
      <4> QED BY <4>1, <4>2
    <3>7. TriggeredFirst'
      BY <3>1, <3>2, <3>3, <3>5
    <3>8. IdleHasNoRun' /\ UnusableOnly' /\ HasVerdict'
      BY <3>1
    <3>9. StraysOfAFault' /\ HoldsLock' /\ CaughtAFault'
      BY <3>2
    <3> QED BY <3>4, <3>6, <3>7, <3>8, <3>9
  <2> USE <2>0 DEF RowTypes, QueueTypes, ExecTypes, Executions, ApiTypes, BoundTypes, BusyHasRun,
          rowVars, queueVars, apiVars, boundVars
  <2>1. ASSUME NEW s \in Servers, NEW r \in Runs, CreateRun(s, r) PROVE DeliveryInv'
    BY <2>1 DEF CreateRun
  <2>2. ASSUME NEW s \in Servers, NEW r \in Runs, CancelCheck(s, r) PROVE DeliveryInv'
    BY <2>2 DEF CancelCheck
  <2>3. ASSUME NEW r \in Runs, Enqueue(r) PROVE DeliveryInv'
    BY <2>3 DEF Enqueue
  <2>4. ASSUME NEW r \in Runs, EnqueueFault(r) PROVE DeliveryInv'
    BY <2>4 DEF EnqueueFault
  <2>5. ASSUME NEW r \in Runs, StalledCheck(r) PROVE DeliveryInv'
    BY <2>5 DEF StalledCheck
  <2>6. ASSUME NEW r \in Runs, CancelAbort(r) PROVE DeliveryInv'
    <3>1. UNCHANGED <<status, rows, ran, job, holder, stalls, trigger, strays, crashes, blocks, faults>>
      BY <2>6 DEF CancelAbort
    <3>2. \A s \in Servers : /\ exec'[s].run = exec[s].run /\ exec'[s].pc = exec[s].pc
                             /\ exec'[s].row = exec[s].row /\ exec'[s].verdict = exec[s].verdict
      BY <2>6 DEF CancelAbort
    <3>3. \A q \in Runs : cancel'[q].pc # "none" => cancel[q].pc # "none"
      BY <2>6 DEF CancelAbort
    <3> QED BY <3>1, <3>2, <3>3
  <2>7. ASSUME NEW r \in Runs, CancelWrite(r) PROVE DeliveryInv'
    BY <2>7 DEF CancelWrite
  <2>9. ASSUME NEW s \in Servers, Crash(s) PROVE DeliveryInv'
    BY <2>9 DEF Crash, Idle, Fresh
  <2>10. ASSUME NEW s \in Servers, BlockEventLoop(s) PROVE DeliveryInv'
    BY <2>10 DEF BlockEventLoop, At
  <2>12. ASSUME NEW s \in Servers, LoadVersion(s) PROVE DeliveryInv'
    BY <2>12 DEF LoadVersion, Goto, At
  <2>13. ASSUME NEW s \in Servers, MarkRunning(s) PROVE DeliveryInv'
    BY <2>13 DEF MarkRunning, Goto, At
  <2>18. ASSUME NEW s \in Servers, FailRun(s) PROVE DeliveryInv'
    BY <2>18 DEF FailRun, Goto
  <2>19. ASSUME NEW s \in Servers, Acknowledge(s) PROVE DeliveryInv'
    BY <2>19 DEF Acknowledge, Idle, Fresh
  <2>21. ASSUME NEW s \in Servers, NEW r \in Runs, CreateReplyLost(s, r) PROVE DeliveryInv'
    BY <2>21 DEF CreateReplyLost
  <2>22. ASSUME NEW r \in Runs, CancelFault(r) PROVE DeliveryInv'
    BY <2>22 DEF CancelFault
  <2>20. CASE UNCHANGED vars
    BY <2>20 DEF vars
  <2> QED
    BY <2>1, <2>2, <2>3, <2>4, <2>5, <2>6, <2>7, <2>8, <2>9, <2>10,
       <2>11, <2>12, <2>13, <2>14, <2>15, <2>16, <2>17, <2>18, <2>19, <2>20, <2>21, <2>22
    DEF Next, WorkerStep
<1> QED
  BY <1>1, <1>2, TypeInvariant, ClaimInvariant, PTL DEF Spec

-----------------------------------------------------------------------------
(* A completed job leaves a finished run. *)

\* The failed calls that executeRun can still report on the row of run r.
Reportable(r) == faults = 0 \/ (faults = 1 /\ stalls[r] = 0)

\* An executor that may complete its job has ended the run; nobody else can have
\* reopened it, because whoever writes RUNNING holds the lock.
AckedRunEnded ==
    \A s \in Servers, r \in Runs :
      exec[s].run = r /\ exec[s].pc = "ack" /\ holder[r] = s /\ Reportable(r)
        => status[r] \in Terminal

FinishInv == AckedRunEnded /\ CompletedJobLeavesFinishedRun

\* AckedRunEnded is what makes the property inductive: an executor that completes its
\* job has written the end of the run before.
LEMMA FinishInvariant == Spec => []FinishInv
<1> USE RunsAssumption, BoundsAssumption
<1>1. Init => FinishInv
  BY DEF Init, FinishInv, AckedRunEnded, CompletedJobLeavesFinishedRun, Reportable, Terminal, Idle, Fresh
<1>2. TypeInv /\ ClaimInv /\ DeliveryInv /\ FinishInv /\ [Next]_vars => FinishInv'
  <2> SUFFICES ASSUME TypeInv, ClaimInv, DeliveryInv, FinishInv, [Next]_vars PROVE FinishInv'
    OBVIOUS
  <2>0. RowTypes /\ QueueTypes /\ ExecTypes /\ ApiTypes /\ BoundTypes /\ BusyHasRun
    BY DEF TypeInv, TypeOK, ClaimInv
  <2> USE DEF FinishInv, AckedRunEnded, CompletedJobLeavesFinishedRun, Reportable, Terminal,
          DeliveryInv, IdleHasNoRun, TriggeredFirst, StraysOfAFault, HoldsLock, OneDelivery, UnusableOnly,
          HasVerdict, FirstRows, CaughtAFault, BeforeNodes
  <2>1. ASSUME NEW s \in Servers, NEW r \in Runs, Deliver(s, r) PROVE FinishInv'
    BY <2>0, <2>1, DeliverEffect DEF BusyHasRun
  <2>2. ASSUME NEW s \in Servers, CreateStep(s) PROVE FinishInv'
    BY <2>0, <2>2, CreateStepEffect DEF BusyHasRun
  <2>3. ASSUME NEW s \in Servers, StartNodes(s) PROVE FinishInv'
    BY <2>0, <2>3, StartNodesEffect DEF BusyHasRun
  <2>4. ASSUME NEW s \in Servers, FinishNodes(s) PROVE FinishInv'
    BY <2>0, <2>4, FinishNodesEffect DEF BusyHasRun
  <2>5. ASSUME NEW s \in Servers, WriteVerdict(s) PROVE FinishInv'
    BY <2>0, <2>5, WriteVerdictEffect DEF BusyHasRun
  <2>13. ASSUME NEW s \in Servers, CallFails(s) PROVE FinishInv'
    \* Whatever is still reportable afterwards has one delivery, and it is not s that
    \* delivers it: there this was a second failure.
    <3> DEFINE r == exec[s].run
    <3>1. /\ exec'[s].run = r /\ r \in Runs /\ \A t \in Servers \ {s} : exec'[t] = exec[t]
          /\ exec'[s].pc = "ack" => exec[s].pc = "failCatch"
          /\ \A q \in Runs \ {r} : status'[q] = status[q]
          /\ UNCHANGED <<job, holder, stalls>> /\ faults \in Nat /\ faults' = faults + 1
      BY <2>0, <2>13, CallFailsEffect
    <3>2. exec[s].run = r
      OBVIOUS
    <3> HIDE DEF r
    <3>3. \A q \in Runs : Reportable(q)' => faults = 0 /\ stalls[q] = 0 /\ Reportable(q)
      BY <3>1
    <3>4. AckedRunEnded'
      <4> SUFFICES ASSUME NEW t \in Servers, NEW q \in Runs, exec'[t].run = q,
                          exec'[t].pc = "ack", holder'[q] = t, Reportable(q)'
                   PROVE  status'[q] \in Terminal
        OBVIOUS
      <4>1. faults = 0 /\ stalls[q] = 0 /\ Reportable(q)
        BY <3>3
      <4>2. t # s
        BY <3>1, <3>2, <4>1
      <4>3. q # r
        BY <3>1, <3>2, <4>1, <4>2
      <4> QED BY <3>1, <4>1, <4>2, <4>3
    <3>5. CompletedJobLeavesFinishedRun'
      <4> SUFFICES ASSUME NEW q \in Runs, job'[q] = "completed", Reportable(q)'
                   PROVE  status'[q] \in Terminal
        OBVIOUS
      <4>1. faults = 0 /\ stalls[q] = 0 /\ Reportable(q)
        BY <3>3
      <4>2. q # r
        BY <3>1, <3>2, <4>1
      <4> QED BY <3>1, <4>1, <4>2
    <3> QED BY <3>4, <3>5
  <2> USE <2>0 DEF RowTypes, QueueTypes, ExecTypes, Executions, ApiTypes, BoundTypes, BusyHasRun,
          rowVars, queueVars, apiVars, boundVars
  <2>6. ASSUME NEW s \in Servers, NEW r \in Runs, CreateRun(s, r) PROVE FinishInv'
    BY <2>6 DEF CreateRun
  <2>7. ASSUME NEW s \in Servers, NEW r \in Runs, CancelCheck(s, r) PROVE FinishInv'
    BY <2>7 DEF CancelCheck
  <2>8. ASSUME NEW r \in Runs, Enqueue(r) PROVE FinishInv'
    BY <2>8 DEF Enqueue
  <2>9. ASSUME NEW r \in Runs, EnqueueFault(r) PROVE FinishInv'
    BY <2>9 DEF EnqueueFault
  <2>10. ASSUME NEW r \in Runs, StalledCheck(r) PROVE FinishInv'
    BY <2>10 DEF StalledCheck
  <2>11. ASSUME NEW r \in Runs, CancelAbort(r) PROVE FinishInv'
    BY <2>11 DEF CancelAbort
  <2>12. ASSUME NEW r \in Runs, CancelWrite(r) PROVE FinishInv'
    BY <2>12 DEF CancelWrite
  <2>14. ASSUME NEW s \in Servers, Crash(s) PROVE FinishInv'
    BY <2>14 DEF Crash, Idle, Fresh
  <2>15. ASSUME NEW s \in Servers, BlockEventLoop(s) PROVE FinishInv'
    BY <2>15 DEF BlockEventLoop, At
  <2>16. ASSUME NEW s \in Servers, LoadVersion(s) PROVE FinishInv'
    BY <2>16 DEF LoadVersion, Goto, At
  <2>17. ASSUME NEW s \in Servers, MarkRunning(s) PROVE FinishInv'
    BY <2>17 DEF MarkRunning, Goto, At
  <2>18. ASSUME NEW s \in Servers, FailRun(s) PROVE FinishInv'
    BY <2>18 DEF FailRun, Goto
  <2>19. ASSUME NEW s \in Servers, Acknowledge(s) PROVE FinishInv'
    <3> DEFINE r == exec[s].run
    <3>1. /\ r \in Runs /\ exec[s].pc = "ack" /\ exec'[s].pc = "idle" /\ exec'[s].run = NoRun
          /\ \A t \in Servers \ {s} : exec'[t] = exec[t]
          /\ UNCHANGED <<status, stalls, faults>>
      BY <2>19 DEF Acknowledge, Idle, Fresh
    <3>2. CASE holder[r] = s /\ job[r] = "active"
      <4>1. /\ \A q \in Runs \ {r} : job'[q] = job[q]
            /\ \A q \in Runs : holder'[q] = holder[q] \/ holder'[q] = NoServer
        BY <2>19, <3>2 DEF Acknowledge
      <4>2. Reportable(r) => status[r] \in Terminal
        BY <3>1, <3>2
      <4> HIDE DEF r
      <4>3. AckedRunEnded'
        <5> SUFFICES ASSUME NEW t \in Servers, NEW q \in Runs, exec'[t].run = q,
                            exec'[t].pc = "ack", holder'[q] = t, Reportable(q)'
                     PROVE  status'[q] \in Terminal
          BY SMTT(40)
        <5>1. t # s /\ holder[q] = t /\ Reportable(q)
          BY <3>1, <4>1
        <5> QED BY <3>1, <5>1
      <4>4. CompletedJobLeavesFinishedRun'
        BY <3>1, <4>1, <4>2
      <4> QED BY <4>3, <4>4
    <3>3. CASE ~(holder[r] = s /\ job[r] = "active")
      <4>1. UNCHANGED <<job, holder>>
        BY <2>19, <3>3 DEF Acknowledge
      <4> HIDE DEF r
      <4>2. AckedRunEnded'
        BY <3>1, <4>1, SMTT(40)
      <4>3. CompletedJobLeavesFinishedRun'
        BY <3>1, <4>1
      <4> QED BY <4>2, <4>3
    <3> QED BY <3>2, <3>3
  <2>21. ASSUME NEW s \in Servers, NEW r \in Runs, CreateReplyLost(s, r) PROVE FinishInv'
    BY <2>21 DEF CreateReplyLost
  <2>22. ASSUME NEW r \in Runs, CancelFault(r) PROVE FinishInv'
    <3>1. /\ UNCHANGED <<job, holder, stalls, exec>> /\ faults \in Nat /\ faults' = faults + 1
          /\ \A q \in Runs : status'[q] \in {status[q], "CANCELLED"}
      BY <2>22 DEF CancelFault
    <3>2. \A q \in Runs : Reportable(q)' => Reportable(q)
      BY <3>1
    <3> QED BY <3>1, <3>2
  <2>20. CASE UNCHANGED vars
    BY <2>20 DEF vars
  <2> QED
    BY <2>1, <2>2, <2>3, <2>4, <2>5, <2>6, <2>7, <2>8, <2>9, <2>10,
       <2>11, <2>12, <2>13, <2>14, <2>15, <2>16, <2>17, <2>18, <2>19, <2>20, <2>21, <2>22
    DEF Next, WorkerStep
<1> QED
  BY <1>1, <1>2, TypeInvariant, ClaimInvariant, DeliveryInvariant, PTL DEF Spec

-----------------------------------------------------------------------------
(* An abort in time decides the run. *)

\* The signal goes to the process that has read the row.
AskedServer == \A r \in Runs : cancel[r].pc = "checked" => cancel[r].server \in Servers

\* Whoever is still to write the row will write CANCELLED.
AbortIsKept ==
    \A r \in Runs \ BrokenRuns :
      /\ stalls[r] = 0 /\ faults = 0
      /\ cancel[r].pc \in {"sent", "accepted"} /\ cancel[r].inTime
      => /\ job[r] \in {"active", "completed"}
         /\ job[r] = "completed" => status[r] = "CANCELLED"
         /\ \A s \in Servers : exec[s].run = r =>
              /\ exec[s].pc \in (BeforeNodes \cup {"body"}) => exec[s].aborted
              /\ exec[s].pc = "verdict" => exec[s].verdict = "CANCELLED"
              /\ exec[s].pc = "ack" => status[r] = "CANCELLED"

\* What is kept from the moment the signal is sent.
TimelyAbortInv == AskedServer /\ AbortIsKept

\* The server asked is the one whose executor the controller belongs to, and with one
\* delivery there is no other: the flag it sets decides the verdict.
LEMMA TimelyAbortInvariant == Spec => []TimelyAbortInv
<1> USE RunsAssumption, BoundsAssumption
<1>1. Init => TimelyAbortInv
  BY DEF Init, TimelyAbortInv, AskedServer, AbortIsKept, Terminal, Idle, Fresh
<1>2. TypeInv /\ ClaimInv /\ DeliveryInv /\ TimelyAbortInv /\ [Next]_vars => TimelyAbortInv'
  <2> SUFFICES ASSUME TypeInv, ClaimInv, DeliveryInv, TimelyAbortInv, [Next]_vars PROVE TimelyAbortInv'
    OBVIOUS
  <2>0. RowTypes /\ QueueTypes /\ ExecTypes /\ ApiTypes /\ BoundTypes /\ BusyHasRun
    BY DEF TypeInv, TypeOK, ClaimInv
  <2> USE DEF TimelyAbortInv, AskedServer, AbortIsKept, Terminal, DeliveryInv,
          IdleHasNoRun, TriggeredFirst, StraysOfAFault, HoldsLock, OneDelivery, UnusableOnly,
          HasVerdict, FirstRows, CaughtAFault, BeforeNodes
  <2>1. ASSUME NEW s \in Servers, NEW r \in Runs, Deliver(s, r) PROVE TimelyAbortInv'
    BY <2>0, <2>1, DeliverEffect DEF BusyHasRun
  <2>2. ASSUME NEW s \in Servers, CreateStep(s) PROVE TimelyAbortInv'
    BY <2>0, <2>2, CreateStepEffect DEF BusyHasRun
  <2>3. ASSUME NEW s \in Servers, StartNodes(s) PROVE TimelyAbortInv'
    BY <2>0, <2>3, StartNodesEffect DEF BusyHasRun
  <2>4. ASSUME NEW s \in Servers, FinishNodes(s) PROVE TimelyAbortInv'
    BY <2>0, <2>4, FinishNodesEffect DEF BusyHasRun
  <2>5. ASSUME NEW s \in Servers, WriteVerdict(s) PROVE TimelyAbortInv'
    BY <2>0, <2>5, WriteVerdictEffect DEF BusyHasRun
  <2> USE <2>0 DEF RowTypes, QueueTypes, ExecTypes, Executions, ApiTypes, BoundTypes, BusyHasRun,
          rowVars, queueVars, apiVars, boundVars
  <2>6. ASSUME NEW s \in Servers, NEW r \in Runs, CreateRun(s, r) PROVE TimelyAbortInv'
    BY <2>6 DEF CreateRun
  <2>7. ASSUME NEW s \in Servers, NEW r \in Runs, CancelCheck(s, r) PROVE TimelyAbortInv'
    BY <2>7 DEF CancelCheck
  <2>8. ASSUME NEW r \in Runs, Enqueue(r) PROVE TimelyAbortInv'
    BY <2>8, SMTT(40) DEF Enqueue
  <2>9. ASSUME NEW r \in Runs, EnqueueFault(r) PROVE TimelyAbortInv'
    BY <2>9 DEF EnqueueFault
  <2>10. ASSUME NEW r \in Runs, StalledCheck(r) PROVE TimelyAbortInv'
    BY <2>10 DEF StalledCheck
  <2>11. ASSUME NEW r \in Runs, CancelAbort(r) PROVE TimelyAbortInv'
    <3> DEFINE h == cancel[r].server
               inTime == HasController(h, r) /\ exec[h].pc \in InTry \ {"verdict", "failEarly"}
    <3>1. /\ cancel[r].pc = "checked" /\ UNCHANGED <<status, job, stalls, faults>>
          /\ cancel' = [cancel EXCEPT ![r] = [@ EXCEPT !.pc = "sent", !.inTime = inTime]]
      BY <2>11 DEF CancelAbort
    <3>2. /\ h \in Servers
          /\ inTime => exec[h].run = r /\ exec[h].pc \in BeforeNodes \cup {"body"}
                       /\ exec[h].pc # "failEarly"
      BY <3>1 DEF HasController, InTry
    <3>3. /\ \A s \in Servers : /\ exec'[s].run = exec[s].run /\ exec'[s].pc = exec[s].pc
                                /\ exec'[s].verdict = exec[s].verdict
                                /\ exec[s].aborted => exec'[s].aborted
          /\ inTime => exec'[h].aborted
      BY <2>11, <3>2 DEF CancelAbort
    <3> HIDE DEF inTime
    <3>4. /\ \A q \in Runs \ {r} : cancel'[q] = cancel[q]
          /\ cancel'[r].pc = "sent" /\ cancel'[r].inTime = inTime
      BY <3>1
    <3>5. AskedServer'
      BY <3>4
    <3>6. AbortIsKept'
      <4> SUFFICES ASSUME NEW q \in Runs \ BrokenRuns, stalls'[q] = 0, faults' = 0,
                          cancel'[q].pc \in {"sent", "accepted"}, cancel'[q].inTime
                   PROVE  /\ job'[q] \in {"active", "completed"}
                          /\ job'[q] = "completed" => status'[q] = "CANCELLED"
                          /\ \A s \in Servers : exec'[s].run = q =>
                               /\ exec'[s].pc \in (BeforeNodes \cup {"body"}) => exec'[s].aborted
                               /\ exec'[s].pc = "verdict" => exec'[s].verdict = "CANCELLED"
                               /\ exec'[s].pc = "ack" => status'[q] = "CANCELLED"
        OBVIOUS
      <4>1. CASE q = r
        <5>1. inTime /\ stalls[r] = 0
          BY <3>1, <3>4, <4>1
        <5>2. job[r] = "active" /\ \A s \in Servers : exec[s].run = r => s = h
          <6>1. exec[h].run = r
            BY <3>2, <5>1
          <6> HIDE DEF h
          <6> QED BY ONLY <3>2, <5>1, <6>1, DeliveryInv DEF DeliveryInv, OneDelivery
        <5> QED BY <3>1, <3>2, <3>3, <4>1, <5>1, <5>2
      <4>2. CASE q # r
        BY <3>1, <3>3, <3>4, <4>2
      <4> QED BY <4>1, <4>2
    <3> QED BY <3>5, <3>6
  <2>12. ASSUME NEW r \in Runs, CancelWrite(r) PROVE TimelyAbortInv'
    BY <2>12 DEF CancelWrite
  <2>13. ASSUME NEW s \in Servers, CallFails(s) PROVE TimelyAbortInv'
    BY <2>0, <2>13, CallFailsEffect DEF Controlled, InTry
  <2>14. ASSUME NEW s \in Servers, Crash(s) PROVE TimelyAbortInv'
    BY <2>14 DEF Crash, Idle, Fresh
  <2>15. ASSUME NEW s \in Servers, BlockEventLoop(s) PROVE TimelyAbortInv'
    BY <2>15 DEF BlockEventLoop, At
  <2>16. ASSUME NEW s \in Servers, LoadVersion(s) PROVE TimelyAbortInv'
    BY <2>16 DEF LoadVersion, Goto, At
  <2>17. ASSUME NEW s \in Servers, MarkRunning(s) PROVE TimelyAbortInv'
    BY <2>17 DEF MarkRunning, Goto, At
  <2>18. ASSUME NEW s \in Servers, FailRun(s) PROVE TimelyAbortInv'
    BY <2>18 DEF FailRun, Goto
  <2>19. ASSUME NEW s \in Servers, Acknowledge(s) PROVE TimelyAbortInv'
    BY <2>19 DEF Acknowledge, Idle, Fresh
  <2>21. ASSUME NEW s \in Servers, NEW r \in Runs, CreateReplyLost(s, r) PROVE TimelyAbortInv'
    BY <2>21 DEF CreateReplyLost
  <2>22. ASSUME NEW r \in Runs, CancelFault(r) PROVE TimelyAbortInv'
    BY <2>22 DEF CancelFault
  <2>20. CASE UNCHANGED vars
    BY <2>20 DEF vars
  <2> QED
    BY <2>1, <2>2, <2>3, <2>4, <2>5, <2>6, <2>7, <2>8, <2>9, <2>10,
       <2>11, <2>12, <2>13, <2>14, <2>15, <2>16, <2>17, <2>18, <2>19, <2>20, <2>21, <2>22
    DEF Next, WorkerStep
<1> QED
  BY <1>1, <1>2, TypeInvariant, ClaimInvariant, DeliveryInvariant, PTL DEF Spec

-----------------------------------------------------------------------------
(* The life of a run nobody disturbs. *)

\* With one delivery and no cancel, the row says how far its executor is; in the catch
\* block the end that was written before it may already be there.
StatusInv ==
    \A r \in Runs : Undisturbed(r) =>
      /\ job[r] \in {"none", "wait"} => status[r] \in {"none", "PENDING"}
      /\ \A s \in Servers : exec[s].run = r =>
           /\ exec[s].pc \in {"load", "failEarly", "mark"} => status[r] = "PENDING"
           /\ exec[s].pc \in {"create", "start", "body", "verdict"} => status[r] = "RUNNING"
           /\ exec[s].pc = "failCatch" => status[r] \in {"PENDING", "RUNNING", "SUCCESS", "FAILED"}
           /\ ~exec[s].aborted
           /\ exec[s].pc = "verdict" => exec[s].verdict # "CANCELLED"

\* The executor's place and the row's status agree, as long as only it writes.
LEMMA StatusInvariant == Spec => []StatusInv
<1> USE RunsAssumption, BoundsAssumption
<1>1. Init => StatusInv
  BY DEF Init, StatusInv, Undisturbed, Idle, Fresh
<1>2. TypeInv /\ ClaimInv /\ DeliveryInv /\ StatusInv /\ [Next]_vars => StatusInv'
  <2> SUFFICES ASSUME TypeInv, ClaimInv, DeliveryInv, StatusInv, [Next]_vars PROVE StatusInv'
    OBVIOUS
  <2>0. RowTypes /\ QueueTypes /\ ExecTypes /\ ApiTypes /\ BoundTypes /\ BusyHasRun
    BY DEF TypeInv, TypeOK, ClaimInv
  <2> USE DEF StatusInv, Undisturbed, DeliveryInv, IdleHasNoRun, TriggeredFirst, StraysOfAFault, HoldsLock, OneDelivery,
          UnusableOnly, HasVerdict, FirstRows, CaughtAFault, BeforeNodes
  <2>1. ASSUME NEW s \in Servers, NEW r \in Runs, Deliver(s, r) PROVE StatusInv'
    BY <2>0, <2>1, DeliverEffect DEF BusyHasRun
  <2>2. ASSUME NEW s \in Servers, CreateStep(s) PROVE StatusInv'
    BY <2>0, <2>2, CreateStepEffect DEF BusyHasRun
  <2>3. ASSUME NEW s \in Servers, StartNodes(s) PROVE StatusInv'
    BY <2>0, <2>3, StartNodesEffect DEF BusyHasRun
  <2>4. ASSUME NEW s \in Servers, FinishNodes(s) PROVE StatusInv'
    BY <2>0, <2>4, FinishNodesEffect DEF BusyHasRun
  <2>5. ASSUME NEW s \in Servers, WriteVerdict(s) PROVE StatusInv'
    BY <2>0, <2>5, WriteVerdictEffect DEF BusyHasRun
  <2>13. ASSUME NEW s \in Servers, CallFails(s) PROVE StatusInv'
    <3> DEFINE r == exec[s].run
    <3>1. /\ exec'[s].run = r /\ r \in Runs /\ exec'[s].aborted = exec[s].aborted
          /\ exec'[s].pc \in {"ack", "failCatch"} /\ exec[s].pc \in Controlled
          /\ \A t \in Servers \ {s} : exec'[t] = exec[t]
          /\ \A q \in Runs \ {r} : status'[q] = status[q]
          /\ UNCHANGED <<job, stalls, cancel>>
      BY <2>0, <2>13, CallFailsEffect
    <3>2. \/ status'[r] \in {status[r], "RUNNING", "FAILED"}
          \/ exec[s].pc = "verdict" /\ status'[r] = exec[s].verdict
      BY <2>0, <2>13, CallFailsEffect
    <3>3. exec[s].run = r
      OBVIOUS
    <3> HIDE DEF r
    <3> SUFFICES ASSUME NEW q \in Runs, Undisturbed(q)'
                 PROVE  /\ job'[q] \in {"none", "wait"} => status'[q] \in {"none", "PENDING"}
                        /\ \A t \in Servers : exec'[t].run = q =>
                             /\ exec'[t].pc \in {"load", "failEarly", "mark"} => status'[q] = "PENDING"
                             /\ exec'[t].pc \in {"create", "start", "body", "verdict"} =>
                                  status'[q] = "RUNNING"
                             /\ exec'[t].pc = "failCatch" =>
                                  status'[q] \in {"PENDING", "RUNNING", "SUCCESS", "FAILED"}
                             /\ ~exec'[t].aborted
                             /\ exec'[t].pc = "verdict" => exec'[t].verdict # "CANCELLED"
      OBVIOUS
    <3>4. CASE q = r
      <4>1. stalls[r] = 0 /\ Undisturbed(r)
        BY <3>1, <3>4
      <4>2. job[r] = "active" /\ \A t \in Servers : exec[t].run = r => t = s
        BY <3>1, <3>3, <4>1
      <4>3. /\ status[r] \in {"PENDING", "RUNNING", "SUCCESS", "FAILED"} /\ ~exec[s].aborted
            /\ exec[s].pc = "verdict" => exec[s].verdict \in {"SUCCESS", "FAILED"}
        BY <3>1, <3>3, <4>1 DEF Controlled, InTry, Terminal
      <4> QED BY <3>1, <3>2, <3>4, <4>2, <4>3
    <3>5. CASE q # r
      BY <3>1, <3>5
    <3> QED BY <3>4, <3>5
  <2> USE <2>0 DEF RowTypes, QueueTypes, ExecTypes, Executions, ApiTypes, BoundTypes, BusyHasRun,
          rowVars, queueVars, apiVars, boundVars
  <2>6. ASSUME NEW s \in Servers, NEW r \in Runs, CreateRun(s, r) PROVE StatusInv'
    BY <2>6 DEF CreateRun
  <2>7. ASSUME NEW s \in Servers, NEW r \in Runs, CancelCheck(s, r) PROVE StatusInv'
    BY <2>7 DEF CancelCheck
  <2>8. ASSUME NEW r \in Runs, Enqueue(r) PROVE StatusInv'
    BY <2>8 DEF Enqueue
  <2>9. ASSUME NEW r \in Runs, EnqueueFault(r) PROVE StatusInv'
    BY <2>9 DEF EnqueueFault
  <2>10. ASSUME NEW r \in Runs, StalledCheck(r) PROVE StatusInv'
    BY <2>10 DEF StalledCheck
  <2>11. ASSUME NEW r \in Runs, CancelAbort(r) PROVE StatusInv'
    <3>1. /\ UNCHANGED <<status, job, stalls>> /\ cancel'[r].pc = "sent"
          /\ \A q \in Runs \ {r} : cancel'[q] = cancel[q]
      BY <2>11 DEF CancelAbort
    <3>2. \A s \in Servers :
            /\ exec'[s].pc = exec[s].pc /\ exec'[s].run = exec[s].run
            /\ exec'[s].verdict = exec[s].verdict
            /\ exec[s].run # r => exec'[s].aborted = exec[s].aborted
      <4> DEFINE h == cancel[r].server
      <4>1. CASE HasController(h, r)
        <5>1. exec' = [exec EXCEPT ![h].aborted = TRUE] /\ exec[h].run = r
          BY <2>11, <4>1 DEF CancelAbort, HasController
        <5> HIDE DEF h
        <5>2. ExecTypes
          BY <2>0
        <5>3. CASE h \in Servers
          BY ONLY <5>1, <5>2, <5>3 DEF ExecTypes, Executions
        <5>4. CASE h \notin Servers
          BY ONLY <5>1, <5>2, <5>4 DEF ExecTypes
        <5> QED BY <5>3, <5>4
      <4>2. CASE ~HasController(h, r)
        BY <2>11, <4>2 DEF CancelAbort
      <4> QED BY <4>1, <4>2
    <3> QED BY <3>1, <3>2
  <2>12. ASSUME NEW r \in Runs, CancelWrite(r) PROVE StatusInv'
    BY <2>12 DEF CancelWrite
  <2>14. ASSUME NEW s \in Servers, Crash(s) PROVE StatusInv'
    BY <2>14 DEF Crash, Idle, Fresh
  <2>15. ASSUME NEW s \in Servers, BlockEventLoop(s) PROVE StatusInv'
    BY <2>15 DEF BlockEventLoop, At
  <2>16. ASSUME NEW s \in Servers, LoadVersion(s) PROVE StatusInv'
    BY <2>16 DEF LoadVersion, Goto, At
  <2>17. ASSUME NEW s \in Servers, MarkRunning(s) PROVE StatusInv'
    BY <2>17, SMTT(40) DEF MarkRunning, Goto, At
  <2>18. ASSUME NEW s \in Servers, FailRun(s) PROVE StatusInv'
    BY <2>18 DEF FailRun, Goto
  <2>19. ASSUME NEW s \in Servers, Acknowledge(s) PROVE StatusInv'
    BY <2>19 DEF Acknowledge, Idle, Fresh
  <2>21. ASSUME NEW s \in Servers, NEW r \in Runs, CreateReplyLost(s, r) PROVE StatusInv'
    BY <2>21 DEF CreateReplyLost
  <2>22. ASSUME NEW r \in Runs, CancelFault(r) PROVE StatusInv'
    BY <2>22 DEF CancelFault
  <2>20. CASE UNCHANGED vars
    BY <2>20 DEF vars
  <2> QED
    BY <2>1, <2>2, <2>3, <2>4, <2>5, <2>6, <2>7, <2>8, <2>9, <2>10,
       <2>11, <2>12, <2>13, <2>14, <2>15, <2>16, <2>17, <2>18, <2>19, <2>20, <2>21, <2>22
    DEF Next, WorkerStep
<1> QED
  BY <1>1, <1>2, TypeInvariant, ClaimInvariant, DeliveryInvariant, PTL DEF Spec

-----------------------------------------------------------------------------
(* The theorems. *)

\* executeRun never lets a job be completed with the row still PENDING or RUNNING,
\* as long as no more calls fail than its catch block can report.
THEOREM CompletedJobsAreFinished == Spec => []CompletedJobLeavesFinishedRun
  BY FinishInvariant, PTL DEF FinishInv

\* A cancel request whose signal reached the executing process before its verdict
\* leaves the run CANCELLED, in whatever order the executor and the handler write.
THEOREM TimelyAbortsDecide == Spec => []TimelyAbortDecides
<1>1. TimelyAbortInv => TimelyAbortDecides
  BY DEF TimelyAbortInv, AbortIsKept, TimelyAbortDecides
<1> QED
  BY <1>1, TimelyAbortInvariant, PTL

\* The row of a run that is delivered once and not cancelled moves only as RunRecord
\* allows: created, started, ended, each at most once.  The one step more, from
\* SUCCESS to FAILED, takes a call that was committed and whose reply was lost.
THEOREM UndisturbedRunsLiveOnce == Spec => UndisturbedRunLivesOnce
<1> USE RunsAssumption, BoundsAssumption
<1> DEFINE Allowed(r) == Lifecycle!Step(r) \/ (faults > 0 /\ Lifecycle!Overturn(r))
           A == \A r \in Runs :
                  Undisturbed(r)' => \/ status'[r] = status[r]
                                     \/ Lifecycle!Step(r)
                                     \/ faults > 0 /\ Lifecycle!Overturn(r)
<1>1. TypeInv /\ ClaimInv /\ DeliveryInv /\ StatusInv /\ [Next]_vars => [A]_vars
  <2> SUFFICES ASSUME TypeInv, ClaimInv, DeliveryInv, StatusInv, Next PROVE A
    OBVIOUS
  <2>0. RowTypes /\ QueueTypes /\ ExecTypes /\ ApiTypes /\ BusyHasRun
    BY DEF TypeInv, TypeOK, ClaimInv
  <2>row. ASSUME NEW r \in Runs, NEW v, status' = [status EXCEPT ![r] = v],
                Undisturbed(r)' => Allowed(r) \/ v = status[r]
         PROVE  A
    <3>1. \A q \in Runs \ {r} : status'[q] = status[q]
      BY <2>0, <2>row DEF RowTypes
    <3>2. v = status[r] => status'[r] = status[r]
      BY <2>0, <2>row DEF RowTypes
    <3> QED BY <2>row, <3>1, <3>2
  <2>same. ASSUME NEW r \in Runs, UNCHANGED <<stalls, cancel>>
         PROVE  Undisturbed(r)' => Undisturbed(r)
    BY <2>same DEF Undisturbed
  <2>catch. ASSUME NEW s \in Servers, exec[s].pc = "failCatch", Undisturbed(exec[s].run),
                   exec[s].run \in Runs,
                   status' = [status EXCEPT ![exec[s].run] = "FAILED"]
            PROVE  Allowed(exec[s].run) \/ "FAILED" = status[exec[s].run]
    \* Only a failed call brings the only delivery here.
    <3>1. faults > 0
      BY <2>catch DEF DeliveryInv, CaughtAFault, Undisturbed
    <3>2. status[exec[s].run] \in {"PENDING", "RUNNING", "SUCCESS", "FAILED"}
      BY <2>catch DEF StatusInv
    <3> QED
      BY <2>catch, <3>1, <3>2
      DEF Lifecycle!Step, Lifecycle!Finish, Lifecycle!Reject, Lifecycle!Overturn, Lifecycle!Move
  <2>1. CASE UNCHANGED status
    BY <2>1
  <2>2. ASSUME NEW s \in Servers, NEW r \in Runs, CreateRun(s, r) \/ CreateReplyLost(s, r) PROVE A
    <3>1. status[r] = "none" /\ status' = [status EXCEPT ![r] = "PENDING"]
      BY <2>2 DEF CreateRun, CreateReplyLost, DeliveryInv, TriggeredFirst
    <3>2. Lifecycle!Step(r)
      BY <3>1 DEF Lifecycle!Step, Lifecycle!Create, Lifecycle!Move
    <3> QED BY <2>row, <3>1, <3>2
  <2>3. ASSUME NEW r \in Runs, CancelWrite(r) \/ CancelFault(r) PROVE A
    <3>1. ~Undisturbed(r)' /\ (status' = status \/ status' = [status EXCEPT ![r] = "CANCELLED"])
      BY <2>0, <2>3 DEF CancelWrite, CancelFault, Undisturbed, ApiTypes
    <3> QED BY <2>row, <3>1
  <2>4. ASSUME NEW s \in Servers, exec[s].pc = "mark", exec[s].run \in Runs,
               status' = [status EXCEPT ![exec[s].run] = "RUNNING"], UNCHANGED <<stalls, cancel>>
        PROVE  A
    <3> DEFINE r == exec[s].run
    <3>1. Undisturbed(r) => Lifecycle!Step(r)
      BY <2>4 DEF StatusInv, Lifecycle!Step, Lifecycle!Start, Lifecycle!Move
    <3> QED BY <2>row, <2>same, <2>4, <3>1
  <2>5. ASSUME NEW s \in Servers, exec[s].pc = "verdict", exec[s].run \in Runs,
               status' = [status EXCEPT ![exec[s].run] = exec[s].verdict],
               UNCHANGED <<stalls, cancel>>
        PROVE  A
    <3> DEFINE r == exec[s].run
    <3>1. exec[s].verdict \in Terminal
      BY <2>5 DEF DeliveryInv, HasVerdict
    <3>2. Undisturbed(r) => Lifecycle!Step(r)
      BY <2>5, <3>1 DEF StatusInv, Terminal, Lifecycle!Step, Lifecycle!Finish, Lifecycle!Move
    <3> QED BY <2>row, <2>same, <2>5, <3>2
  <2>6. ASSUME NEW s \in Servers, exec[s].pc \in {"failEarly", "failCatch"}, exec[s].run \in Runs,
               status' = [status EXCEPT ![exec[s].run] = "FAILED"], UNCHANGED <<stalls, cancel>>
        PROVE  A
    <3> SUFFICES ASSUME NEW r \in Runs, r = exec[s].run PROVE A
      BY <2>6
    <3>1. CASE exec[s].pc = "failEarly"
      <4>1. Undisturbed(r) => Lifecycle!Step(r)
        BY <2>6, <3>1 DEF StatusInv, Lifecycle!Step, Lifecycle!Reject, Lifecycle!Move
      <4> QED BY <2>row, <2>same, <2>6, <4>1
    <3>2. CASE exec[s].pc = "failCatch"
      <4>1. Undisturbed(r)' => Undisturbed(r)
        BY <2>6, <2>same
      <4>2. Undisturbed(r) => Allowed(r) \/ "FAILED" = status[r]
        BY <2>6, <2>catch, <3>2
      <4> QED BY <2>row, <2>6, <4>1, <4>2
    <3> QED BY <2>6, <3>1, <3>2
  <2>7. ASSUME NEW s \in Servers, MarkRunning(s) PROVE A
    BY <2>0, <2>4, <2>7 DEF MarkRunning, At, BusyHasRun, queueVars, apiVars
  <2>8. ASSUME NEW s \in Servers, WriteVerdict(s) PROVE A
    BY <2>0, <2>5, <2>8 DEF WriteVerdict, At, BusyHasRun, queueVars, apiVars
  <2>9. ASSUME NEW s \in Servers, FailRun(s) PROVE A
    BY <2>0, <2>6, <2>9 DEF FailRun, BusyHasRun, queueVars, apiVars
  <2>10. ASSUME NEW s \in Servers, CallFails(s) PROVE A
    <3>1. /\ exec[s].run \in Runs /\ UNCHANGED <<stalls, cancel>>
      BY <2>0, <2>10, CallFailsEffect
    <3>2. \/ UNCHANGED status
          \/ /\ exec[s].pc \in {"mark", "verdict", "failEarly", "failCatch"}
             /\ status' = [status EXCEPT ![exec[s].run] = StatusWritten(s)]
      BY <2>10 DEF CallFails, ReplyLost
    <3>3. /\ exec[s].pc = "mark" => StatusWritten(s) = "RUNNING"
          /\ exec[s].pc = "verdict" => StatusWritten(s) = exec[s].verdict
          /\ exec[s].pc \in {"failEarly", "failCatch"} => StatusWritten(s) = "FAILED"
      BY DEF StatusWritten, At
    <3> QED BY <2>1, <2>4, <2>5, <2>6, <3>1, <3>2, <3>3
  <2> QED
    BY <2>1, <2>2, <2>3, <2>7, <2>8, <2>9, <2>10
    DEF Next, WorkerStep, rowVars, CancelCheck, Enqueue, EnqueueFault, StalledCheck,
        CancelAbort, Deliver, LoadVersion, CreateStep, StartNodes, FinishNodes, Acknowledge,
        Crash, BlockEventLoop
<1> QED
  BY <1>1, TypeInvariant, ClaimInvariant, DeliveryInvariant, StatusInvariant, PTL
  DEF Spec, UndisturbedRunLivesOnce
=============================================================================
