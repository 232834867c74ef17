------------------------------ MODULE WorkflowRun ------------------------------
(***************************************************************************)
(* The life of a workflow run across the API, the BullMQ queue and the     *)
(* workers.                                                                *)
(*                                                                         *)
(* Every server process holds one HTTP API and one BullMQ worker of        *)
(* concurrency 1 (one Nest application).  A trigger inserts a PENDING row  *)
(* and then adds a job; a worker takes the job and runs executeRun; a      *)
(* cancel request reads the row, signals the abort controller of its own   *)
(* process and then writes the row.  Every await of the code is a point    *)
(* where other processes may step, so each database or Redis call is an    *)
(* action of its own.                                                      *)
(*                                                                         *)
(* The node-level engine (layers, branches, retries) is DagExecution; here *)
(* it is the single pc "body", which ends with or without a failed node.   *)
(***************************************************************************)
EXTENDS Naturals

CONSTANTS
    Runs,             \* workflow runs
    Servers,          \* server processes (API + worker)
    NoRun, NoServer,  \* "none" values
    BrokenRuns,       \* runs whose version is missing or has no nodes
    CancellableRuns,  \* runs somebody asks to cancel (once each)
    NodeCount,        \* nodes of a workflow, hence step rows of a run
    MaxStalledCount,  \* BullMQ's maxStalledCount: redeliveries of a stalled job
    MaxCrashes,       \* bound: process crashes
    MaxBlocks,        \* bound: locks lost by an event loop that blocks
    MaxFaults         \* bound: calls that reject (database, Redis, node executors)

ASSUME RunsAssumption == NoRun \notin Runs /\ NoServer \notin Servers
ASSUME BoundsAssumption ==
    /\ NodeCount \in Nat \ {0}
    /\ MaxStalledCount \in Nat
    /\ MaxCrashes \in Nat /\ MaxBlocks \in Nat /\ MaxFaults \in Nat

VARIABLES
    status,   \* status[r]: workflow_runs.status, "none" before the row exists
    rows,     \* rows[r]: how many workflow_run_steps rows the run has
    ran,      \* ran[r]: history, how many times the run's nodes were started
    job,      \* job[r]: state of the run's BullMQ job
    holder,   \* holder[r]: the server whose worker renews the job's lock
    stalls,   \* stalls[r]: how often the job was found stalled
    exec,     \* exec[s]: the executeRun call in progress on server s
    strays,   \* servers where nodes of a failed executeRun may still run
    trigger,  \* trigger[r]: the request that creates the run
    cancel,   \* cancel[r]: the request that cancels the run
    crashes, blocks, faults   \* how much of each bound is used

rowVars    == <<status, rows, ran>>
queueVars  == <<job, holder, stalls>>
apiVars    == <<trigger, cancel>>
boundVars  == <<crashes, blocks, faults>>
vars == <<rowVars, queueVars, exec, strays, apiVars, boundVars>>

Terminal == {"SUCCESS", "FAILED", "CANCELLED"}
Statuses == {"none", "PENDING", "RUNNING"} \cup Terminal

\* Where executeRun and the worker around it can be suspended:
\*   load       reading the workflow version
\*   failEarly  failRun for an unusable version, still inside the try block
\*   mark       writing RUNNING
\*   create     inserting step row number exec[s].row + 1
\*   start      every row is in, the layer loop is about to begin
\*   body       nodes execute
\*   verdict    the verdict is computed but not written
\*   failCatch  failRun in the catch block
\*   ack        executeRun has returned, the job is not yet acknowledged
InTry       == {"load", "failEarly", "mark", "create", "start", "body", "verdict"}
Controlled  == InTry \cup {"failCatch"}   \* the abort controller is registered
Phases      == Controlled \cup {"idle", "ack"}

\* A fresh abort controller, no row inserted, no verdict.
Fresh(p, r) == [pc |-> p, run |-> r, row |-> 0, aborted |-> FALSE, verdict |-> "none"]
Idle == Fresh("idle", NoRun)
Begin(r) == Fresh("load", r)

RowTypes ==
    /\ status \in [Runs -> Statuses]
    /\ rows \in [Runs -> 0..NodeCount]
    /\ ran \in [Runs -> Nat]

QueueTypes ==
    /\ job \in [Runs -> {"none", "wait", "active", "completed", "failed"}]
    /\ holder \in [Runs -> Servers \cup {NoServer}]
    /\ stalls \in [Runs -> Nat]

Executions == [pc : Phases, run : Runs \cup {NoRun}, row : 0..NodeCount,
               aborted : BOOLEAN, verdict : Terminal \cup {"none"}]

ExecTypes == exec \in [Servers -> Executions]

StrayTypes == strays \subseteq Servers

ApiTypes ==
    /\ trigger \in [Runs -> [pc : {"none", "created", "done", "lost"},
                             server : Servers \cup {NoServer}]]
    /\ cancel \in [Runs -> [pc : {"none", "checked", "sent", "accepted",
                                  "rejected", "lost"},
                            server : Servers \cup {NoServer},
                            inTime : BOOLEAN]]

BoundTypes ==
    /\ crashes \in 0..MaxCrashes
    /\ blocks \in 0..MaxBlocks
    /\ faults \in 0..MaxFaults

TypeOK == RowTypes /\ QueueTypes /\ ExecTypes /\ StrayTypes /\ ApiTypes /\ BoundTypes

Init ==
    /\ status = [r \in Runs |-> "none"]
    /\ rows = [r \in Runs |-> 0]
    /\ ran = [r \in Runs |-> 0]
    /\ job = [r \in Runs |-> "none"]
    /\ holder = [r \in Runs |-> NoServer]
    /\ stalls = [r \in Runs |-> 0]
    /\ exec = [s \in Servers |-> Idle]
    /\ strays = {}
    /\ trigger = [r \in Runs |-> [pc |-> "none", server |-> NoServer]]
    /\ cancel = [r \in Runs |-> [pc |-> "none", server |-> NoServer, inTime |-> FALSE]]
    /\ crashes = 0 /\ blocks = 0 /\ faults = 0

-----------------------------------------------------------------------------
(* The trigger request: triggerManualRun, triggerRun. *)

\* The PENDING row is inserted; the request is suspended before queue.add.
CreateRun(s, r) ==
    /\ trigger[r].pc = "none"
    /\ trigger' = [trigger EXCEPT ![r] = [pc |-> "created", server |-> s]]
    /\ status' = [status EXCEPT ![r] = "PENDING"]
    /\ UNCHANGED <<rows, ran, queueVars, exec, cancel, strays, boundVars>>

\* The insert is committed and its reply is lost: the request answers 500 and
\* leaves the row behind.
CreateReplyLost(s, r) ==
    /\ trigger[r].pc = "none"
    /\ faults < MaxFaults
    /\ faults' = faults + 1
    /\ trigger' = [trigger EXCEPT ![r] = [pc |-> "lost", server |-> s]]
    /\ status' = [status EXCEPT ![r] = "PENDING"]
    /\ UNCHANGED <<rows, ran, queueVars, exec, strays, cancel, crashes, blocks>>

\* Redis accepts the job and the request answers.
Enqueue(r) ==
    /\ trigger[r].pc = "created"
    /\ trigger' = [trigger EXCEPT ![r].pc = "done"]
    /\ job' = [job EXCEPT ![r] = "wait"]
    /\ UNCHANGED <<rowVars, holder, stalls, exec, cancel, strays, boundVars>>

\* queue.add rejects, before or after Redis took the job: the request answers 500
\* and leaves the row behind, with or without a job.
EnqueueFault(r) ==
    /\ trigger[r].pc = "created"
    /\ faults < MaxFaults
    /\ faults' = faults + 1
    /\ trigger' = [trigger EXCEPT ![r].pc = "lost"]
    /\ \E answer \in {"none", "wait"} : job' = [job EXCEPT ![r] = answer]
    /\ UNCHANGED <<rowVars, holder, stalls, exec, strays, cancel, crashes, blocks>>

-----------------------------------------------------------------------------
(* The BullMQ worker. *)

\* An idle worker takes a waiting job; executeRun registers a new abort
\* controller and asks for the version.
Deliver(s, r) ==
    /\ exec[s].pc = "idle"
    /\ job[r] = "wait"
    /\ job' = [job EXCEPT ![r] = "active"]
    /\ holder' = [holder EXCEPT ![r] = s]
    /\ exec' = [exec EXCEPT ![s] = Begin(r)]
    /\ UNCHANGED <<rowVars, stalls, apiVars, strays, boundVars>>

\* Mutant: the job is added with attempts > 1 and a failed run is tried again.
Acknowledge_RetriesFailedRun(s) ==
    LET r == exec[s].run IN
    /\ exec[s].pc = "ack"
    /\ exec' = [exec EXCEPT ![s] = Idle]
    /\ job' = [job EXCEPT ![r] = IF status[r] = "FAILED" THEN "wait" ELSE "completed"]
    /\ holder' = [holder EXCEPT ![r] = NoServer]
    /\ UNCHANGED <<rowVars, stalls, apiVars, strays, boundVars>>

\* The processor has returned.  BullMQ completes the job only for the worker
\* that still holds its lock; otherwise the acknowledgement is refused.
Acknowledge(s) ==
    LET r == exec[s].run IN
    /\ exec[s].pc = "ack"
    /\ exec' = [exec EXCEPT ![s] = Idle]
    /\ IF holder[r] = s /\ job[r] = "active"
         THEN /\ job' = [job EXCEPT ![r] = "completed"]
              /\ holder' = [holder EXCEPT ![r] = NoServer]
         ELSE UNCHANGED <<job, holder>>
    /\ UNCHANGED <<rowVars, stalls, apiVars, strays, boundVars>>

\* Some worker's stalled check finds an active job nobody renews the lock of.
StalledCheck(r) ==
    /\ job[r] = "active"
    /\ holder[r] = NoServer
    /\ stalls' = [stalls EXCEPT ![r] = @ + 1]
    /\ job' = [job EXCEPT ![r] = IF stalls[r] < MaxStalledCount THEN "wait" ELSE "failed"]
    /\ UNCHANGED <<rowVars, holder, exec, apiVars, strays, boundVars>>

-----------------------------------------------------------------------------
(* executeRun. *)

\* The worker on s goes on, or stops, at phase p.
At(s, p)   == exec[s].pc = p
Goto(s, p) == exec' = [exec EXCEPT ![s].pc = p]

LoadVersion(s) ==
    /\ At(s, "load")
    /\ Goto(s, IF exec[s].run \in BrokenRuns THEN "failEarly" ELSE "mark")
    /\ UNCHANGED <<rowVars, queueVars, apiVars, strays, boundVars>>

MarkRunning(s) ==
    /\ At(s, "mark")
    /\ status' = [status EXCEPT ![exec[s].run] = "RUNNING"]
    /\ Goto(s, "create")
    /\ UNCHANGED <<rows, ran, queueVars, apiVars, strays, boundVars>>

\* Mutant: the step row is upserted, an existing row is no obstacle.
CreateStep_Upsert(s) ==
    LET r == exec[s].run
        next == exec[s].row + 1
    IN
    /\ At(s, "create")
    /\ rows' = [rows EXCEPT ![r] = IF @ >= next THEN @ ELSE next]
    /\ exec' = [exec EXCEPT ![s] = [@ EXCEPT
         !.row = next, !.pc = IF next = NodeCount THEN "start" ELSE "create"]]
    /\ UNCHANGED <<status, ran, queueVars, apiVars, strays, boundVars>>

\* Mutant: a redelivery that finds step rows takes the run for executed.
CreateStep_TakenForDone(s) ==
    LET r == exec[s].run
        next == exec[s].row + 1
    IN
    /\ At(s, "create")
    /\ IF rows[r] >= next
         THEN /\ exec' = [exec EXCEPT ![s] = [@ EXCEPT !.pc = "verdict", !.verdict = "SUCCESS"]]
              /\ UNCHANGED rows
         ELSE /\ rows' = [rows EXCEPT ![r] = next]
              /\ exec' = [exec EXCEPT ![s] = [@ EXCEPT
                   !.row = next, !.pc = IF next = NodeCount THEN "start" ELSE "create"]]
    /\ UNCHANGED <<status, ran, queueVars, apiVars, strays, boundVars>>

\* Mutant: the loop over the execution order runs one index too far.
CreateStep_OneTooMany(s) ==
    LET r == exec[s].run
        next == exec[s].row + 1
    IN
    /\ At(s, "create")
    /\ rows' = [rows EXCEPT ![r] = next]
    /\ exec' = [exec EXCEPT ![s] = [@ EXCEPT
         !.row = next, !.pc = IF next > NodeCount THEN "start" ELSE "create"]]
    /\ UNCHANGED <<status, ran, queueVars, apiVars, strays, boundVars>>

\* The next step row, in topological order.  (workflowRunId, nodeId) is unique:
\* a row left by an earlier delivery makes the insert throw into the catch block.
CreateStep(s) ==
    LET r == exec[s].run
        next == exec[s].row + 1
    IN
    /\ At(s, "create")
    /\ IF rows[r] >= next
         THEN /\ Goto(s, "failCatch")
              /\ UNCHANGED rows
         ELSE /\ rows' = [rows EXCEPT ![r] = next]
              /\ exec' = [exec EXCEPT ![s] = [@ EXCEPT
                   !.row = next, !.pc = IF next = NodeCount THEN "start" ELSE "create"]]
    /\ UNCHANGED <<status, ran, queueVars, apiVars, strays, boundVars>>

\* Mutant: a failed node outweighs the abort.
Verdict_FailureFirst(aborted, hasFailure) ==
    IF hasFailure THEN "FAILED" ELSE IF aborted THEN "CANCELLED" ELSE "SUCCESS"

\* The verdict of the layer loop, from the abort signal and the failed nodes.
Verdict(aborted, hasFailure) ==
    IF aborted THEN "CANCELLED" ELSE IF hasFailure THEN "FAILED" ELSE "SUCCESS"

\* The layer loop begins; it starts nothing if the signal is already set.
StartNodes(s) ==
    LET r == exec[s].run IN
    /\ At(s, "start")
    /\ IF exec[s].aborted
         THEN /\ exec' = [exec EXCEPT ![s] = [@ EXCEPT
                   !.pc = "verdict", !.verdict = Verdict(TRUE, FALSE)]]
              /\ UNCHANGED ran
         ELSE /\ Goto(s, "body")
              /\ ran' = [ran EXCEPT ![r] = @ + 1]
    /\ UNCHANGED <<status, rows, queueVars, apiVars, strays, boundVars>>

\* The layer loop ends and the verdict is computed, before the row is read
\* again and written.
FinishNodes(s) ==
    /\ At(s, "body")
    /\ \E hasFailure \in BOOLEAN :
         exec' = [exec EXCEPT ![s] = [@ EXCEPT
                   !.pc = "verdict", !.verdict = Verdict(exec[s].aborted, hasFailure)]]
    /\ UNCHANGED <<rowVars, queueVars, apiVars, strays, boundVars>>

\* The final update; the finally block then drops the controller.
WriteVerdict(s) ==
    /\ At(s, "verdict")
    /\ status' = [status EXCEPT ![exec[s].run] = exec[s].verdict]
    /\ Goto(s, "ack")
    /\ UNCHANGED <<rows, ran, queueVars, apiVars, strays, boundVars>>

\* Mutant: the catch block logs the error and leaves the row alone.
FailRun_OnlyLogs(s) ==
    /\ exec[s].pc \in {"failEarly", "failCatch"}
    /\ Goto(s, "ack")
    /\ UNCHANGED <<rowVars, queueVars, apiVars, strays, boundVars>>

\* failRun, from either place.
FailRun(s) ==
    /\ exec[s].pc \in {"failEarly", "failCatch"}
    /\ status' = [status EXCEPT ![exec[s].run] = "FAILED"]
    /\ Goto(s, "ack")
    /\ UNCHANGED <<rows, ran, queueVars, apiVars, strays, boundVars>>

\* The status that the call in progress writes into the run's row.
StatusWritten(s) ==
    CASE At(s, "mark")    -> "RUNNING"
      [] At(s, "verdict") -> exec[s].verdict
      [] OTHER            -> "FAILED"

\* The call in progress is committed although its reply never arrives.
ReplyLost(s) ==
    LET r == exec[s].run IN
    \/ /\ exec[s].pc \in {"mark", "verdict", "failEarly", "failCatch"}
       /\ status' = [status EXCEPT ![r] = StatusWritten(s)]
       /\ UNCHANGED rows
    \/ /\ At(s, "create") /\ rows[r] <= exec[s].row
       /\ rows' = [rows EXCEPT ![r] = exec[s].row + 1]
       /\ UNCHANGED status

\* A call that executeRun awaits rejects, committed or not: inside the try block
\* control goes to the catch block; an error of the catch block's own failRun is
\* swallowed.  In the body the call is a write to a step row, or an executor that
\* throws: Promise.all rejects, and the layer's other nodes go on behind it.
CallFails(s) ==
    /\ exec[s].pc \in Controlled \ {"start"}
    /\ faults < MaxFaults
    /\ faults' = faults + 1
    /\ Goto(s, IF At(s, "failCatch") THEN "ack" ELSE "failCatch")
    /\ UNCHANGED <<status, rows>> \/ ReplyLost(s)
    /\ strays' = IF At(s, "body") THEN strays \cup {s} ELSE strays
    /\ UNCHANGED <<ran, queueVars, apiVars, crashes, blocks>>

-----------------------------------------------------------------------------
(* The cancel request. *)

\* The row is read; only a PENDING or RUNNING run goes further.
CancelCheck(s, r) ==
    /\ r \in CancellableRuns
    /\ cancel[r].pc = "none"
    /\ status[r] # "none"
    /\ cancel' = [cancel EXCEPT ![r] = [@ EXCEPT
         !.server = s,
         !.pc = IF status[r] \in {"PENDING", "RUNNING"} THEN "checked" ELSE "rejected"]]
    /\ UNCHANGED <<rowVars, queueVars, exec, trigger, strays, boundVars>>

\* cancelRun of the execution service: does this process run r, and is its
\* controller registered?
HasController(s, r) == exec[s].run = r /\ exec[s].pc \in Controlled

\* The handler resumes: it signals this process's controller, if there is one,
\* and sends the update.  inTime records that the signal came before the verdict.
CancelAbort(r) ==
    LET s == cancel[r].server IN
    /\ cancel[r].pc = "checked"
    /\ cancel' = [cancel EXCEPT ![r] = [@ EXCEPT
         !.pc = "sent",
         !.inTime = HasController(s, r) /\ exec[s].pc \in InTry \ {"verdict", "failEarly"}]]
    /\ exec' = IF HasController(s, r) THEN [exec EXCEPT ![s].aborted = TRUE] ELSE exec
    /\ UNCHANGED <<rowVars, queueVars, trigger, strays, boundVars>>

\* The update sets CANCELLED, whatever the row holds by now.
CancelWrite(r) ==
    /\ cancel[r].pc = "sent"
    /\ status' = [status EXCEPT ![r] = "CANCELLED"]
    /\ cancel' = [cancel EXCEPT ![r].pc = "accepted"]
    /\ UNCHANGED <<rows, ran, queueVars, exec, trigger, strays, boundVars>>

\* The update rejects, committed or not; the request answers 500.
CancelFault(r) ==
    /\ cancel[r].pc = "sent"
    /\ faults < MaxFaults
    /\ faults' = faults + 1
    /\ cancel' = [cancel EXCEPT ![r].pc = "lost"]
    /\ status' \in {status, [status EXCEPT ![r] = "CANCELLED"]}
    /\ UNCHANGED <<rows, ran, queueVars, exec, strays, trigger, crashes, blocks>>

-----------------------------------------------------------------------------
(* The environment. *)

\* Mutant: the lock of a job has no expiry.
Crash_LockStays(s) ==
    /\ crashes < MaxCrashes
    /\ crashes' = crashes + 1
    /\ exec' = [exec EXCEPT ![s] = Idle]
    /\ UNCHANGED <<rowVars, queueVars, strays, apiVars, blocks, faults>>

\* The process on s dies and is started again: its requests and its executeRun
\* call vanish, and nobody renews its lock any more.
Crash(s) ==
    /\ crashes < MaxCrashes
    /\ crashes' = crashes + 1
    /\ exec' = [exec EXCEPT ![s] = Idle]
    /\ strays' = strays \ {s}
    /\ holder' = [r \in Runs |-> IF holder[r] = s THEN NoServer ELSE holder[r]]
    /\ trigger' = [r \in Runs |->
         IF trigger[r].pc = "created" /\ trigger[r].server = s
           THEN [trigger[r] EXCEPT !.pc = "lost"] ELSE trigger[r]]
    /\ cancel' = [r \in Runs |->
         IF cancel[r].pc \in {"checked", "sent"} /\ cancel[r].server = s
           THEN [cancel[r] EXCEPT !.pc = "lost"] ELSE cancel[r]]
    /\ UNCHANGED <<rowVars, job, stalls, blocks, faults>>

\* A script node blocks the event loop (execSync) for longer than the lock
\* lasts: the lock expires although the worker lives.  The node is one of the run
\* itself or, whatever its phase, one left behind by a run that failed before.
BlockEventLoop(s) ==
    /\ At(s, "body") \/ (s \in strays /\ ~At(s, "idle"))
    /\ holder[exec[s].run] = s
    /\ blocks < MaxBlocks
    /\ blocks' = blocks + 1
    /\ holder' = [holder EXCEPT ![exec[s].run] = NoServer]
    /\ UNCHANGED <<rowVars, job, stalls, exec, strays, apiVars, crashes, faults>>

-----------------------------------------------------------------------------
WorkerStep(s) ==
    \/ \E r \in Runs : Deliver(s, r)
    \/ LoadVersion(s) \/ MarkRunning(s) \/ CreateStep(s)
    \/ StartNodes(s) \/ WriteVerdict(s) \/ FailRun(s)
    \/ Acknowledge(s)

Next ==
    \/ \E s \in Servers, r \in Runs : \/ CreateRun(s, r) \/ CreateReplyLost(s, r)
                                     \/ CancelCheck(s, r)
    \/ \E r \in Runs : \/ Enqueue(r) \/ EnqueueFault(r) \/ StalledCheck(r)
                       \/ CancelAbort(r) \/ CancelWrite(r) \/ CancelFault(r)
    \/ \E s \in Servers : \/ WorkerStep(s) \/ FinishNodes(s)
                          \/ CallFails(s) \/ Crash(s) \/ BlockEventLoop(s)

Spec == Init /\ [][Next]_vars

\* Node.js and BullMQ keep running what is runnable: a worker's next step, the
\* stalled check, and the rest of a request once it has begun.  Nothing makes the
\* nodes end: the HTTP executor waits for the body of a response without a limit,
\* so FinishNodes has no fairness.
Fairness ==
    /\ \A s \in Servers : WF_vars(WorkerStep(s))
    /\ \A r \in Runs : WF_vars(Enqueue(r)) /\ WF_vars(StalledCheck(r))
                       /\ WF_vars(CancelAbort(r)) /\ WF_vars(CancelWrite(r))

FairSpec == Spec /\ Fairness
-----------------------------------------------------------------------------
(* Properties. *)

\* The nodes of a run (HTTP calls, scripts: effects outside the system) are
\* started at most once, however often the job is delivered, the process dies or
\* the lock is lost while the first worker still executes.
NodesRunAtMostOnce == \A r \in Runs : ran[r] <= 1

\* Why it holds: an executor that has inserted its first step row, and has not
\* yet started the nodes, is the only one of its run, and no nodes have started.
Claimant(s) == exec[s].pc = "start" \/ (exec[s].pc = "create" /\ exec[s].row > 0)

BusyHasRun ==
    \A s \in Servers : /\ exec[s].pc # "idle" => exec[s].run \in Runs
                       /\ exec[s].pc \in {"load", "mark"} => exec[s].row = 0
ClaimantHoldsRows ==
    \A s \in Servers : Claimant(s) => /\ exec[s].row > 0
                                      /\ rows[exec[s].run] >= exec[s].row
                                      /\ ran[exec[s].run] = 0
OneClaimant ==
    \A s, t \in Servers :
      Claimant(s) /\ Claimant(t) /\ exec[s].run = exec[t].run => s = t
RanWasClaimed == \A r \in Runs : ran[r] = 0 \/ (ran[r] = 1 /\ rows[r] > 0)

ClaimInv == BusyHasRun /\ ClaimantHoldsRows /\ OneClaimant /\ RanWasClaimed

\* A run reported as SUCCESS has had all its step rows inserted and its nodes started
\* exactly once, also when a redelivery found the rows of an execution that died, or
\* wrote the row while the first worker was still executing.
SuccessWasExecuted ==
    \A r \in Runs : status[r] = "SUCCESS" => rows[r] = NodeCount /\ ran[r] = 1

\* A completed job leaves a finished run: executeRun never returns with the row
\* still PENDING or RUNNING, unless more database calls failed than the one the
\* catch block can report (a redelivery uses up that one by itself).
CompletedJobLeavesFinishedRun ==
    \A r \in Runs :
      /\ job[r] = "completed"
      /\ faults = 0 \/ (faults = 1 /\ stalls[r] = 0)
      => status[r] \in Terminal

\* An abort that reached the executing process before its verdict decides the
\* run: whichever of the executor and the cancel handler writes last, the row
\* ends CANCELLED (one delivery, no failed call, a usable version).
TimelyAbortDecides ==
    \A r \in Runs \ BrokenRuns :
      /\ job[r] = "completed" /\ stalls[r] = 0 /\ faults = 0
      /\ cancel[r].pc = "accepted" /\ cancel[r].inTime
      => status[r] = "CANCELLED"

\* No worker waits for ever for nodes that never end (an HTTP response whose body
\* never arrives): the code does not limit that wait.
NodesEnd == \A s \in Servers : []<>(~At(s, "body"))

\* Every job in the queue leaves it, completed or failed, through crashes, lost locks
\* and failed calls, also after more interruptions than BullMQ redelivers: no job
\* waits for ever, unless a worker waits for ever for nodes.
JobSettles ==
    NodesEnd => \A r \in Runs : job[r] = "wait" ~> job[r] \in {"completed", "failed"}

\* A run whose job is in the queue ends and stays ended, as long as the job is
\* interrupted no more often than BullMQ redelivers it and no call fails.
EnqueuedRunEnds ==
    NodesEnd => \A r \in Runs :
      job[r] = "wait" ~> \/ [](status[r] \in Terminal)
                         \/ stalls[r] > MaxStalledCount \/ faults > 0

\* A run that is delivered once and that nobody cancels goes through the life that
\* the API documents: it starts after it is created, ends, and never moves again.
\* Only a call whose reply was lost can make it end twice: executeRun's catch block
\* then writes FAILED over a SUCCESS that was committed.  No end but SUCCESS is
\* overturned, and into nothing but FAILED.
Lifecycle == INSTANCE RunRecord
Undisturbed(r) == stalls[r] = 0 /\ cancel[r].pc \in {"none", "rejected"}
UndisturbedRunLivesOnce ==
    [][\A r \in Runs : Undisturbed(r)' =>
         \/ status'[r] = status[r]
         \/ Lifecycle!Step(r)
         \/ faults > 0 /\ Lifecycle!Overturn(r)]_vars

-----------------------------------------------------------------------------
(* What the repository says of the program and the code does not keep. *)

\* A cancel request that was answered "Run cancellation requested." leaves the
\* run CANCELLED once the worker is through with it.
AcceptedCancelCancels ==
    \A r \in Runs :
      cancel[r].pc = "accepted" /\ job[r] = "completed" /\ faults = 0 /\ stalls[r] = 0
        => status[r] = "CANCELLED"

\* A run that was triggered ends, although a process crashes.
NoDroppedRun ==
    NodesEnd => \A r \in Runs : status[r] = "PENDING" ~> status[r] \in Terminal
=============================================================================
