# FlowForge backend: TLA+ models

FlowForge runs user-defined workflows (directed acyclic graphs of nodes) for
organizations. This directory holds models of its core logic, the TLC
configurations that check them, and TLAPS proofs about them. `PROJECT.json`
lists the runs, maps every definition to the lines it models and lists the
hazards that the properties are for.

    tlc -workers 2 -config WorkflowRun_safety.cfg MCWorkflowRun
    tlapm WorkflowRunProofs.tla      (also WorkflowRunEndProofs, DagExecutionProofs,
                                      DagValidatorProofs, MembershipProofs,
                                      WorkflowsProofs, AuthSessionProofs, CronJobsProofs)

## 1. Inventory

Paths are relative to `src/src/modules/`.

| Component | State it keeps | Operations | Hard behaviour | What makes it correct |
|---|---|---|---|---|
| Run lifecycle: `workflow-run/`, `workflow-execution/` (service, processor), BullMQ | `workflow_runs` row, `workflow_run_steps` rows, the queue's jobs, one abort controller per run in the executing process | trigger, enqueue, execute, cancel | two servers, at-least-once delivery, crashes, lost locks, calls that reject (committed or not), cancel racing the executor | nodes start at most once; a SUCCESS was executed; a finished job leaves a finished run; an abort in time decides; a run ends once |
| Layer loop: `executeRun`, `buildLayers`, `collectReachable` | layers, results, skipped branch, abort signal, failure flag | take layer, run nodes, retry, record, verdict | concurrent nodes, executors that throw or never end, un-awaited writes, abort during a back-off | inputs ready, no work after failure, bounded work after abort, off-branch nodes never run, rows agree with the verdict, it ends if its nodes do |
| Node executors | none | one call each | timeouts, blocking scripts | (data; see section 7) |
| DAG validation: `workflow/utils/dag-validator.ts` | none | `validateDag`, `topologicalSort` | graph algorithms | accepts exactly the well-formed acyclic graphs; the order is topological |
| Workflows and versions: `workflow/`, `WorkflowAccessGuard` | workflow row (access, active version, `deletedAt`), version rows (number, `isActive`) | create, update, createVersion, activateVersion, soft delete | read-then-write transactions under READ COMMITTED, an `updateMany` whose rows are those of its start, a delete or an activation between a guard and a write | versions numbered without gaps; the pointer names an active version, the only one but for versions inserted during its activation; every edit was permitted during its request |
| Webhooks: `webhook/` | webhook row (activity, secret) | create, update, regenerate the secret, remove, incoming call | the row and the workflow are read before the run is inserted | a run executes a version that was active, for a secret that was valid, during its request |
| Cron jobs: `cron-job/` | schedule rows (expression, `nextRunAt`, activity) | create, update, remove, tick, `calculateNextRunAt` | overlapping ticks, rows read once per tick, a stop between trigger and update, a next run computed before and written later, calendar arithmetic on unchecked numbers | one run per due time unless ticks overlap, fail, or a late write brings it back; a job is served whatever the others do; the next run is the next match |
| Membership: `organization/`, guards | member rows with a role | add, update role, remove, transfer | each request acts on the role snapshot its guard took | exactly one owner |
| Sessions and accounts: `auth/`, `user/` | user rows, session rows | register, login, refresh, logout, delete account | concurrent refreshes, equal tokens within a second, deletion during a login | a used token is dead; a session moves only by its token; a deleted account has no session |
| Activity log, dashboard, Elasticsearch, AI generation, gateway, HTTP layer | rows and indexes nobody decides on | append, query, notify | none that changes other state | not modelled (section 7) |

The components meet in few places. Triggers (manual, cron, webhook) insert a
run row and then add a job to Redis. A worker, which is part of the same Nest
process as the API, takes the job, reads the version and writes the run's and
the steps' rows. A cancel request meets the executor twice: through the abort
controller, which is memory of one process, and through the row's status, which
the executor never reads before it writes. Everything else interacts through
rows only.

## 2. Modules

| Module | What it is |
|---|---|
| `WorkflowRun` | the life of runs across API, queue and workers |
| `RunRecord` | abstract: the life of a run's row as the API documents it |
| `MCWorkflowRun` | `WorkflowRun` for TLC |
| `WorkflowRunProofs` | TLAPS proofs about `WorkflowRun`: types, that nodes start at most once, and that a SUCCESS was executed |
| `WorkflowRunEndProofs` | TLAPS proofs about `WorkflowRun`: how a run ends |
| `WorkflowGraph` | the graph of a workflow definition |
| `DagExecution` | the layer loop of one `executeRun` call |
| `Dataflow` | abstract: a node begins when its predecessors are settled |
| `MCDagExecution` | the workflows TLC executes |
| `DagExecutionProofs` | TLAPS proofs about `DagExecution` |
| `DagValidator` | `validateDag`: the checks a definition passes before it becomes a version |
| `MCDagValidator` | the definitions TLC validates |
| `DagValidatorProofs` | TLAPS proofs about `DagValidator` |
| `Membership` | the members of an organization and the requests that change them |
| `MCMembership` | `Membership` for TLC: users and requests are interchangeable |
| `MembershipProofs` | TLAPS proofs about `Membership` |
| `Workflows` | a workflow, its versions and a webhook, edited and triggered by interleaved requests |
| `MCWorkflows` | `Workflows` for TLC: requests are interchangeable |
| `WorkflowsProofs` | TLAPS proofs about `Workflows` |
| `CronJobs` | the schedules, the ticks that serve them, and `calculateNextRunAt` |
| `MCCronJobs` | the expressions TLC uses |
| `CronJobsProofs` | TLAPS proofs about `CronJobs` |
| `AuthSession` | accounts, their sessions and the tokens that name them |
| `MCAuthSession` | `AuthSession` for TLC: users and requests are interchangeable |
| `AuthSessionProofs` | TLAPS proofs about `AuthSession` |

`DagExecution` refines the single pc `body` of `WorkflowRun`: there the loop is
one step that ends with or without a failed node. The abort flag is the
interface between the two: `CancelAbort` in one is `Abort` in the other. `DagExecution`
assumes finite, acyclic workflows (`WorkflowsAssumption`); that `validateDag` lets nothing
else through is a theorem about `DagValidator` (`AcceptedIsExecutable`), stated with the
same `Acyclic` of `WorkflowGraph`. `Workflows` and `CronJobs` end where a run's row is
inserted, which is where `WorkflowRun` begins (`CreateRun`). `CronJobs` sees of a workflow
whether it is live and has an active version, and lets `ChangeWorkflow` change that as the
requests of `Workflows` do.

### WorkflowRun and the code

A server is one process with an API and a worker of concurrency 1. Each `await`
on the database or on Redis ends an action, since other processes and other
requests of the same process run there.

| Action | Code |
|---|---|
| `CreateRun`, `CreateReplyLost`, `Enqueue`, `EnqueueFault` | `triggerManualRun`/`triggerRun`: insert of the row, then `queue.add`; either may reject although it took effect, `queue.add` also without |
| `Deliver`, `Acknowledge` | the BullMQ worker calls `process`; after it returns the job is completed, if the lock is still held |
| `StalledCheck` | BullMQ: an active job without a lock waits again, or fails after `maxStalledCount` |
| `LoadVersion`, `MarkRunning`, `CreateStep`, `StartNodes`, `FinishNodes`, `WriteVerdict` | the steps of `executeRun` in its order; the insert of a step row fails on the unique index `(workflowRunId, nodeId)` |
| `FailRun`, `CallFails` | `failRun`, from the early returns and from the catch block; a call that rejects, committed (`ReplyLost`) or not, or an executor that throws; an error inside the catch block is swallowed |
| `CancelCheck`, `CancelAbort`, `CancelWrite`, `CancelFault` | `cancel`: read and check, signal this process's controller, update (or its rejection) |
| `Crash`, `BlockEventLoop` | a process dies and is restarted; `execSync` blocks the event loop past the job's lock, in a node of the run or in one left over from a run that failed |

`status` and `rows` are the database, `job`, `holder` and `stalls` the queue,
`exec` the `executeRun` call of each server, `trigger` and `cancel` the requests
in flight. `strays` are the servers on which nodes go on behind an `executeRun` that a
rejected `Promise.all` has ended. `ran` is a history variable: how often a run's nodes were started.
`cancel[r].inTime` records that the signal reached a controller before the verdict
was computed.

### DagExecution and the code

`stage` is where the loop stands, `todo` what its current sequential `for` has
left; `phase`, `outcome` and `tries` are the promises of `Promise.all`. Kahn's
queue is the operator `NextLayer`: the layers do not depend on the order inside a
layer, and the definition of a layer as "every predecessor visited" is what the
in-degree counters compute. `background` holds the SKIPPED writes that
`void this.updateStep(...)` starts and nobody awaits; they land later, in any
order, or reject, which ends the process, since no handler for unhandled
rejections is installed. A call that rejects may have been committed (`RowUncertain`).
An executor may throw (`NodeThrows`): `Promise.all` rejects, the catch block writes FAILED,
and the other nodes of the layer go on, their rows RUNNING for ever. `late` is a history variable: attempts begun after the
abort.

### DagValidator and the code

`pc` is the stage of `validateDag`; each stage runs only if the ones before found no
error. `stack` holds the calls of `dfs`, each with the neighbours it has yet to look
at, so an iteration of its loop is an action: `Descend` (a white neighbour: recursive
call), `PassBlack`, `FindCycle` (a gray one: the error, and every call returns true
with its node still gray), `Leave` (return false). Kahn's algorithm is `StartSort`,
`QueueSource`, `TakeNode` and `FollowEdge`, parallel edges one by one. Neighbours,
nodes and edges are met in any order, of which the code's list order is one.

### Membership and the code

A request is a sequence of awaited database calls, one action each:
`GuardOrganization` and `GuardMember` (the two reads of `OrganizationGuard`; `RolesGuard`
looks at the second without awaiting), `ReadTarget` (the handler's own read and all it
refuses on it) and the write: `AddMember`, `UpdateRole`, `RemoveMember`,
`TransferOwnership` (one transaction, so one action) or `SoftDelete`. A row id is never
used again. `member` and `org` are the database; `req[r]` is what the request has read
(`me` and `role` are `request.organizationMember`). Two parts are history: `stale` is the
part of that which other requests have changed since, and `raced` records that a write
moved ownership although what it relied on was stale. Properties use them to say exactly
which interleavings are harmless.

### Workflows and the code

A request begins when the guards that read nothing of the workflow have let it in
(`Begin`; what `OrganizationGuard` reads is in `Membership`). Then each awaited database
call is an action:

| Action | Code |
|---|---|
| `AccessGuard` | `WorkflowAccessGuard`: for members, the read of `access` |
| `FindWorkflow`, then `UpdateWorkflow`, `SoftDelete`, `ReadLatest`, `CreateWebhook` | the service's own read (`deletedAt: null`), then the write, which goes by id |
| `ReadLatest`, `InsertVersion` | `createVersion`'s transaction: the latest number, then the insert, which the unique index on `(workflowId, version)` may reject |
| `LoadVersion`, `MatchVersions`, `DeactivateAll`, `ActivateVersion`, `Rollback` | `activateVersion`'s transaction: reads, `updateMany` (the rows it takes, then their locks), the update of the version, of the pointer and the commit |
| `FindWebhook`, `UpdateWebhook`, `RemoveWebhook` | `WebhookService` |
| `ReceiveCall`, `FindActiveVersion`, `TriggerRun` | an incoming call, or a manual trigger: the rows read, and the insert of the run |

Under READ COMMITTED `updateMany` takes its rows when it starts (`MatchVersions`) and then
waits for the locks of others (`DeactivateAll`), which it holds itself until the transaction
ends. This, and not the check of any flag, is why two activations of versions that are there
leave one active. A version inserted in between is not among the rows: the first activation
takes {v1}, `createVersion` inserts v2, another request activates v2 and commits, and the
first then activates v1, so both say `isActive`. `OneActiveVersion` claims just what is left:
of the versions there were when the activation that set the pointer began, no other is
active. `seen` and `since` are the history it needs: how many versions there were when each
activation began, and when the one that set the pointer last did.

`was` is history: the facts a request may rest on that have held at
some moment since it began. "Permitted" and "timely" mean: at some moment during the
request. More does not hold, and the model shows how: an activation that has read the
workflow before it is deleted sets the pointer afterwards, and `OneActiveVersion` claims
the pointer only of a live workflow.

### CronJobs and the code

`StartTick` is the query for due rows, with their workflows; `TriggerRow` or `TriggerFails`
the call of `triggerRun`; `ComputeNext` the calculation and `UpdateRow` or `UpdateFails` the
update of `nextRunAt`; `SkipRow` a row whose workflow is deleted or has no active version.
`triggerRun` inserts the run before `queue.add` can reject, so a trigger that fails may have
left a run (`InsertRun`). Ticks overlap: several servers run the scheduler, and a tick may
outlast the half minute. `Crash` ends one anywhere.

A request that reschedules is two actions: it computes the next run and sends its write
(`CreateJob`, `Reschedule`), which lands later (`WriteRow`), whatever ticks have done in
between; `pending` holds the writes under way. The other requests are one action each, because
what they look for first decides no more than the write by id does.

Four parts are history: `fired` (the due times for which a run was triggered), `again` (those
that had a second one without an excuse), `excused` (those whose row two ticks held at once,
that a fault kept from being rescheduled, or that a write has brought back after their run) and
`basis` (the expression that `nextRunAt` was computed from).

`NextRunAt` is `calculateNextRunAt` on a clock of half minutes: the setters of `Date` carry
over, `parseInt` makes a list or a range its first number, and a date that overflows is
invalid (the form "beyond"). The schema of the requests only counts the fields, so numbers are
negative and large, too. "0 -5 * * *" at 23:00 gives 19:00 of the same day, which is past, so
every tick finds the job due. The length of an hour and of a day are parameters. The checks of
the arithmetic (`NextRunIsAhead`, `SimpleSchedulesAreExact`) range over all expressions with
numbers up to twice an hour and a day, negative ones included, and every time of a day of four
hours of six minutes, in which every carry happens.

### AuthSession and the code

A refresh token is a JWT of a user id, an e-mail and the second of its signature, so the
model identifies it by the user and the second. Actions are the awaited calls: `FindUser`,
`SignLogin`, `InsertSession` (login, with bcrypt and the signatures between);
`VerifyToken`, `FindSession`, `SignRefresh` or `FindExpired`, `UpdateSession` or
`DeleteSession` (refresh); `Logout`, `DeleteSession`; `Register`, `CreateUser`;
`Authenticate` (`JwtStrategy`), `FindAccount`, `SoftDeleteUser`. A session is updated and
deleted by its id, whatever token it holds by then. `refresh` does not look at the account,
and the routes of `UserController` let every signed-in user name the account to delete, so
`FindAccount` takes any. History: `twins` (tokens signed twice within a second, which two
sessions may hold), `late` (the row was inserted after its account was deleted) and `stale`
(the row a request has found has changed since).

## 3. Properties and runs

| Run | Bounds | Checks |
|---|---|---|
| `WorkflowRun_safety` | 2 servers, 2 runs, 2 nodes, 1 crash, 1 blocked loop, 2 rejecting calls | `TypeOK`, `NodesRunAtMostOnce`, `SuccessWasExecuted`, `CompletedJobLeavesFinishedRun`, `TimelyAbortDecides`, `UndisturbedRunLivesOnce` |
| `WorkflowRun_liveness` | 2 servers, 1 run, 1 crash, 1 blocked loop, 1 rejecting call | `JobSettles`, `EnqueuedRunEnds` |
| `WorkflowRun_cancel_pending` | 2 servers, 1 run, no faults | finds `AcceptedCancelCancels` violated |
| `WorkflowRun_dropped` | 1 crash | finds `NoDroppedRun` violated |
| `DagExecution` | all graphs of 3 nodes (one node may have skip or retry, unless there are two conditionals), all graphs of 4 nodes, each with an edge, with at most one conditional, three 5-node graphs; 2 retries, 2 rejecting calls or throwing executors | `TypeOK`, `AbortBoundsWork`, `OffBranchNeverRuns`, `DeadBranchStaysDead`, `VerdictMatchesSteps`, `FailureStopsTheWorkflow`, `InputsAreReady`, `RunEnds` |
| `DagValidator` | all graphs of 3 nodes, of 4 nodes with at most 4 edges, lists of up to 3 ids and 3 edges with repetitions and unknown endpoints | `TypeOK`, `AcceptsTheWellFormed`, `OrderIsTopological`, `RejectionShowsACycle`, `Terminates` |
| `Membership` | 3 users, 3 requests, 4 row ids, every organization of up to 3 members | `TypeOK`, `OneOwnerUnlessRaced`, `ChangesArePermitted` |
| `Membership_owner_removed` | 2 users, 2 requests | finds `OwnerIsNotRemoved` violated |
| `Workflows` | 3 requests, 2 versions, 2 secrets, every workflow to begin with | `TypeOK`, `VersionsAreNumbered`, `OneActiveVersion`, `TriggersAreTimely`, `EditsArePermitted` |
| `CronJobs` | 2 jobs, one whose trigger always fails; 2 ticks, 4 half minutes, 1 edit, 1 fault; one expression fires every minute, one has a negative hour | `TypeOK`, `OneRunPerDueTime`, `ScheduleFollowsExpression`, `DueJobIsServed`, `NextRunIsAhead`, `SimpleSchedulesAreExact` |
| `CronJobs_next_match` | one job, the calendar of 60 and 24, "0 * * * *" | finds `NextRunIsNextMatch` violated |
| `AuthSession` | 2 users, 2 requests at once, 2 sessions, 3 seconds; an access token of 1, a refresh token and a session of 2 seconds | `TypeOK`, `DeletedAccountHasNoSession`, `UsedTokenIsDead`, `LogoutEndsTheToken`, `OnlyItsTokenMovesASession` |

Why these bounds are enough. Two servers are what a double execution, a
cancel on the wrong server and a redelivery need; a second run shows that
runs do not disturb each other through the shared worker. One crash and one
blocked loop together reach the two interruptions after which BullMQ gives a job
up (`maxStalledCount` 1), in the liveness run as well, and two rejecting calls are the call
and the report of its failure. With two nodes a redelivery meets a partial and a full set of step
rows. Every acyclic graph of three and four nodes contains chains, forks, joins,
diamonds and isolated nodes; the edges of a conditional carry every label.
For the validator, three nodes are a cycle and an edge into it from outside, four
are two cycles or a diamond. For the members, three users are an owner, an admin and a
member; three requests are one that acts and two that change its actor and its target
in between; with the fourth id a removed member can come back.
For `Workflows`, three requests are a guarded edit with the change of access and the
deletion that overlap it, or two activations and the insert of the version that one of them misses; a second version
is one to replace the active one, a second secret one to invalidate the first. In
`CronJobs` two ticks are an overlap; the second job shows what one that fails does to the
others; in four half minutes a due time comes and is served, and a write that was computed
before lands after. In
`AuthSession` a request slot is used again and again, so two slots are any number of
requests of which two overlap; in three seconds tokens are signed in the same second, in
different ones, and expire.

Fairness. `WorkflowRun` assumes weak fairness of every worker's next step, of the
stalled check and of the rest of a request that has begun: Node.js and BullMQ keep
running what is runnable. `DagExecution` assumes the same of the loop, of the back-off timers
and of the background writes. Neither assumes that nodes end: `http-call.executor.ts:81` clears
its timer when the headers are there and `:91` reads the body without a limit. The liveness
properties of both are therefore stated under `NodesEnd` (no worker waits for ever for nodes),
which is a premise of theirs and not a claim about the code; without it a worker can hang.
Crashes, rejections and new requests are not fair. `CronJobs` assumes weak fairness of each
tick: the scheduler starts one every half minute on every server, and the database and Redis
calls that it awaits return or throw; crashes, failed updates, edits, their writes and the
clock are not fair. `DagValidator` is one synchronous call, so its next step is weakly fair.

## 4. What the violations show

* `AcceptedCancelCancels`: a cancel of a PENDING run, or of a run that executes on
  another server, is answered "Run cancellation requested." and then overwritten:
  `executeRun` neither reads the row nor finds the signal.
* `NoDroppedRun`: the row and the job are written in two steps; a crash between them
  leaves a PENDING run that nothing picks up, against "without dropping workflow
  runs" (`README.md:146`).
* `OwnerIsNotRemoved`: `removeMember` reads the target's role in one call and deletes by
  id in another. A transfer of ownership to the target in between leaves an
  organization without an owner, which no route can repair, since only an owner may
  transfer.
* `NextRunIsNextMatch`: when the time put together from the fields is not in the future,
  `calculateNextRunAt` adds a day, also where the hour's field is `*`. "0 * * * *" computed at
  00:00 gives 00:00 of the next day: an hourly job runs once a day.
  `SimpleSchedulesAreExact` says for which expressions the calculation is right: a fixed
  minute of a fixed hour, and every n minutes for an n that divides the hour.

More that the models show, and that a property delimits or leaves out:

* The unique index on `(workflowRunId, nodeId)` is why `NodesRunAtMostOnce` holds; it also
  turns a redelivered run FAILED although no node failed, so an interrupted run is not resumed.
* An update of the verdict that is committed but rejects (the connection is lost with the
  reply) sends `executeRun` into its catch block, which writes FAILED over SUCCESS
  (`workflow-execution.service.ts:372`, `:387`). `UndisturbedRunLivesOnce` admits only that.
* After the validator has found one cycle, its nodes stay gray and an edge into them is reported
  as a cycle that is none ("Cycle detected: 3 → 1."); the definition is invalid all the same,
  and one of the cycles shown is real (`RejectionShowsACycle`).
* A member may edit a workflow whose access is EDITOR, which is the default, where
  `README.md:120` says of a MEMBER "Viewer. Read-only access to workflows and runs. Can manually
  trigger workflow runs but cannot modify definitions." The code and that sentence disagree.
  `EditsArePermitted` follows the code: the schema's access column and the guard that reads it.
  That it passes says that the guard's rule is kept, and not that the sentence is.

## 5. Proofs

`WorkflowRunProofs` proves for every number of runs, servers, nodes, crashes and
faults:

* `TypeCorrect`: `Spec => []TypeOK`, from the assumptions `RunsAssumption` and
  `BoundsAssumption`;
* `AtMostOnce`: `Spec => []NodesRunAtMostOnce`. The invariant is not inductive: that
  the nodes have started once does not say that nobody is about to start them. The
  strengthening `ClaimInv` says who may: an executor past its first insert
  (a *claimant*) is alone on its run, its rows are in the table and nothing has
  run. `CreateStep` makes a claimant only where the table has no row, and a
  claimant's rows keep every other executor from becoming one. `ClaimInv` itself is
  checked by TLC first;
* `SuccessesWereExecuted`: `Spec => []SuccessWasExecuted`. A SUCCESS comes from a verdict, the
  verdict from the layer loop, and the loop from the last step row; rows are never deleted and
  starts never forgotten (`ExecutedInv`), so no redelivery and no rejected call can write it
  early. That the nodes have then started once, and not twice, is `ClaimInv`.

`WorkflowRunEndProofs` proves, from the same assumptions, how a run ends. All three theorems
rest on `DeliveryInv`, what the lock of the queue makes true of the workers: an executor that
has not yet started its nodes holds its job (`HoldsLock`; unless a call has rejected, a lock is
lost to a crash, which ends the executor, or while `execSync` blocks); a run that never stalled has one executor
(`OneDelivery`) that finds no rows but its own (`FirstRows`); and who is in the catch block
without having stalled got there by a failed call (`CaughtAFault`).

* `CompletedJobsAreFinished`: every way out of `executeRun` writes the row's last status,
  unless that write is the call that fails (`AckedRunEnded`).
* `TimelyAbortsDecide`: `AbortIsKept` follows a signal that came in time from the controller
  through the verdict to the row; then the two writers agree, so their order is free.
* `UndisturbedRunsLiveOnce`: every change of the row is a step of `RunRecord` or, after a call
  that rejected, its `Overturn` of SUCCESS into FAILED. `StatusInv` says which statuses a row may
  have at each place of its one executor: in the catch block after the verdict it may have ended
  already.

`DagExecutionProofs` proves the safety of the layer loop for every set of acyclic workflows:
`TypeCorrect`, `InputsReady` (it implements `Dataflow`), `FailureStops`, `OffBranchIsIdle`,
`DeadBranchesStayDead`, `AbortIsBounded` and `RowsAgree`. Its invariant comes in parts, each
inductive relative to the ones before: `TypeInv`; `LayerInv` (the predecessors of a layer
lie in earlier layers, and what each stage has settled); `BranchInv` (a node is taken out
before it begins); `LateInv`; `FailureInv`; and `RowInv`, which says for each stage which
step rows may still be open and follows the un-awaited background writes, the calls that were
committed though they rejected, and the nodes that outlive a rejected `Promise.all`: those are
of the last layer begun (`LastLayer`), so their predecessors' rows are final.
`DeadBranchesStayDead` is about graphs rather than steps: `collectReachable` is closed under
edges and contains nothing without a cause (`ReachableClosed`, `ReachableFrom`), so a node
all of whose predecessors one conditional takes out is taken out with them
(`TakenOutIsClosed`); and with one conditional, what is skipped is exactly what that one
took out, once (`DecidedInv`). It assumes `WorkflowsAssumption` (acyclic workflows): where
it fails, `buildLayers` puts the orphans into a last layer of their own and `LayerInv` is
false.

`DagValidatorProofs` proves all safety properties of `DagValidator` for every set of
definitions. `AcceptanceIsExact`: for acceptance, the black nodes are closed under edges and
acyclic (`BlackInv`), so a search that ends without an error leaves an acyclic graph. For
rejection, until the first error the gray nodes are exactly the path of the search
(`PathInv`), so a gray neighbour closes a cycle. Both are claimed only while there is no
error; after the first one the colours mean less, and only that the definition is not
well-formed is kept, and that the first cycle shown is a cycle (`ShownInv`, theorem
`CyclesAreShown`).

`OrderIsTopologicalAlways` is about Kahn's algorithm. In `SortInv` an in-degree counts the
edges not yet followed (`DegreesCount`), a node is queued once and behind the sources of all
its edges (`QueuedInOrder`), and a node all of whose edges are followed is queued
(`FreeIsQueued`). When the queue is empty, nodes left over would be a set each of whose
members has a predecessor in the set. That there is no such set is what the search has left
behind (`SourceInv`): when a node turns black its neighbours are black, so no black node and
not the node itself leads to it, and it is a source of every set of black nodes with it.
That the order is as long as the list of nodes needs cardinalities: both are sequences
without repetition over the same set. The invariants hold in all 53,047 states of the run
`DagValidator`.

`AcceptedIsExecutable` states the same of the definition as `DagExecution` reads it, so what
the layer loop assumes of its workflows is what the validator proves of those it accepts.

`MembershipProofs` proves `TypeCorrect`, `OneOwner` and `Permission` for every number of
users, requests and rows. The heart of the invariant is `SnapshotInv`: whatever a
request has read is still true, unless its `stale` says that it changed. Each write goes
through `Commit`, which marks the others, so one lemma (`CommitKeepsSnapshots`) serves
all five. A write that is not stale then meets the rows that its checks saw, and keeps
the owner the only one.

`WorkflowsProofs` proves all five properties of `Workflows` for every number of requests,
versions and secrets: `TypeCorrect`, `Numbered`, `OneActive`, `Timely`, `Permitted`. The
invariant `IInv` says what a request in flight knows at each phase (`Knows`): a fact that has
held since it began and is in `was`, a version that is there for ever, or the rows it has
locked. What is known in this sense stays known whatever others write (`OthersKnow`), so one
lemma (`ContinueKeeps`) serves every action. That at most one old version is active
(`ActiveInv`) needs `HistoryInv`: the rows that an activation has matched include all versions
there were when it began, so whatever of them said that it was active no longer does when the
activation commits. That versions have no gap needs the number read to be at most one past the
last (`1..(q.target - 1)` is inserted); the unique index does the rest.

`AuthSessionProofs` proves all five properties of `AuthSession` for every number of users,
requests, sessions and seconds, from `AuthAssumption`: `TypeCorrect`, `DeletedHasNone`,
`UsedIsDead`, `LogoutEnds`, `OnlyItsToken`. A token that is signed once has one holder in its
life: the request that has signed it (`SignedInv`: it is in no answer yet and no other request
has it), then the session it is written to (`HolderInv`), then nobody. `FoundInv` is what a
request knows of the session it has found: the row still belongs to the token's user; it
holds the token presented unless the request is stale; and no other row holds that token.
Three lemmas carry the steps: a request goes on without a write (`AdvanceKeeps`), writes its
signed token (`CommitWrites`), or removes rows (`CommitDeletes`). The action properties follow
because a request ends by its own write only (`EndsByItsWrite`) and rows change by the writes
listed in `Writers` only.

`CronJobsProofs` proves, from `CronAssumption`, for every number of jobs, ticks and faults
and for hours and days of any length: `TypeCorrect`, `OneRun`, `ScheduleFollows`,
`NextAhead`, `ExactSchedules`. `NextAhead` rests on bounds for what each field moves a time
by if it is not negative: the minute's back by less than an hour (`MinuteMoves`), the hour's by
at most a day less an hour (`HourMoves`), so adding a day reaches the future. `OneRun` does not
need it: a due time that has had its run is either excused, or the row has left it, or the tick
that triggered it is about to update (`FiredInv`, `LeftInv`). A row comes back to such a time
only by a write, which excuses it (`Store`), and a second tick that reads the row meanwhile
finds it held (`HoldInv`), which excuses it too.

`ExactSchedules` has two halves, each for every time and not only for the sampled ones. A daily
time: a time is put together from day, hour, minute and half minute in one way only
(`PartsOf`, `PartsMakeIt`), so a match of today or tomorrow is the one that
`calculateNextRunAt` puts together (`DailyIsExact`). Every n minutes: because n divides the
hour, the next multiple is never past the next hour, and none lies between
(`PeriodicIsExact`).

Only model-checked: liveness (`JobSettles`, `EnqueuedRunEnds`, `RunEnds`, `Terminates`,
`DueJobIsServed`), which is outside the prover's reach. Every other property of a passing run
is a theorem. Of `Terminates` and `RunEnds` the part that is safety is proved too: the two
theorems `EveryStepGoesDown` say that every step of `validateDag`, and every step of the layer
loop with its retries, background writes, abort and failed calls, lowers a lexicographic
measure of natural numbers (`Rank`), so neither takes infinitely many steps. What TLC adds is
that neither stops early.

## 6. Plan

Done: the run lifecycle, the layer loop, the validator, membership, workflows with
versions and webhooks, cron jobs, sessions, and proofs of all their safety properties. Next:

1. A measure for the life of a run, too: what a delivery, a crash and a stalled check leave
   to do (`JobSettles`).
2. The composition of the layer loop with the life of a run: the pc `body` of `WorkflowRun`
   refined by `DagExecution`, and the guarantees that cross that border.
3. Membership composed with account deletion and with `WorkflowAccessGuard`.

## 7. Not modelled, and why

* What a node computes (HTTP bodies, script results, variables): data that none of
  the properties tells apart; a node succeeds or fails.
* WebSocket events, activity log, Elasticsearch: written and forgotten, nothing
  decides on them.
* The value a node reads from `context.variables` when another of its layer sets it: it
  depends on timing, and the repository promises no order within a layer.
* Dashboard and list queries: they change no state. `updateUser` and the renaming of an
  organization write texts that no other code decides on.
* The deletion of an organization: it marks only that row, so its webhooks and due cron
  jobs still trigger runs, and no code says whether they should.
* How long a node may take: the models let it take for ever, and what has to happen is claimed
  under the premise that nodes end (section 3, fairness).
* The time zone and daylight saving of cron jobs: `calculateNextRunAt` uses the server's zone,
  and the model a zone without changes.
* AI generation: a stateless external call.
* A cancel that comes after the run has ended and overwrites its status is in the
  model (`CancelWrite` has no guard on the status); no property speaks of it, as the
  repository promises nothing about that race, and `UndisturbedRunLivesOnce` is
  restricted to runs that nobody cancels.
