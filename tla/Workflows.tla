--------------------------------- MODULE Workflows ---------------------------------
(***************************************************************************)
(* One workflow of an organization, its versions and one webhook, and the  *)
(* requests that edit and trigger it: WorkflowService, WorkflowVersion-    *)
(* Service, WebhookService and the triggers of WorkflowRunService, behind  *)
(* the guards of their routes.                                             *)
(*                                                                         *)
(* A request is a sequence of awaited database calls, one action each.     *)
(* Between them other requests run; a transaction holds the locks of the   *)
(* rows it has written until it commits, and a statement that has to wait  *)
(* for a lock goes on with the rows that were there when it began (READ    *)
(* COMMITTED).                                                             *)
(*                                                                         *)
(* Left out: names, definitions (DagValidator), queries, activity events,  *)
(* and what happens to a run once its row is there (WorkflowRun).          *)
(***************************************************************************)
EXTENDS Naturals, FiniteSets

CONSTANTS
    Requests,     \* the requests
    MaxVersions,  \* bound: versions ever inserted
    MaxSecrets    \* bound: secrets ever generated for the webhook

ASSUME WorkflowsAssumption == MaxVersions \in Nat \ {0} /\ MaxSecrets \in Nat \ {0}

VARIABLES
    wf,       \* the row of the workflow: state (deletedAt), access, activeVersionId (0: null)
    version,  \* the rows of its versions, in the order of their insertion
    hook,     \* the row of its webhook
    req,      \* req[r]: where request r stands and what it has read
    run,      \* run[r]: the version that the run which r has triggered executes, or 0
    seen,     \* history: seen[r], how many versions there were when the activation r began
    since     \* history: seen of the activation that has set the pointer last

history == <<seen, since>>
vars == <<wf, version, hook, req, run, history>>

Ids     == 1..MaxVersions
Secrets == 1..MaxSecrets
Inserted == DOMAIN version

Workflow == [state : {"none", "live", "deleted"}, access : {"EDITOR", "VIEWER"}, active : 0..MaxVersions]
Version  == [number : Ids, isActive : BOOLEAN]
Webhook  == [state : {"none", "on", "off", "removed"}, secret : Secrets]

-----------------------------------------------------------------------------
(* The routes. *)

\* Routes behind WorkflowAccessGuard.
WorkflowRoutes == {"update", "delete"}
VersionRoutes  == {"version", "activate"}
Guarded == WorkflowRoutes \cup VersionRoutes

\* Routes for owners and admins only (@Roles).
WebhookRoutes == {"hookCreate", "hookUpdate", "hookRemove"}

\* "trigger" is open to every member; "incoming" is public.
Kinds == Guarded \cup WebhookRoutes \cup {"trigger", "incoming"}

\* The roles a route admits; RolesGuard treats an owner like an admin here.
MayCall(kind, role) ==
    CASE kind \in WebhookRoutes -> role = "ADMIN"
      [] kind = "incoming" -> role = "PUBLIC"
      [] OTHER -> role \in {"ADMIN", "MEMBER"}

-----------------------------------------------------------------------------
(* Requests.  was is history: the facts a request's effect may rest on that   *)
(* have held at some moment since it began.                                    *)

Facts == {<<"live", 0>>, <<"editable", 0>>} \cup ({"active"} \X Ids) \cup ({"secret"} \X Secrets)

\* The facts that concern a request of this kind and hold of the rows w and h.
Holding(kind, w, h) ==
    {f \in Facts :
       CASE f[1] = "live" -> kind \in Guarded \cup {"hookCreate"} /\ w.state = "live"
         [] f[1] = "editable" -> kind \in Guarded /\ w.state = "live" /\ w.access = "EDITOR"
         [] f[1] = "active" -> kind \in {"trigger", "incoming"} /\ w.state = "live" /\ w.active = f[2]
         [] f[1] = "secret" -> kind = "incoming" /\ h.state = "on" /\ h.secret = f[2]}

Idle == [phase |-> "idle"]
Done == [phase |-> "done"]

\* target: the version to activate, the number to insert, the version to run; presented:
\* the secret of an incoming call; rows: those that updateMany has matched.
Request ==
    {Idle, Done}
    \cup [phase : {"guard", "read", "workflow", "write", "insert", "match", "lock", "locked"}, kind : Kinds,
          role : {"ADMIN", "MEMBER", "PUBLIC"}, target : 0..(MaxVersions + 1), presented : {0} \cup Secrets,
          rows : SUBSET Ids, was : SUBSET Facts]

InFlight(x) == req[x] \notin {Idle, Done}

\* Request r goes on as q, with the rows w, v and h in the database; the other requests
\* in flight live to see them.
Continue(r, q, w, v, h) ==
    /\ wf' = w /\ version' = v /\ hook' = h
    /\ req' = [x \in Requests |->
                 IF x = r THEN q
                 ELSE IF InFlight(x) THEN [req[x] EXCEPT !.was = @ \cup Holding(req[x].kind, w, h)]
                 ELSE req[x]]

\* It goes on without having written.
Advance(r, q) == Continue(r, q, wf, version, hook) /\ UNCHANGED <<run, history>>
Refuse(r)     == Advance(r, Done)
Write(r, w, v, h) == Continue(r, Done, w, v, h) /\ UNCHANGED <<run, history>>

At(r, phase, kinds) == req[r].phase = phase /\ req[r].kind \in kinds

\* A live workflow that requests, one at a time, have edited, or none yet.
Init ==
    /\ wf \in Workflow /\ wf.state # "deleted"
    /\ \E n \in 0..MaxVersions :
         version \in {[i \in 1..n |-> [number |-> i, isActive |-> i = wf.active]]}
    /\ wf.active \in {0} \cup Inserted
    /\ hook \in Webhook /\ hook.secret = 1
    /\ wf.state = "none" => Inserted = {} /\ hook.state = "none" /\ wf.access = "EDITOR"
    /\ req = [r \in Requests |-> Idle]
    /\ run = [r \in Requests |-> 0]
    /\ seen = [r \in Requests |-> 0] /\ since = Cardinality(Inserted)

-----------------------------------------------------------------------------
(* Guards. *)

\* A request arrives and passes JwtAuthGuard, OrganizationGuardWithParam (which attach the
\* actor's role) and RolesGuard; an owner or admin passes WorkflowAccessGuard as well.
Begin(r, kind, role) ==
    /\ req[r] = Idle /\ wf.state # "none"
    /\ MayCall(kind, role)
    /\ Continue(r, [phase |-> IF kind \in Guarded /\ role = "MEMBER" THEN "guard" ELSE "read",
                    kind |-> kind, role |-> role, target |-> 0, presented |-> 0, rows |-> {},
                    was |-> Holding(kind, wf, hook)], wf, version, hook)
    /\ seen' = [seen EXCEPT ![r] = IF kind = "activate" THEN Cardinality(Inserted) ELSE @]
    /\ UNCHANGED <<run, since>>

\* Mutant: the guard does not look at access.
AccessGuard_LetsAll(r) ==
    /\ req[r].phase = "guard"
    /\ \/ wf.state = "live" /\ Advance(r, [req[r] EXCEPT !.phase = "read"])
       \/ ~(wf.state = "live") /\ Refuse(r)

\* WorkflowAccessGuard: a member passes only if the workflow is open to editors.
AccessGuard(r) ==
    /\ req[r].phase = "guard"
    /\ LET open == wf.state = "live" /\ wf.access = "EDITOR"
       IN \/ open /\ Advance(r, [req[r] EXCEPT !.phase = "read"])
          \/ ~open /\ Refuse(r)

-----------------------------------------------------------------------------
(* The workflow row. *)

\* create: one insert; nobody can name the workflow before.
CreateWorkflow(access) ==
    /\ wf.state = "none"
    /\ wf' = [state |-> "live", access |-> access, active |-> 0]
    /\ UNCHANGED <<version, hook, req, run, history>>

\* The first read of update, softDelete, createVersion and WebhookService.create.
FindWorkflow(r) ==
    /\ At(r, "read", {"update", "delete", "version", "hookCreate"})
    /\ \/ wf.state = "live" /\ Advance(r, [req[r] EXCEPT !.phase = "write"])
       \/ wf.state # "live" /\ Refuse(r)

\* update: the row is written by its id, whatever has become of it.
UpdateWorkflow(r, access) ==
    /\ At(r, "write", {"update"})
    /\ Write(r, [wf EXCEPT !.access = access], version, hook)

SoftDelete(r) ==
    /\ At(r, "write", {"delete"})
    /\ Write(r, [wf EXCEPT !.state = "deleted", !.active = 0], version, hook)

-----------------------------------------------------------------------------
(* Versions. *)

\* createVersion's transaction reads the latest number (no number is ever freed) ...
ReadLatest(r) ==
    /\ At(r, "write", {"version"})
    /\ Cardinality(Inserted) < MaxVersions
    /\ LET latest == {version[i].number : i \in Inserted} \cup {0}
       IN Advance(r, [req[r] EXCEPT !.phase = "insert",
                                    !.target = (CHOOSE n \in latest : \A m \in latest : m <= n) + 1])

\* Mutant: the unique index on (workflowId, version) is missing.
InsertVersion_NoIndex(r) ==
    /\ req[r].phase = "insert"
    /\ Cardinality(Inserted) < MaxVersions
    /\ Write(r, wf, [i \in 1..(Cardinality(Inserted) + 1) |->
                       IF i \in Inserted THEN version[i]
                       ELSE [number |-> req[r].target, isActive |-> FALSE]], hook)

\* ... and inserts the next; the unique index on (workflowId, version) rejects a number
\* that another transaction has taken since.
InsertVersion(r) ==
    /\ req[r].phase = "insert"
    /\ LET taken == \E i \in Inserted : version[i].number = req[r].target
       IN \/ ~taken /\ Write(r, wf, [i \in 1..(Cardinality(Inserted) + 1) |->
                                       IF i \in Inserted THEN version[i]
                                       ELSE [number |-> req[r].target, isActive |-> FALSE]], hook)
          \/ taken /\ Refuse(r)

\* Mutant: activateVersion does not look for the version.
LoadVersion_AnyId(r, v) ==
    /\ At(r, "read", {"activate"})
    /\ \/ wf.state = "live" /\ Advance(r, [req[r] EXCEPT !.phase = "match", !.target = v])
       \/ ~(wf.state = "live") /\ Refuse(r)

\* activateVersion's transaction reads the workflow and the version ...
LoadVersion(r, v) ==
    /\ At(r, "read", {"activate"})
    /\ LET found == wf.state = "live" /\ v \in Inserted
       IN \/ found /\ Advance(r, [req[r] EXCEPT !.phase = "match", !.target = v])
          \/ ~found /\ Refuse(r)

\* Mutant: updateMany matches only the versions that are active.
Matched_OnlyActive == {i \in Inserted : version[i].isActive}

\* The rows that updateMany matches: every version of the workflow.
Matched == Inserted

\* ... its updateMany begins, and takes the rows to set isActive to false in ...
MatchVersions(r) ==
    /\ req[r].phase = "match"
    /\ Advance(r, [req[r] EXCEPT !.phase = "lock", !.rows = Matched])

\* The rows that an open transaction of another request has written.
LockedByOthers(r) == UNION {req[x].rows : x \in {y \in Requests \ {r} : req[y].phase = "locked"}}

\* ... does so when nobody who has written one of them is left; what was inserted
\* meanwhile is not among them ...
DeactivateAll(r) ==
    /\ req[r].phase = "lock"
    /\ req[r].rows \cap LockedByOthers(r) = {}
    /\ Advance(r, [req[r] EXCEPT !.phase = "locked"])

\* ... sets it to true for the one, moves the pointer, and commits.
ActivateVersion(r) ==
    /\ req[r].phase = "locked"
    /\ req[r].target \notin LockedByOthers(r)
    /\ Continue(r, Done, [wf EXCEPT !.active = req[r].target],
                [i \in Inserted |->
                   [version[i] EXCEPT !.isActive = i = req[r].target \/ (@ /\ i \notin req[r].rows)]], hook)
    /\ since' = seen[r]
    /\ UNCHANGED <<run, seen>>

\* A transaction fails (a deadlock, its time limit, the connection) and leaves nothing.
Rollback(r) ==
    /\ req[r].phase \in {"insert", "match", "lock", "locked"}
    /\ Refuse(r)

-----------------------------------------------------------------------------
(* Webhooks and triggers. *)

CreateWebhook(r) ==
    /\ At(r, "write", {"hookCreate"})
    /\ hook.state = "none"
    /\ Write(r, wf, version, [hook EXCEPT !.state = "on"])

\* update and remove look for the row, then write it by its id ...
FindWebhook(r) ==
    /\ At(r, "read", {"hookUpdate", "hookRemove"})
    /\ \/ hook.state \in {"on", "off"} /\ Advance(r, [req[r] EXCEPT !.phase = "write"])
       \/ hook.state \in {"none", "removed"} /\ Refuse(r)

\* ... which fails if it is gone.
UpdateWebhook(r, state, secret) ==
    /\ At(r, "write", {"hookUpdate"})
    /\ secret \in {hook.secret, hook.secret + 1}
    /\ \/ hook.state # "removed" /\ Write(r, wf, version, [state |-> state, secret |-> secret])
       \/ hook.state = "removed" /\ Refuse(r)

RemoveWebhook(r) ==
    /\ At(r, "write", {"hookRemove"})
    /\ Write(r, wf, version, [hook EXCEPT !.state = "removed"])

\* handleIncomingWebhook with the secret s: the webhook's row ...
ReceiveCall(r, s) ==
    /\ At(r, "read", {"incoming"})
    /\ LET valid == hook.state = "on" /\ hook.secret = s
       IN \/ valid /\ Advance(r, [req[r] EXCEPT !.phase = "workflow", !.presented = s])
          \/ ~valid /\ Refuse(r)

\* Mutant: a workflow with an active version counts as live.
FindActiveVersion_AnyState(r) ==
    /\ At(r, "workflow", {"incoming"}) \/ At(r, "read", {"trigger"})
    /\ LET runnable == wf.active # 0
       IN \/ runnable /\ Advance(r, [req[r] EXCEPT !.phase = "write", !.target = wf.active])
          \/ ~runnable /\ Refuse(r)

\* ... then the workflow that it includes; triggerManualRun reads the same of it.
FindActiveVersion(r) ==
    /\ At(r, "workflow", {"incoming"}) \/ At(r, "read", {"trigger"})
    /\ LET runnable == wf.state = "live" /\ wf.active # 0
       IN \/ runnable /\ Advance(r, [req[r] EXCEPT !.phase = "write", !.target = wf.active])
          \/ ~runnable /\ Refuse(r)

\* The run's row is inserted with the version that was read.
TriggerRun(r) ==
    /\ At(r, "write", {"trigger", "incoming"})
    /\ run' = [run EXCEPT ![r] = req[r].target]
    /\ Continue(r, Done, wf, version, hook)
    /\ UNCHANGED history

-----------------------------------------------------------------------------
EditStep(r) ==
    \/ AccessGuard(r) \/ FindWorkflow(r) \/ SoftDelete(r)
    \/ \E access \in {"EDITOR", "VIEWER"} : UpdateWorkflow(r, access)
    \/ ReadLatest(r) \/ InsertVersion(r)
    \/ \E v \in Ids : LoadVersion(r, v)
    \/ MatchVersions(r) \/ DeactivateAll(r) \/ ActivateVersion(r) \/ Rollback(r)

HookStep(r) ==
    \/ CreateWebhook(r) \/ FindWebhook(r) \/ RemoveWebhook(r)
    \/ \E state \in {"on", "off"}, secret \in Secrets : UpdateWebhook(r, state, secret)

TriggerStep(r) ==
    \/ \E s \in Secrets : ReceiveCall(r, s)
    \/ FindActiveVersion(r) \/ TriggerRun(r)

Next ==
    \/ \E access \in {"EDITOR", "VIEWER"} : CreateWorkflow(access)
    \/ \E r \in Requests :
         \/ \E kind \in Kinds, role \in {"ADMIN", "MEMBER", "PUBLIC"} : Begin(r, kind, role)
         \/ EditStep(r) \/ HookStep(r) \/ TriggerStep(r)

Spec == Init /\ [][Next]_vars

-----------------------------------------------------------------------------
(* Properties. *)

\* Types of the variables; versions have the ids 1, 2, ... in the order of insertion,
\* and the workflow's pointer is null or one of them.
TypeOK ==
    /\ wf \in Workflow /\ hook \in Webhook
    /\ \E n \in 0..MaxVersions : Inserted = 1..n
    /\ \A i \in Inserted : version[i] \in Version
    /\ wf.active \in {0} \cup Inserted
    /\ req \in [Requests -> Request]
    /\ run \in [Requests -> 0..MaxVersions]
    /\ seen \in [Requests -> 0..MaxVersions] /\ since \in 0..MaxVersions

\* However createVersion calls overlap, the versions of a workflow are numbered 1, 2, 3, ...
\* in the order of their insertion, without a gap and without a number given twice.
VersionsAreNumbered == \A i \in Inserted : version[i].number = i

\* However activations, deletions and new versions overlap, the version that the pointer
\* names says that it is active, and of the versions there were when the activation that
\* set the pointer began it is the only one: deactivating "all" misses no other than
\* those inserted while it was under way.  (Those it does miss: one of them that another
\* request activates meanwhile goes on saying that it is active.)
OneActiveVersion ==
    LET says == {i \in Inserted : version[i].isActive}
        old  == {i \in says : i <= since}
    IN /\ Cardinality(old) <= 1
       /\ wf.active # 0 => wf.active \in says
       /\ wf.state = "live" => old \subseteq {wf.active}

\* A run executes a version that was the active one of the live workflow at some moment
\* during the request that triggered it, and a webhook's call was made with the secret of
\* an enabled webhook at some moment of it: a workflow deleted, a version replaced, a
\* webhook disabled or a secret regenerated before the request triggers nothing, even
\* where an activation that overlapped the deletion has left the pointer set.
TriggersAreTimely ==
    [][\A r \in Requests : run'[r] # run[r] =>
         /\ <<"active", run'[r]>> \in req[r].was
         /\ req[r].kind = "incoming" => <<"secret", req[r].presented>> \in req[r].was]_vars

\* A change of the workflow or of its versions is the end of a request during which the
\* workflow was live; a member's, of one during which it was open to members too.  (That
\* is what WorkflowAccessGuard and its e2e tests enforce: a member edits a workflow whose
\* access is EDITOR.  The README of the repository says less, that a MEMBER "cannot modify
\* definitions", which the code does not do.)
EditsArePermitted ==
    [][wf.state # "none" /\ <<wf, version>>' # <<wf, version>> =>
         \E r \in Requests :
           /\ InFlight(r) /\ req'[r] = Done
           /\ <<"live", 0>> \in req[r].was
           /\ req[r].role # "ADMIN" => <<"editable", 0>> \in req[r].was]_vars
=============================================================================
