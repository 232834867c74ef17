------------------------------- MODULE Membership -------------------------------
(***************************************************************************)
(* The members of one organization and the requests that change them:      *)
(* OrganizationGuard and RolesGuard, then the handlers of                  *)
(* MembershipService and the soft delete of OrganizationService.           *)
(*                                                                         *)
(* A request makes up to four database calls, each awaited: the guard reads *)
(* the organization and the actor's row, the handler reads its target, and *)
(* one statement (or one transaction of two) writes.  Between them other    *)
(* requests run.  The handler decides on what the guard and it have read.   *)
(*                                                                         *)
(* Left out: names, paging, activity events, and requests that only read.  *)
(***************************************************************************)
EXTENDS Naturals, FiniteSets

CONSTANTS
    Users,     \* registered users
    Requests,  \* the requests
    MaxRows,   \* bound: rows ever inserted into organization_members
    NoRow      \* no such row

ASSUME MembershipAssumption ==
    /\ MaxRows \in Nat \ {0}
    /\ NoRow \notin [user : Users, role : {"OWNER", "ADMIN", "MEMBER"}]

VARIABLES
    org,     \* "live" or "deleted" (deletedAt is set)
    member,  \* member[i]: the row with id i
    ids,     \* the ids in use or used before are 1..ids
    req,     \* req[r]: where request r stands and what it has read
    raced    \* history: a write that concerns ownership came from a stale request

vars == <<org, member, ids, req, raced>>

Roles == {"OWNER", "ADMIN", "MEMBER"}
Rows  == 1..MaxRows
Kinds == {"add", "role", "remove", "transfer", "delete"}

Occupied == {i \in Rows : member[i] # NoRow}
RowsOf(u) == {i \in Occupied : member[i].user = u}
Owners == {i \in Occupied : member[i].role = "OWNER"}

\* The roles that the @Roles decorator of each route admits.
Admitted == [add |-> {"OWNER", "ADMIN"}, role |-> {"OWNER"}, remove |-> Roles,
             transfer |-> {"OWNER"}, delete |-> {"OWNER"}]

\* me and role: what the guard attaches to the request; target: the user to add, or the
\* id of a row; stale (history): what has changed since the request read it.
Idle == [phase |-> "idle"]
Done == [phase |-> "done"]
Facts == {"actor", "target", "organization"}
Request ==
    {Idle, Done}
    \cup [phase : {"member"}, stale : SUBSET Facts]
    \cup [phase : {"read"}, kind : Kinds, actor : Users, me : Rows, role : Roles,
          stale : SUBSET Facts]
    \cup [phase : {"write"}, kind : Kinds, actor : Users, me : Rows,
          target : Users \cup 0..MaxRows, stale : SUBSET Facts]

\* An organization that create has made and that requests, one at a time, have filled.
Init ==
    /\ org = "live"
    /\ ids \in Rows
    /\ member \in [Rows -> [user : Users, role : Roles] \cup {NoRow}]
    /\ Occupied = 1..ids
    /\ \A i, j \in Occupied : member[i].user = member[j].user => i = j
    /\ Cardinality(Owners) = 1
    /\ req = [r \in Requests |-> Idle]
    /\ raced = FALSE

-----------------------------------------------------------------------------
(* The guards. *)

\* The organization is there; a request to another gets no further.
GuardOrganization(r) ==
    /\ req[r] = Idle
    /\ org = "live"
    /\ req' = [req EXCEPT ![r] = [phase |-> "member", stale |-> {}]]
    /\ UNCHANGED <<org, member, ids, raced>>

\* The actor u is a member with a role that the route admits.
GuardMember(r, kind, u) ==
    /\ req[r].phase = "member"
    /\ LET mine == {i \in RowsOf(u) : member[i].role \in Admitted[kind]}
       IN \/ /\ mine = {}
             /\ req' = [req EXCEPT ![r] = Done]
          \/ \E i \in mine :
               req' = [req EXCEPT ![r] = [phase |-> "read", kind |-> kind, actor |-> u, me |-> i,
                                          role |-> member[i].role, stale |-> req[r].stale]]
    /\ UNCHANGED <<org, member, ids, raced>>

-----------------------------------------------------------------------------
(* The handlers: what each reads and refuses. *)

\* Mutant: removeMember does not look at the target's role for an admin.
MayRemove_AnyForAdmin(q, t) ==
    /\ t.role # "OWNER"
    /\ q.actor = t.user \/ q.role # "MEMBER"

\* removeMember: nobody removes an owner, everybody else may leave, an admin removes
\* only members, a member nobody.
MayRemove(q, t) ==
    /\ t.role # "OWNER"
    /\ \/ q.actor = t.user
       \/ /\ q.role = "ADMIN" => t.role = "MEMBER"
          /\ q.role # "MEMBER"

\* Whether the handler goes on to its write, on what it now reads of its target t.
GoesOn(q, t) ==
    \/ q.kind = "add" /\ RowsOf(t) = {}
    \/ q.kind = "delete" /\ org = "live"
    \/ /\ q.kind \in {"role", "remove", "transfer"}
       /\ t \in Occupied
       /\ IF q.kind = "remove" THEN MayRemove(q, member[t]) ELSE member[t].role # "OWNER"

ReadTarget(r, t) ==
    /\ req[r].phase = "read"
    /\ req' = [req EXCEPT ![r] =
         IF GoesOn(@, t)
         THEN [phase |-> "write", kind |-> @.kind, actor |-> @.actor, me |-> @.me,
               target |-> t, stale |-> @.stale]
         ELSE Done]
    /\ UNCHANGED <<org, member, ids, raced>>

-----------------------------------------------------------------------------
(* The writes. *)

\* What request q has read and the change of these rows and of the organization outdates.
Outdated(q, rows, orgChanges) ==
    {x \in Facts :
       CASE x = "actor" -> q.phase \in {"read", "write"} /\ q.me \in rows
         [] x = "target" -> q.phase = "write" /\ q.target \in rows
         [] x = "organization" -> orgChanges}

\* The write of q moves ownership by what it read: it demotes or removes a row it saw
\* as no owner's, or gives away the ownership it saw its actor have.
MovesOwnershipBlindly(q) ==
    \/ q.kind \in {"role", "remove"} /\ "target" \in q.stale
    \/ q.kind = "transfer" /\ "actor" \in q.stale

\* Request r ends with the rows in table and the organization in state; what the other
\* requests in flight have read may be stale from now on.
Commit(r, table, state) ==
    LET changed == {i \in Rows : table[i] # member[i]} IN
    /\ member' = table
    /\ org' = state
    /\ req' = [x \in Requests |->
                 IF x = r THEN Done
                 ELSE IF req[x].phase \in {"idle", "done"} THEN req[x]
                 ELSE [req[x] EXCEPT !.stale = @ \cup Outdated(req[x], changed, state # org)]]
    /\ raced' = (raced \/ (changed # {} /\ MovesOwnershipBlindly(req[r])))

\* A write that the database rejects (a row that is gone, a second row for a user)
\* makes the request fail.
Reject(r) ==
    /\ req' = [req EXCEPT ![r] = Done]
    /\ UNCHANGED <<org, member, ids, raced>>

\* Mutant: no unique index on (organization, user).
AddMember_NoIndex(r) ==
    /\ req[r].phase = "write" /\ req[r].kind = "add"
    /\ ids < MaxRows
    /\ ids' = ids + 1
    /\ Commit(r, [member EXCEPT ![ids + 1] = [user |-> req[r].target, role |-> "MEMBER"]], org)

AddMember(r) ==
    /\ req[r].phase = "write" /\ req[r].kind = "add"
    /\ \/ /\ RowsOf(req[r].target) = {}
          /\ ids < MaxRows
          /\ ids' = ids + 1
          /\ Commit(r, [member EXCEPT ![ids + 1] = [user |-> req[r].target, role |-> "MEMBER"]], org)
       \/ RowsOf(req[r].target) # {} /\ Reject(r)

UpdateRole(r, role) ==
    /\ req[r].phase = "write" /\ req[r].kind = "role"
    /\ \/ /\ req[r].target \in Occupied
          /\ Commit(r, [member EXCEPT ![req[r].target].role = role], org)
          /\ UNCHANGED ids
       \/ req[r].target \notin Occupied /\ Reject(r)

RemoveMember(r) ==
    /\ req[r].phase = "write" /\ req[r].kind = "remove"
    /\ \/ /\ req[r].target \in Occupied
          /\ Commit(r, [member EXCEPT ![req[r].target] = NoRow], org)
          /\ UNCHANGED ids
       \/ req[r].target \notin Occupied /\ Reject(r)

\* Mutant: the previous owner keeps the role.
TransferOwnership_KeepsBoth(r) ==
    /\ req[r].phase = "write" /\ req[r].kind = "transfer"
    /\ \/ /\ req[r].target \in Occupied /\ req[r].me \in Occupied
          /\ Commit(r, [member EXCEPT ![req[r].target].role = "OWNER"], org)
          /\ UNCHANGED ids
       \/ {req[r].target, req[r].me} \ Occupied # {} /\ Reject(r)

\* One transaction: the target becomes owner, then the actor's row an admin's.
TransferOwnership(r) ==
    /\ req[r].phase = "write" /\ req[r].kind = "transfer"
    /\ \/ /\ req[r].target \in Occupied /\ req[r].me \in Occupied
          /\ Commit(r, [member EXCEPT ![req[r].target].role = "OWNER", ![req[r].me].role = "ADMIN"], org)
          /\ UNCHANGED ids
       \/ {req[r].target, req[r].me} \ Occupied # {} /\ Reject(r)

SoftDelete(r) ==
    /\ req[r].phase = "write" /\ req[r].kind = "delete"
    /\ Commit(r, member, "deleted")
    /\ UNCHANGED ids

-----------------------------------------------------------------------------
Targets(kind) == CASE kind = "add" -> Users
                   [] kind = "delete" -> {0}
                   [] OTHER -> Rows

Step(r) ==
    \/ GuardOrganization(r)
    \/ \E kind \in Kinds, u \in Users : GuardMember(r, kind, u)
    \/ req[r].phase = "read" /\ \E t \in Targets(req[r].kind) : ReadTarget(r, t)
    \/ AddMember(r) \/ RemoveMember(r) \/ TransferOwnership(r) \/ SoftDelete(r)
    \/ \E role \in {"ADMIN", "MEMBER"} : UpdateRole(r, role)

Next == \E r \in Requests : Step(r)

Spec == Init /\ [][Next]_vars

-----------------------------------------------------------------------------
(* Properties. *)

\* Types of the variables; a user has one row at most (the unique index).
TypeOK ==
    /\ org \in {"live", "deleted"} /\ raced \in BOOLEAN
    /\ ids \in Rows /\ Occupied \subseteq 1..ids
    /\ member \in [Rows -> [user : Users, role : Roles] \cup {NoRow}]
    /\ \A u \in Users : Cardinality(RowsOf(u)) <= 1
    /\ req \in [Requests -> Request]

\* An organization has exactly one owner as long as no row changed between a request's
\* check that it is no owner's and its demotion or removal, and no actor lost ownership
\* before transferring it.  Nothing else (a late add, a member who leaves, a transfer to
\* a row that changes, a deleted organization) can give it two owners or none.
OneOwnerUnlessRaced == raced \/ Cardinality(Owners) = 1

\* What a request may do, by the roles that hold when it does it.
Permitted(q) ==
    /\ org = "live"
    /\ RowsOf(q.actor) # {}
    /\ LET mine == member[CHOOSE i \in RowsOf(q.actor) : TRUE].role
           theirs == member[q.target].role
       IN CASE q.kind = "add" -> mine \in {"OWNER", "ADMIN"}
            [] q.kind \in {"role", "transfer"} -> mine = "OWNER" /\ theirs # "OWNER"
            [] q.kind = "remove" -> \/ theirs # "OWNER" /\ q.actor = member[q.target].user
                                    \/ theirs # "OWNER" /\ mine = "OWNER"
                                    \/ theirs = "MEMBER" /\ mine = "ADMIN"
            [] q.kind = "delete" -> mine = "OWNER"

\* A change of the members or of the organization is made by a request that is
\* permitted it by the roles of that moment, unless what it read has changed since.
\* So the guard's snapshot is as good as a check at the write for every request that
\* nobody interferes with.
ChangesArePermitted ==
    [][<<org, member>>' # <<org, member>> =>
         \E r \in Requests : /\ req[r].phase = "write" /\ req'[r] = Done
                             /\ req[r].stale # {} \/ Permitted(req[r])]_vars

-----------------------------------------------------------------------------
(* What the code's comments and tests say and overlapping requests break. *)

\* "OWNER cannot be removed": the row of an owner is not deleted.
OwnerIsNotRemoved ==
    [][\A i \in Owners : member'[i] # NoRow]_vars
=============================================================================
