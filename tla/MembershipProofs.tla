---------------------------- MODULE MembershipProofs ----------------------------
(***************************************************************************)
(* Proofs about Membership, for any number of users, requests and rows.    *)
(*                                                                         *)
(* What a request has read is still true unless its history says that it   *)
(* has changed (SnapshotInv): Commit marks every request that has read what *)
(* it changes.  The theorems follow from that and from what the guards and  *)
(* handlers check.                                                          *)
(***************************************************************************)
EXTENDS Membership, FiniteSetTheorems, TLAPS

Row == [user : Users, role : Roles]
Table == [Rows -> Row \cup {NoRow}]

\* Types; TypeOK says the same of the rows of a user by counting them.
TypeInv ==
    /\ org \in {"live", "deleted"} /\ raced \in BOOLEAN
    /\ ids \in Rows /\ Occupied \subseteq 1..ids
    /\ member \in Table
    /\ \A i, j \in Occupied : member[i].user = member[j].user => i = j
    /\ req \in [Requests -> Request]

InFlight(q) == q.phase \in {"member", "read", "write"}
Targeted(q) == q.phase = "write" /\ q.kind \in {"role", "remove", "transfer"}

\* What request q has read and nobody has changed since.
ActorFact(q) ==
    q.phase \in {"read", "write"} /\ "actor" \notin q.stale =>
      /\ q.me \in Occupied /\ member[q.me].user = q.actor
      /\ member[q.me].role \in Admitted[q.kind]
      /\ q.phase = "read" => member[q.me].role = q.role
TargetFact(q) ==
    /\ q.phase = "write" /\ q.kind = "add" => q.target \in Users
    /\ Targeted(q) =>
         /\ q.target \in Rows
         /\ "target" \notin q.stale => q.target \in Occupied /\ member[q.target].role # "OWNER"
PairFact(q) ==
    Targeted(q) /\ "actor" \notin q.stale =>
      /\ q.kind = "transfer" => q.target # q.me
      /\ q.kind = "remove" /\ "target" \notin q.stale =>
           \/ member[q.target].user = q.actor
           \/ member[q.me].role = "OWNER"
           \/ member[q.me].role = "ADMIN" /\ member[q.target].role = "MEMBER"
OrganizationFact(q) ==
    InFlight(q) /\ "organization" \notin q.stale => org = "live"

Snapshot(q) == ActorFact(q) /\ TargetFact(q) /\ PairFact(q) /\ OrganizationFact(q)
SnapshotInv == \A r \in Requests : Snapshot(req[r])

OwnerInv == raced \/ \E i \in Rows : Owners = {i}

IInv == TypeInv /\ SnapshotInv /\ OwnerInv

-----------------------------------------------------------------------------
(* Lemmas about requests. *)

\* The fields of a request in flight.
LEMMA RequestFields ==
    ASSUME NEW q \in Request
    PROVE  /\ q.phase \in {"idle", "member", "read", "write", "done"}
           /\ InFlight(q) => q.stale \subseteq Facts
           /\ q.phase \in {"read", "write"} =>
                q.kind \in Kinds /\ q.actor \in Users /\ q.me \in Rows
           /\ q.phase = "read" => q.role \in Roles
           /\ q.phase = "write" => q.target \in Users \cup 0..MaxRows
BY DEF Request, Idle, Done, InFlight

\* A request whose stale facts grow keeps its type and its other fields.
LEMMA StaleGrows ==
    ASSUME NEW q \in Request, InFlight(q), NEW more \in SUBSET Facts
    PROVE  LET p == [q EXCEPT !.stale = @ \cup more] IN
           /\ p \in Request /\ p.phase = q.phase /\ p.stale = q.stale \cup more
           /\ p.phase \in {"read", "write"} =>
                p.kind = q.kind /\ p.actor = q.actor /\ p.me = q.me
           /\ p.phase = "read" => p.role = q.role
           /\ p.phase = "write" => p.target = q.target
<1> DEFINE p == [q EXCEPT !.stale = @ \cup more]
<1>1. CASE q \in [phase : {"member"}, stale : SUBSET Facts]
  <2>1. p \in [phase : {"member"}, stale : SUBSET Facts]  BY <1>1
  <2> QED BY <1>1, <2>1 DEF Request
<1>2. CASE q \in [phase : {"read"}, kind : Kinds, actor : Users, me : Rows, role : Roles,
                  stale : SUBSET Facts]
  <2>1. p \in [phase : {"read"}, kind : Kinds, actor : Users, me : Rows, role : Roles,
               stale : SUBSET Facts]
    BY <1>2
  <2> QED BY <1>2, <2>1 DEF Request
<1>3. CASE q \in [phase : {"write"}, kind : Kinds, actor : Users, me : Rows,
                  target : Users \cup 0..MaxRows, stale : SUBSET Facts]
  <2>1. p \in [phase : {"write"}, kind : Kinds, actor : Users, me : Rows,
               target : Users \cup 0..MaxRows, stale : SUBSET Facts]
    BY <1>3
  <2> QED BY <1>3, <2>1 DEF Request
<1>4. CASE q \in {Idle, Done}
  BY <1>4 DEF Idle, Done, InFlight
<1> QED BY <1>1, <1>2, <1>3, <1>4 DEF Request

\* What is committed by request r leaves every other request with a true snapshot.
LEMMA CommitKeepsSnapshots ==
    ASSUME TypeInv, SnapshotInv,
           NEW r \in Requests, NEW table \in Table, NEW state \in {"live", "deleted"},
           Commit(r, table, state)
    PROVE  req' \in [Requests -> Request] /\ SnapshotInv'
<1> DEFINE changed == {i \in Rows : table[i] # member[i]}
           more(x) == Outdated(req[x], changed, state # org)
<1>1. member' = table /\ org' = state
      /\ req' = [x \in Requests |->
                  IF x = r THEN Done
                  ELSE IF req[x].phase \in {"idle", "done"} THEN req[x]
                  ELSE [req[x] EXCEPT !.stale = @ \cup more(x)]]
  BY DEF Commit
<1>2. \A x : more(x) \in SUBSET Facts
  BY DEF Outdated
<1>3. ASSUME NEW x \in Requests PROVE req'[x] \in Request /\ Snapshot(req[x])'
  <2>01. PICK q : q = req[x]  OBVIOUS
  <2>02. PICK p : p = req'[x]  OBVIOUS
  <2>0. q \in Request /\ Snapshot(q)  BY <2>01 DEF TypeInv, SnapshotInv
  <2>1. CASE x = r \/ q.phase \in {"idle", "done"}
    <3>1. req'[x] \in Request /\ req'[x].phase \in {"idle", "done"}
      BY <1>1, <2>0, <2>01, <2>1 DEF Request, Idle, Done
    <3> QED BY <3>1 DEF Snapshot, ActorFact, TargetFact, PairFact, OrganizationFact, Targeted, InFlight
  <2>2. CASE x # r /\ q.phase \notin {"idle", "done"}
    <3>1. InFlight(q)  BY <2>0, <2>2, RequestFields DEF InFlight
    <3>2. PICK m \in SUBSET Facts : m = more(x)  BY <1>2
    <3>3. p = [q EXCEPT !.stale = @ \cup m]  BY <1>1, <2>01, <2>02, <2>2, <3>2
    <3>5. /\ q.phase \in {"read", "write"} /\ "actor" \notin m => q.me \notin changed
          /\ q.phase = "write" /\ "target" \notin m => q.target \notin changed
          /\ "organization" \notin m => state = org
      BY <2>01, <3>2 DEF Outdated, Facts
    <3>6. /\ p \in Request /\ p.phase = q.phase /\ p.stale = q.stale \cup m
          /\ p.phase \in {"read", "write"} =>
               p.kind = q.kind /\ p.actor = q.actor /\ p.me = q.me
          /\ p.phase = "read" => p.role = q.role
          /\ p.phase = "write" => p.target = q.target
      BY <2>0, <3>1, <3>3, StaleGrows
    <3>8. \A i \in Rows : i \notin changed => member'[i] = member[i] /\ (i \in Occupied' <=> i \in Occupied)
      BY <1>1 DEF Occupied
    <3>9. q.phase \in {"read", "write"} => q.me \in Rows  BY <2>0, RequestFields
    <3> HIDE DEF changed, more
    <3>10. ActorFact(p)'
      BY <2>0, <3>5, <3>6, <3>8, <3>9 DEF Snapshot, ActorFact
    <3>11. TargetFact(p)'
      BY <2>0, <3>5, <3>6, <3>8 DEF Snapshot, TargetFact, Targeted
    <3>12. PairFact(p)'
      BY <2>0, <3>5, <3>6, <3>8, <3>9 DEF Snapshot, PairFact, TargetFact, Targeted
    <3>13. OrganizationFact(p)'
      BY <1>1, <2>0, <3>5, <3>6 DEF Snapshot, OrganizationFact, InFlight
    <3> QED BY <2>02, <3>6, <3>10, <3>11, <3>12, <3>13
            DEF Snapshot, ActorFact, TargetFact, PairFact, OrganizationFact, Targeted, InFlight
  <2> QED BY <2>1, <2>2
<1>4. req' \in [Requests -> Request]
  BY <1>1, <1>3
<1> QED BY <1>3, <1>4 DEF SnapshotInv

-----------------------------------------------------------------------------
(* The steps that only read. *)

\* A step that changes one request only keeps the invariant if the request's new
\* record has its type and a true snapshot.
LEMMA ReadStep ==
    ASSUME IInv, NEW r \in Requests, NEW p \in Request, Snapshot(p),
           req' = [req EXCEPT ![r] = p], UNCHANGED <<org, member, ids, raced>>
    PROVE  IInv'
<1>1. TypeInv'
  BY DEF IInv, TypeInv, Occupied
<1>2. \A x \in Requests : req'[x] = IF x = r THEN p ELSE req[x]
  BY DEF IInv, TypeInv
<1>3. ASSUME NEW x \in Requests PROVE Snapshot(req[x])'
  <2>1. PICK q : q = req'[x]  OBVIOUS
  <2>2. Snapshot(q)  BY <1>2, <2>1 DEF IInv, SnapshotInv
  <2> QED BY <2>1, <2>2 DEF Snapshot, ActorFact, TargetFact, PairFact, OrganizationFact,
             Targeted, InFlight, Occupied
<1>4. OwnerInv'
  BY DEF IInv, OwnerInv, Owners, Occupied
<1> QED BY <1>1, <1>3, <1>4 DEF IInv, SnapshotInv

LEMMA GuardOrganizationStep ==
    ASSUME IInv, NEW r \in Requests, GuardOrganization(r)
    PROVE  IInv'
<1> DEFINE p == [phase |-> "member", stale |-> {}]
<1>1. p \in Request  BY DEF Request
<1>2. Snapshot(p)
  BY DEF GuardOrganization, Snapshot, ActorFact, TargetFact, PairFact, OrganizationFact, Targeted
<1>3. req' = [req EXCEPT ![r] = p] /\ UNCHANGED <<org, member, ids, raced>>
  BY DEF GuardOrganization
<1> HIDE DEF p
<1> QED BY <1>1, <1>2, <1>3, ReadStep

LEMMA DoneIsSnapshot == Done \in Request /\ Snapshot(Done)
BY DEF Done, Request, Snapshot, ActorFact, TargetFact, PairFact, OrganizationFact, Targeted, InFlight

LEMMA GuardMemberStep ==
    ASSUME IInv, NEW r \in Requests, NEW kind \in Kinds, NEW u \in Users, GuardMember(r, kind, u)
    PROVE  IInv'
<1>1. CASE req' = [req EXCEPT ![r] = Done]
  BY <1>1, DoneIsSnapshot, ReadStep DEF GuardMember
<1>2. ASSUME NEW i \in RowsOf(u), member[i].role \in Admitted[kind],
             req' = [req EXCEPT ![r] = [phase |-> "read", kind |-> kind, actor |-> u, me |-> i,
                                        role |-> member[i].role, stale |-> req[r].stale]]
      PROVE  IInv'
  <2>1. PICK role : role = member[i].role  OBVIOUS
  <2>2. PICK stale : stale = req[r].stale  OBVIOUS
  <2> DEFINE p == [phase |-> "read", kind |-> kind, actor |-> u, me |-> i, role |-> role,
                   stale |-> stale]
  <2>3. i \in Occupied /\ i \in Rows /\ member[i].user = u  BY <1>2 DEF RowsOf, Occupied
  <2>4. role \in Roles
    <3>1. member[i] \in Row  BY <2>3 DEF IInv, TypeInv, Table, Occupied
    <3> QED BY <2>1, <3>1 DEF Row
  <2>5. req[r] \in Request /\ InFlight(req[r]) /\ Snapshot(req[r])
    BY DEF IInv, TypeInv, SnapshotInv, GuardMember, InFlight
  <2>6. stale \subseteq Facts  BY <2>2, <2>5, RequestFields
  <2>7. p \in Request  BY <2>3, <2>4, <2>6 DEF Request
  <2>8. "organization" \notin stale => org = "live"
    BY <2>2, <2>5 DEF Snapshot, OrganizationFact
  <2>9. Snapshot(p)
    BY <1>2, <2>1, <2>3, <2>8 DEF Snapshot, ActorFact, TargetFact, PairFact, OrganizationFact, Targeted
  <2>10. req' = [req EXCEPT ![r] = p] /\ UNCHANGED <<org, member, ids, raced>>
    BY <1>2, <2>1, <2>2 DEF GuardMember
  <2> HIDE DEF p
  <2> QED BY <2>7, <2>9, <2>10, ReadStep
<1> QED BY <1>1, <1>2 DEF GuardMember

LEMMA ReadTargetStep ==
    ASSUME IInv, NEW r \in Requests, req[r].phase = "read",
           NEW t \in Targets(req[r].kind), ReadTarget(r, t)
    PROVE  IInv'
<1>1. PICK q : q = req[r]  OBVIOUS
<1>2. q \in Request /\ Snapshot(q) /\ q.phase = "read"
  BY <1>1 DEF IInv, TypeInv, SnapshotInv
<1>3. CASE GoesOn(q, t)
  <2> DEFINE p == [phase |-> "write", kind |-> q.kind, actor |-> q.actor, me |-> q.me,
                   target |-> t, stale |-> q.stale]
  <2>1. q.kind \in Kinds /\ q.actor \in Users /\ q.me \in Rows /\ q.role \in Roles
        /\ q.stale \subseteq Facts
    BY <1>2, RequestFields DEF InFlight
  <2>2. t \in Users \cup 0..MaxRows
    BY <1>1, <2>1, MembershipAssumption DEF Targets, Kinds, Rows
  <2>3. p \in Request  BY <2>1, <2>2 DEF Request
  <2>4. ActorFact(p)
    BY <1>2 DEF Snapshot, ActorFact
  <2>5. TargetFact(p)
    BY <1>1, <1>3 DEF TargetFact, Targeted, GoesOn, MayRemove, Targets, Occupied
  <2>6. PairFact(p)
    <3>1. CASE q.kind = "transfer"
      BY <1>2, <1>3, <3>1 DEF PairFact, Targeted, GoesOn, Snapshot, ActorFact, Admitted
    <3>2. CASE q.kind = "remove"
      <4>1. MayRemove(q, member[t]) /\ t \in Occupied  BY <1>3, <3>2 DEF GoesOn
      <4>2. "actor" \notin q.stale => member[q.me].role = q.role
        BY <1>2 DEF Snapshot, ActorFact
      <4> QED BY <2>1, <3>2, <4>1, <4>2 DEF PairFact, Targeted, MayRemove, Roles
    <3> QED BY <3>1, <3>2 DEF PairFact
  <2>7. OrganizationFact(p)
    BY <1>2 DEF Snapshot, OrganizationFact, InFlight
  <2>8. req' = [req EXCEPT ![r] = p] /\ UNCHANGED <<org, member, ids, raced>>
    BY <1>1, <1>3 DEF ReadTarget
  <2> HIDE DEF p
  <2> QED BY <2>3, <2>4, <2>5, <2>6, <2>7, <2>8, ReadStep DEF Snapshot
<1>4. CASE ~GoesOn(q, t)
  <2>1. req' = [req EXCEPT ![r] = Done] /\ UNCHANGED <<org, member, ids, raced>>
    BY <1>1, <1>4 DEF ReadTarget
  <2> QED BY <2>1, DoneIsSnapshot, ReadStep
<1> QED BY <1>3, <1>4

-----------------------------------------------------------------------------
(* The steps that write. *)

\* A commit keeps the invariant if the table it leaves is in order and has one owner,
\* or ownership was moved blindly.
LEMMA WriteStep ==
    ASSUME IInv, NEW r \in Requests, NEW table \in Table, NEW state \in {"live", "deleted"},
           Commit(r, table, state), ids' \in Rows,
           \A i \in Rows : table[i] # NoRow => i \in 1..ids',
           \A i, j \in Rows : table[i] # NoRow /\ table[j] # NoRow /\ table[i].user = table[j].user
                             => i = j,
           \/ raced
           \/ MovesOwnershipBlindly(req[r]) /\ table # member
           \/ \E i \in Rows : \A j \in Rows :
                table[j] # NoRow /\ table[j].role = "OWNER" <=> j = i
    PROVE  IInv'
<1>1. member' = table /\ org' = state
      /\ raced' = (raced \/ ({i \in Rows : table[i] # member[i]} # {}
                              /\ MovesOwnershipBlindly(req[r])))
  BY DEF Commit
<1>2. Occupied' = {i \in Rows : table[i] # NoRow}
  BY <1>1 DEF Occupied
<1>3. req' \in [Requests -> Request] /\ SnapshotInv'
  BY CommitKeepsSnapshots DEF IInv
<1>4. TypeInv'
  <2>1. raced' \in BOOLEAN
    BY <1>1
  <2>2. Occupied' \subseteq 1..ids'  BY <1>2
  <2>3. \A i, j \in Occupied' : member'[i].user = member'[j].user => i = j  BY <1>1, <1>2
  <2> QED BY <1>1, <1>3, <2>1, <2>2, <2>3 DEF TypeInv
<1>5. OwnerInv'
  <2>1. CASE raced
    BY <1>1, <2>1 DEF OwnerInv
  <2>2. CASE MovesOwnershipBlindly(req[r]) /\ table # member
    <3>1. {i \in Rows : table[i] # member[i]} # {}
      BY <2>2 DEF Table, IInv, TypeInv
    <3> QED BY <1>1, <2>2, <3>1 DEF OwnerInv
  <2>3. ASSUME NEW i \in Rows,
               \A j \in Rows : table[j] # NoRow /\ table[j].role = "OWNER" <=> j = i
        PROVE  OwnerInv'
    <3>1. Owners' = {i}  BY <1>1, <1>2, <2>3 DEF Owners
    <3> QED BY <3>1 DEF OwnerInv
  <2> QED BY <2>1, <2>2, <2>3
<1> QED BY <1>3, <1>4, <1>5 DEF IInv

LEMMA RejectStep ==
    ASSUME IInv, NEW r \in Requests, Reject(r)
    PROVE  IInv'
BY DoneIsSnapshot, ReadStep DEF Reject

\* The rows in a state of the invariant.
LEMMA TableFacts ==
    ASSUME IInv
    PROVE  /\ member \in Table /\ NoRow \notin Row
           /\ \A i \in Occupied : i \in Rows /\ member[i] \in Row /\ member[i].user \in Users
                                /\ member[i].role \in Roles
           /\ \A i \in Rows : i \in Occupied <=> member[i] # NoRow
           /\ raced \/ \E i \in Rows : \A j \in Rows :
                member[j] # NoRow /\ member[j].role = "OWNER" <=> j = i
<1>1. member \in Table /\ NoRow \notin Row
  BY MembershipAssumption DEF IInv, TypeInv, Row, Roles
<1>2. \A i \in Rows : i \in Occupied <=> member[i] # NoRow
  BY DEF Occupied
<1>3. ASSUME NEW i \in Occupied
      PROVE i \in Rows /\ member[i] \in Row /\ member[i].user \in Users /\ member[i].role \in Roles
  <2>1. i \in Rows /\ member[i] \in Row  BY <1>1 DEF Occupied, Table
  <2> QED BY <2>1 DEF Row
<1>4. ASSUME NEW i \in Rows, Owners = {i}
      PROVE  \A j \in Rows : member[j] # NoRow /\ member[j].role = "OWNER" <=> j = i
  BY <1>4 DEF Owners, Occupied
<1>5. raced \/ \E i \in Rows : Owners = {i}
  BY DEF IInv, OwnerInv
<1> QED BY <1>1, <1>2, <1>3, <1>4, <1>5

\* A row with another role; named, so that the provers take it as one value.
WithRole(row, role) == [row EXCEPT !.role = role]

LEMMA AddMemberStep ==
    ASSUME IInv, NEW r \in Requests, AddMember(r)
    PROVE  IInv'
<1>1. CASE RowsOf(req[r].target) # {} /\ Reject(r)
  BY <1>1, RejectStep
<1>2. CASE RowsOf(req[r].target) = {} /\ ids < MaxRows
  <2>1. PICK new : new = [user |-> req[r].target, role |-> "MEMBER"]  OBVIOUS
  <2>2. PICK n : n = ids + 1  OBVIOUS
  <2>3. PICK table : table = [member EXCEPT ![n] = new]  OBVIOUS
  <2>4. req[r].target \in Users
    BY DEF AddMember, IInv, SnapshotInv, Snapshot, TargetFact
  <2>5. new \in Row /\ new.user = req[r].target /\ new.role = "MEMBER" /\ new # NoRow
    BY <2>1, <2>4, TableFacts DEF Row, Roles
  <2>6. n \in Rows /\ ids' = n /\ 1..ids \subseteq 1..n /\ n \notin Occupied /\ n \in 1..n
    BY <1>2, <2>2, MembershipAssumption DEF AddMember, IInv, TypeInv, Rows, Reject
  <2>7. table \in Table /\ \A j \in Rows : table[j] = IF j = n THEN new ELSE member[j]
    BY <2>3, <2>5, <2>6, TableFacts DEF Table
  <2>8. Commit(r, table, org)
    BY <1>2, <2>1, <2>2, <2>3 DEF AddMember
  <2>9. org \in {"live", "deleted"}  BY DEF IInv, TypeInv
  <2>10. \A j \in Rows : table[j] # NoRow => j \in 1..ids'
    BY <2>6, <2>7 DEF IInv, TypeInv, Occupied
  <2>11. \A j \in Occupied : member[j].user # new.user
    BY <1>2, <2>5 DEF RowsOf
  <2>12. \A i, j \in Rows : table[i] # NoRow /\ table[j] # NoRow /\ table[i].user = table[j].user
                           => i = j
    BY <2>7, <2>11 DEF IInv, TypeInv, Occupied
  <2>13. raced \/ \E i \in Rows : \A j \in Rows :
            table[j] # NoRow /\ table[j].role = "OWNER" <=> j = i
    BY <2>5, <2>6, <2>7, TableFacts
  <2> QED BY <2>6, <2>7, <2>8, <2>9, <2>10, <2>12, <2>13, WriteStep
<1> QED BY <1>1, <1>2 DEF AddMember

LEMMA UpdateRoleStep ==
    ASSUME IInv, NEW r \in Requests, NEW role \in Roles, role # "OWNER", UpdateRole(r, role)
    PROVE  IInv'
<1>1. CASE req[r].target \notin Occupied /\ Reject(r)
  BY <1>1, RejectStep
<1>2. CASE req[r].target \in Occupied /\ UNCHANGED ids
  <2>1. PICK t : t = req[r].target  OBVIOUS
  <2>2. PICK table : table = [member EXCEPT ![t] = WithRole(member[t], role)]  OBVIOUS
  <2>3. t \in Occupied /\ t \in Rows /\ role \in Roles /\ role # "OWNER"
    BY <1>2, <2>1 DEF Occupied
  <2>4. /\ table \in Table /\ table[t].role = role
        /\ \A j \in Rows : j # t => table[j] = member[j]
        /\ \A j \in Rows : table[j] # NoRow <=> member[j] # NoRow
        /\ \A j \in Occupied : table[j].user = member[j].user
    <3>1. member[t] \in Row /\ member \in Table /\ NoRow \notin Row  BY <2>3, TableFacts
    <3> DEFINE row == WithRole(member[t], role)
    <3>2. row \in Row /\ row.role = role /\ row.user = member[t].user
      BY <2>3, <3>1 DEF Row, WithRole
    <3>3. table = [member EXCEPT ![t] = row]  BY <2>2
    <3> HIDE DEF row
    <3>4. table \in Table  BY <2>3, <3>1, <3>2, <3>3 DEF Table
    <3>5. \A j \in Rows : table[j] = IF j = t THEN row ELSE member[j]
      BY <2>3, <3>1, <3>3 DEF Table
    <3> QED BY <2>3, <3>1, <3>2, <3>4, <3>5 DEF Occupied
  <2>5. Commit(r, table, org)  BY <1>2, <2>1, <2>2 DEF UpdateRole, Reject, WithRole
  <2>6. org \in {"live", "deleted"} /\ ids' \in Rows  BY <1>2 DEF IInv, TypeInv
  <2>7. \A j \in Rows : table[j] # NoRow => j \in 1..ids'
    BY <1>2, <2>4 DEF IInv, TypeInv, Occupied
  <2>8. \A i, j \in Rows : table[i] # NoRow /\ table[j] # NoRow /\ table[i].user = table[j].user
                           => i = j
    BY <2>4 DEF IInv, TypeInv, Occupied
  <2>9. CASE "target" \in req[r].stale
    <3>1. MovesOwnershipBlindly(req[r])  BY <2>9 DEF UpdateRole, MovesOwnershipBlindly
    <3>2. CASE table = member
      <4>1. raced \/ \E i \in Rows : \A j \in Rows :
              table[j] # NoRow /\ table[j].role = "OWNER" <=> j = i
        BY <3>2, TableFacts
      <4> QED BY <2>4, <2>5, <2>6, <2>7, <2>8, <4>1, WriteStep
    <3>3. CASE table # member
      BY <2>4, <2>5, <2>6, <2>7, <2>8, <3>1, <3>3, WriteStep
    <3> QED BY <3>2, <3>3
  <2>10. CASE "target" \notin req[r].stale
    <3>1. member[t].role # "OWNER"
      BY <2>1, <2>10 DEF UpdateRole, IInv, SnapshotInv, Snapshot, TargetFact, Targeted
    <3>2. raced \/ \E i \in Rows : \A j \in Rows :
            table[j] # NoRow /\ table[j].role = "OWNER" <=> j = i
      BY <2>3, <2>4, <3>1, TableFacts
    <3> QED BY <2>4, <2>5, <2>6, <2>7, <2>8, <3>2, WriteStep
  <2> QED BY <2>9, <2>10
<1> QED BY <1>1, <1>2 DEF UpdateRole

LEMMA RemoveMemberStep ==
    ASSUME IInv, NEW r \in Requests, RemoveMember(r)
    PROVE  IInv'
<1>1. CASE req[r].target \notin Occupied /\ Reject(r)
  BY <1>1, RejectStep
<1>2. CASE req[r].target \in Occupied /\ UNCHANGED ids
  <2>1. PICK t : t = req[r].target  OBVIOUS
  <2>2. PICK table : table = [member EXCEPT ![t] = NoRow]  OBVIOUS
  <2>3. t \in Occupied /\ t \in Rows  BY <1>2, <2>1 DEF Occupied
  <2>4. table \in Table /\ \A j \in Rows : table[j] = IF j = t THEN NoRow ELSE member[j]
    BY <2>2, <2>3, TableFacts DEF Table
  <2>5. Commit(r, table, org)  BY <1>2, <2>1, <2>2 DEF RemoveMember, Reject
  <2>6. org \in {"live", "deleted"} /\ ids' \in Rows  BY <1>2 DEF IInv, TypeInv
  <2>7. \A j \in Rows : table[j] # NoRow => j \in 1..ids'
    BY <1>2, <2>4 DEF IInv, TypeInv, Occupied
  <2>8. \A i, j \in Rows : table[i] # NoRow /\ table[j] # NoRow /\ table[i].user = table[j].user
                           => i = j
    BY <2>4 DEF IInv, TypeInv, Occupied
  <2>9. CASE "target" \in req[r].stale
    <3>1. MovesOwnershipBlindly(req[r])  BY <2>9 DEF RemoveMember, MovesOwnershipBlindly
    <3>2. table # member  BY <2>3, <2>4 DEF Occupied
    <3> QED BY <2>4, <2>5, <2>6, <2>7, <2>8, <3>1, <3>2, WriteStep
  <2>10. CASE "target" \notin req[r].stale
    <3>1. member[t].role # "OWNER"
      BY <2>1, <2>10 DEF RemoveMember, IInv, SnapshotInv, Snapshot, TargetFact, Targeted
    <3>2. raced \/ \E i \in Rows : \A j \in Rows :
            table[j] # NoRow /\ table[j].role = "OWNER" <=> j = i
      BY <2>3, <2>4, <3>1, TableFacts
    <3> QED BY <2>4, <2>5, <2>6, <2>7, <2>8, <3>2, WriteStep
  <2> QED BY <2>9, <2>10
<1> QED BY <1>1, <1>2 DEF RemoveMember

LEMMA TransferOwnershipStep ==
    ASSUME IInv, NEW r \in Requests, TransferOwnership(r)
    PROVE  IInv'
<1>1. CASE {req[r].target, req[r].me} \ Occupied # {} /\ Reject(r)
  BY <1>1, RejectStep
<1>2. CASE req[r].target \in Occupied /\ req[r].me \in Occupied /\ UNCHANGED ids
  <2>1. PICK t : t = req[r].target  OBVIOUS
  <2>2. PICK m : m = req[r].me  OBVIOUS
  <2>3. PICK table : table = [member EXCEPT ![t].role = "OWNER", ![m].role = "ADMIN"]
    OBVIOUS
  <2>4. t \in Occupied /\ m \in Occupied /\ t \in Rows /\ m \in Rows
    BY <1>2, <2>1, <2>2 DEF Occupied
  <2>5. /\ table \in Table
        /\ t # m => table[t].role = "OWNER"
        /\ table[m].role = "ADMIN"
        /\ \A j \in Rows : j # t /\ j # m => table[j] = member[j]
        /\ \A j \in Rows : table[j] # NoRow <=> member[j] # NoRow
        /\ \A j \in Occupied : table[j].user = member[j].user
    <3>1. member \in Table /\ NoRow \notin Row /\ member[t] \in Row /\ member[m] \in Row
      BY <2>4, TableFacts
    <3> DEFINE first == [member EXCEPT ![t].role = "OWNER"]
               owner == [member[t] EXCEPT !.role = "OWNER"]
    <3>2. owner \in Row /\ owner.role = "OWNER" /\ owner.user = member[t].user
      BY <3>1 DEF Row, Roles
    <3>3. first = [member EXCEPT ![t] = owner]  OBVIOUS
    <3>4. first \in Table /\ \A j \in Rows : first[j] = IF j = t THEN owner ELSE member[j]
      <4> HIDE DEF owner, first
      <4> QED BY <2>4, <3>1, <3>2, <3>3 DEF Table
    <3>5. table = [first EXCEPT ![m].role = "ADMIN"]  BY <2>3
    <3> HIDE DEF first, owner
    <3> DEFINE admin == [first[m] EXCEPT !.role = "ADMIN"]
    <3>6. first[m] \in Row /\ first[m].user = member[m].user
      BY <2>4, <3>1, <3>2, <3>4
    <3>7. admin \in Row /\ admin.role = "ADMIN" /\ admin.user = member[m].user
      BY <3>6 DEF Row, Roles
    <3>8. table = [first EXCEPT ![m] = admin]  BY <3>5
    <3> HIDE DEF admin
    <3>9. table \in Table /\ \A j \in Rows : table[j] = IF j = m THEN admin ELSE first[j]
      BY <2>4, <3>4, <3>7, <3>8 DEF Table
    <3> QED BY <2>4, <3>1, <3>2, <3>4, <3>7, <3>9 DEF Occupied
  <2>6. Commit(r, table, org)
    BY <1>2, <2>1, <2>2, <2>3 DEF TransferOwnership, Reject
  <2>7. org \in {"live", "deleted"} /\ ids' \in Rows  BY <1>2 DEF IInv, TypeInv
  <2>8. \A j \in Rows : table[j] # NoRow => j \in 1..ids'
    BY <1>2, <2>5 DEF IInv, TypeInv, Occupied
  <2>9. \A i, j \in Rows : table[i] # NoRow /\ table[j] # NoRow /\ table[i].user = table[j].user
                           => i = j
    BY <2>5 DEF IInv, TypeInv, Occupied
  <2>10. req[r].phase = "write" /\ req[r].kind = "transfer"
    BY DEF TransferOwnership
  <2>11. CASE "actor" \in req[r].stale
    <3>1. MovesOwnershipBlindly(req[r])  BY <2>10, <2>11 DEF MovesOwnershipBlindly
    <3>2. CASE table = member
      <4>1. raced \/ \E i \in Rows : \A j \in Rows :
              table[j] # NoRow /\ table[j].role = "OWNER" <=> j = i
        BY <3>2, TableFacts
      <4> QED BY <2>5, <2>6, <2>7, <2>8, <2>9, <4>1, WriteStep
    <3>3. CASE table # member
      BY <2>5, <2>6, <2>7, <2>8, <2>9, <3>1, <3>3, WriteStep
    <3> QED BY <3>2, <3>3
  <2>12. CASE "actor" \notin req[r].stale
    <3>1. Snapshot(req[r])  BY DEF IInv, SnapshotInv
    <3>2. member[m].role = "OWNER"
      BY <2>2, <2>10, <2>12, <3>1 DEF Snapshot, ActorFact, Admitted
    <3>3. t # m
      BY <2>1, <2>2, <2>10, <2>12, <3>1 DEF Snapshot, PairFact, Targeted
    <3>4. raced \/ \A j \in Rows : member[j] # NoRow /\ member[j].role = "OWNER" <=> j = m
      BY <2>4, <3>2, TableFacts
    <3>5. raced \/ \A j \in Rows : table[j] # NoRow /\ table[j].role = "OWNER" <=> j = t
      BY <2>4, <2>5, <3>3, <3>4 DEF Occupied
    <3> QED BY <2>4, <2>5, <2>6, <2>7, <2>8, <2>9, <3>5, WriteStep
  <2> QED BY <2>11, <2>12
<1> QED BY <1>1, <1>2 DEF TransferOwnership

LEMMA SoftDeleteStep ==
    ASSUME IInv, NEW r \in Requests, SoftDelete(r)
    PROVE  IInv'
<1>1. PICK table : table = member  OBVIOUS
<1>2. table \in Table /\ Commit(r, table, "deleted") /\ ids' = ids
  BY <1>1 DEF SoftDelete, IInv, TypeInv
<1>3. ids' \in Rows /\ \A j \in Rows : table[j] # NoRow => j \in 1..ids'
  BY <1>1, <1>2 DEF IInv, TypeInv, Occupied
<1>4. \A i, j \in Rows : table[i] # NoRow /\ table[j] # NoRow /\ table[i].user = table[j].user
                         => i = j
  BY <1>1 DEF IInv, TypeInv, Occupied
<1>5. raced \/ \E i \in Rows : \A j \in Rows :
        table[j] # NoRow /\ table[j].role = "OWNER" <=> j = i
  BY <1>1, TableFacts
<1> QED BY <1>2, <1>3, <1>4, <1>5, WriteStep

LEMMA Initially == Init => IInv
<1> SUFFICES ASSUME Init PROVE IInv
  OBVIOUS
<1>1. \A r \in Requests : req[r] = Idle /\ Idle \in Request
  BY DEF Init, Request
<1>2. TypeInv
  BY <1>1 DEF Init, TypeInv, Table, Row
<1>3. SnapshotInv
  BY <1>1 DEF Idle, SnapshotInv, Snapshot, ActorFact, TargetFact, PairFact, OrganizationFact,
     Targeted, InFlight
<1>4. OwnerInv
  <2>1. IsFiniteSet(Rows)  BY FS_Interval, MembershipAssumption DEF Rows
  <2>2. Owners \subseteq Rows  BY DEF Owners, Occupied
  <2>3. IsFiniteSet(Owners)  BY <2>1, <2>2, FS_Subset
  <2>4. \E i : Owners = {i}  BY <2>3, FS_Singleton DEF Init
  <2> QED BY <2>2, <2>4 DEF OwnerInv
<1> QED BY <1>2, <1>3, <1>4 DEF IInv

LEMMA Invariance == Spec => []IInv
<1>1. IInv /\ [Next]_vars => IInv'
  <2> SUFFICES ASSUME IInv, [Next]_vars PROVE IInv'
    OBVIOUS
  <2>1. ASSUME NEW r \in Requests, Step(r) PROVE IInv'
    <3>1. ASSUME NEW kind \in Kinds, NEW u \in Users, GuardMember(r, kind, u) PROVE IInv'
      BY <3>1, GuardMemberStep
    <3>2. ASSUME req[r].phase = "read", NEW t \in Targets(req[r].kind), ReadTarget(r, t)
          PROVE  IInv'
      BY <3>2, ReadTargetStep
    <3>3. ASSUME NEW role \in {"ADMIN", "MEMBER"}, UpdateRole(r, role) PROVE IInv'
      BY <3>3, UpdateRoleStep DEF Roles
    <3> QED BY <2>1, <3>1, <3>2, <3>3, GuardOrganizationStep, AddMemberStep, RemoveMemberStep,
               TransferOwnershipStep, SoftDeleteStep DEF Step
  <2>2. CASE UNCHANGED vars
    <3>1. TypeInv'  BY <2>2 DEF IInv, TypeInv, Occupied, vars
    <3>2. SnapshotInv'
      BY <2>2 DEF IInv, SnapshotInv, Snapshot, ActorFact, TargetFact, PairFact, OrganizationFact,
         Targeted, InFlight, Occupied, vars
    <3>3. OwnerInv'  BY <2>2 DEF IInv, OwnerInv, Owners, Occupied, vars
    <3> QED BY <3>1, <3>2, <3>3 DEF IInv
  <2> QED BY <2>1, <2>2 DEF Next
<1> QED BY Initially, <1>1, PTL DEF Spec

-----------------------------------------------------------------------------
(* The theorems. *)

\* The variables keep their types, and a user has one row at most.
THEOREM TypeCorrect == Spec => []TypeOK
<1>1. ASSUME IInv PROVE TypeOK
  <2>1. ASSUME NEW u \in Users PROVE Cardinality(RowsOf(u)) <= 1
    <3>1. CASE RowsOf(u) = {}
      BY <3>1, FS_EmptySet
    <3>2. ASSUME NEW i \in RowsOf(u) PROVE Cardinality(RowsOf(u)) <= 1
      <4>1. RowsOf(u) = {i}  BY <1>1 DEF IInv, TypeInv, RowsOf
      <4>2. Cardinality({i}) = 1  BY FS_Singleton
      <4> QED BY <4>1, <4>2
    <3> QED BY <3>1, <3>2
  <2> QED BY <1>1, <2>1 DEF IInv, TypeInv, TypeOK, Table, Row
<1> QED BY Invariance, <1>1, PTL

\* Exactly one owner, unless a request moved ownership on what was no longer true.
THEOREM OneOwner == Spec => []OneOwnerUnlessRaced
<1>1. ASSUME IInv PROVE OneOwnerUnlessRaced
  <2>1. \A i : Cardinality({i}) = 1  BY FS_Singleton
  <2> QED BY <1>1, <2>1 DEF IInv, OwnerInv, OneOwnerUnlessRaced
<1> QED BY Invariance, <1>1, PTL

\* A request about to write on what is still true is permitted its write.
LEMMA FreshIsPermitted ==
    ASSUME IInv, NEW r \in Requests, req[r].phase = "write", req[r].stale = {}
    PROVE  Permitted(req[r])
<1>1. PICK q \in Request : q = req[r]  BY DEF IInv, TypeInv
<1>2. q.phase = "write" /\ q.stale = {} /\ Snapshot(q)
  BY <1>1 DEF IInv, SnapshotInv
<1>3. q.kind \in Kinds /\ q.actor \in Users  BY <1>2, RequestFields
<1>4. org = "live"  BY <1>2 DEF Snapshot, OrganizationFact, InFlight
<1>5. PICK m \in Rows : m = q.me /\ m \in Occupied /\ member[m].user = q.actor
  BY <1>2 DEF Snapshot, ActorFact, Occupied
<1>6. RowsOf(q.actor) = {m}  BY <1>5 DEF IInv, TypeInv, RowsOf
<1>7. (CHOOSE i \in RowsOf(q.actor) : TRUE) = m  BY <1>6
<1>8. member[m].role \in Admitted[q.kind]  BY <1>2, <1>5 DEF Snapshot, ActorFact
<1>9. Targeted(q) => member[q.target].role # "OWNER"
  BY <1>2 DEF Snapshot, TargetFact
<1>10. q.kind = "remove" => \/ member[q.target].user = q.actor
                            \/ member[m].role = "OWNER"
                            \/ member[m].role = "ADMIN" /\ member[q.target].role = "MEMBER"
  BY <1>2, <1>5 DEF Snapshot, PairFact, Targeted
<1>11. CASE q.kind = "add"
  BY <1>1, <1>4, <1>6, <1>7, <1>8, <1>11 DEF Permitted, Admitted
<1>12. CASE q.kind = "delete"
  BY <1>1, <1>4, <1>6, <1>7, <1>8, <1>12 DEF Permitted, Admitted
<1>13. CASE q.kind \in {"role", "transfer"}
  <2>1. member[m].role = "OWNER"
    <3>1. CASE q.kind = "role"  BY <1>8, <3>1 DEF Admitted
    <3>2. CASE q.kind = "transfer"  BY <1>8, <3>2 DEF Admitted
    <3> QED BY <1>13, <3>1, <3>2
  <2>2. member[q.target].role # "OWNER"
    BY <1>2, <1>9, <1>13 DEF Targeted
  <2> QED BY <1>1, <1>4, <1>6, <1>7, <1>13, <2>1, <2>2 DEF Permitted
<1>14. CASE q.kind = "remove"
  BY <1>1, <1>2, <1>4, <1>6, <1>7, <1>9, <1>10, <1>14 DEF Permitted, Targeted
<1> QED BY <1>3, <1>11, <1>12, <1>13, <1>14 DEF Kinds

\* Only a request that is permitted it now, or whose facts are stale, changes anything.
THEOREM Permission == Spec => ChangesArePermitted
<1> DEFINE A == <<org, member>>' # <<org, member>> =>
                  \E r \in Requests : /\ req[r].phase = "write" /\ req'[r] = Done
                                      /\ req[r].stale # {} \/ Permitted(req[r])
<1>1. IInv /\ [Next]_vars => [A]_vars
  <2> SUFFICES ASSUME IInv, NEW r \in Requests, Step(r), <<org, member>>' # <<org, member>>
               PROVE  req[r].phase = "write" /\ req'[r] = Done
    BY FreshIsPermitted DEF Next
  <2>1. ASSUME NEW table, NEW state, Commit(r, table, state) PROVE req'[r] = Done
    BY <2>1 DEF Commit
  <2> QED BY <2>1 DEF Step, GuardOrganization, GuardMember, ReadTarget, AddMember, RemoveMember,
             UpdateRole, TransferOwnership, SoftDelete, Reject
<1> QED BY Invariance, <1>1, PTL DEF Spec, ChangesArePermitted

=============================================================================
