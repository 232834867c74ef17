----------------------------- MODULE WorkflowsProofs -----------------------------
(***************************************************************************)
(* Proofs about Workflows, for any number of requests, versions and        *)
(* secrets.                                                                *)
(*                                                                         *)
(* Everything follows from what a request in flight has read: it is either *)
(* a fact that held at some moment of it (was), a version that is there    *)
(* for ever (RequestInv), or the rows that its updateMany has matched,     *)
(* with all that were there when it began among them (HistoryInv).         *)
(***************************************************************************)
EXTENDS Workflows, FiniteSetTheorems, TLAPS

\* The versions that say they are active.
Says == {i \in Inserted : version[i].isActive}

\* A transaction whose updateMany has begun.
HasRows(q) == q.phase \in {"lock", "locked"}

\* The rows; nobody has a request in flight before there is a workflow.
DataInv ==
    /\ wf \in Workflow /\ hook \in Webhook /\ run \in [Requests -> 0..MaxVersions]
    /\ \E n \in 0..MaxVersions : version \in [1..n -> Version]
    /\ \A i \in Inserted : version[i].number = i
    /\ wf.active \in {0} \cup Inserted
    /\ wf.state = "none" => Inserted = {} /\ \A r \in Requests : req[r] = Idle

\* What request q knows, when the versions V are inserted and the rows are w and h.
Knows(q, V, w, h) ==
    /\ Holding(q.kind, w, h) \subseteq q.was
    /\ q.phase = "guard" => q.kind \in Guarded
    /\ q.phase = "workflow" => q.kind = "incoming"
    /\ q.phase = "insert" => q.kind = "version" /\ q.target \in Ids /\ 1..(q.target - 1) \subseteq V
    /\ q.phase \in {"match", "lock", "locked"} => q.kind = "activate" /\ q.target \in V
    /\ q.phase \in {"workflow", "write"} /\ q.kind = "incoming" => <<"secret", q.presented>> \in q.was
    /\ q.phase = "write" /\ q.kind \in {"trigger", "incoming"} => q.target \in V /\ <<"active", q.target>> \in q.was
    /\ q.kind \in Guarded /\ q.phase \notin {"guard", "read"} => <<"live", 0>> \in q.was
    /\ q.kind \in Guarded /\ q.phase # "guard" /\ q.role # "ADMIN" => <<"editable", 0>> \in q.was
    /\ IF HasRows(q) THEN q.rows # {} /\ q.rows \subseteq V ELSE q.rows = {}

RequestOK(q, V, w, h) == q \in Request /\ (q \notin {Idle, Done} => Knows(q, V, w, h))

RequestInv ==
    /\ req = [r \in Requests |-> req[r]]
    /\ \A r \in Requests : RequestOK(req[r], Inserted, wf, hook)

\* The versions there were when a request began are still there, and an activation has
\* matched them all.
HistoryInv ==
    /\ seen \in [Requests -> 0..MaxVersions] /\ since \in 0..MaxVersions
    /\ \A r \in Requests : /\ 1..seen[r] \subseteq Inserted
                           /\ HasRows(req[r]) => 1..seen[r] \subseteq req[r].rows

\* Of the versions older than the last activation, only its own says that it is active.
ActiveInv ==
    /\ \A i, j \in Says : i <= since /\ j <= since => i = j
    /\ wf.active # 0 => wf.active \in Says
    /\ wf.state = "live" => \A i \in Says : i <= since => i = wf.active

IInv == DataInv /\ RequestInv /\ HistoryInv /\ ActiveInv

-----------------------------------------------------------------------------
(* Lemmas about requests. *)

Fields(q) ==
    /\ q.phase \in {"guard", "read", "workflow", "write", "insert", "match", "lock", "locked"}
    /\ q.kind \in Kinds /\ q.role \in {"ADMIN", "MEMBER", "PUBLIC"}
    /\ q.target \in 0..(MaxVersions + 1) /\ q.presented \in {0} \cup Secrets
    /\ q.rows \in SUBSET Ids /\ q.was \in SUBSET Facts
    /\ q = [phase |-> q.phase, kind |-> q.kind, role |-> q.role, target |-> q.target,
            presented |-> q.presented, rows |-> q.rows, was |-> q.was]

\* A request in flight is a record with these fields, and conversely.
LEMMA InFlightFields ==
    ASSUME NEW q \in Request, q \notin {Idle, Done}
    PROVE  Fields(q)
BY DEF Request, Fields

LEMMA FieldsInFlight ==
    ASSUME NEW q, Fields(q)
    PROVE  q \in Request /\ q \notin {Idle, Done} /\ q.phase \notin {"idle", "done"}
BY DEF Request, Fields, Idle, Done

LEMMA PhaseInFlight ==
    ASSUME NEW q \in Request, q.phase \notin {"idle", "done"}
    PROVE  q \notin {Idle, Done} /\ Fields(q)
BY InFlightFields DEF Idle, Done

\* What Holding says of the facts.
LEMMA HoldingFacts ==
    ASSUME NEW k, NEW w, NEW h
    PROVE  /\ Holding(k, w, h) \subseteq Facts
           /\ k \in Guarded /\ w.state = "live" => <<"live", 0>> \in Holding(k, w, h)
           /\ k \in Guarded /\ w.state = "live" /\ w.access = "EDITOR" => <<"editable", 0>> \in Holding(k, w, h)
           /\ \A v \in Ids : k \in {"trigger", "incoming"} /\ w.state = "live" /\ w.active = v
                               => <<"active", v>> \in Holding(k, w, h)
           /\ \A s \in Secrets : k = "incoming" /\ h.state = "on" /\ h.secret = s
                                   => <<"secret", s>> \in Holding(k, w, h)
<1>1. Holding(k, w, h) \subseteq Facts
  BY DEF Holding
<1>2. k \in Guarded /\ w.state = "live" => <<"live", 0>> \in Holding(k, w, h)
  <2>1. <<"live", 0>> \in Facts  BY DEF Facts
  <2>2. <<"live", 0>>[1] = "live"  OBVIOUS
  <2> QED  BY <2>1, <2>2 DEF Holding
<1>3. k \in Guarded /\ w.state = "live" /\ w.access = "EDITOR" => <<"editable", 0>> \in Holding(k, w, h)
  <2>1. <<"editable", 0>> \in Facts  BY DEF Facts
  <2>2. <<"editable", 0>>[1] = "editable"  OBVIOUS
  <2> QED  BY <2>1, <2>2 DEF Holding
<1>4. ASSUME NEW v \in Ids, k \in {"trigger", "incoming"}, w.state = "live", w.active = v
      PROVE  <<"active", v>> \in Holding(k, w, h)
  <2>1. <<"active", v>> \in Facts  BY DEF Facts
  <2>2. <<"active", v>>[1] = "active" /\ <<"active", v>>[2] = v  OBVIOUS
  <2> QED  BY <1>4, <2>1, <2>2 DEF Holding
<1>5. ASSUME NEW s \in Secrets, k = "incoming", h.state = "on", h.secret = s
      PROVE  <<"secret", s>> \in Holding(k, w, h)
  <2>1. <<"secret", s>> \in Facts  BY DEF Facts
  <2>2. <<"secret", s>>[1] = "secret" /\ <<"secret", s>>[2] = s  OBVIOUS
  <2> QED  BY <1>5, <2>1, <2>2 DEF Holding
<1> QED  BY <1>1, <1>2, <1>3, <1>4, <1>5

\* Whoever is in flight while others write keeps what it knows.
Informed(q, w, h) == [q EXCEPT !.was = @ \cup Holding(q.kind, w, h)]

LEMMA OthersKnow ==
    ASSUME NEW q \in Request, q \notin {Idle, Done}, NEW V, NEW V2, V \subseteq V2,
           NEW w, NEW h, NEW w2, NEW h2, Knows(q, V, w, h)
    PROVE  /\ RequestOK(Informed(q, w2, h2), V2, w2, h2)
           /\ Informed(q, w2, h2) \notin {Idle, Done}
           /\ Informed(q, w2, h2).phase = q.phase /\ Informed(q, w2, h2).rows = q.rows
<1> DEFINE p == Informed(q, w2, h2)
<1>1. Fields(q)  BY InFlightFields
<1>2. /\ p.phase = q.phase /\ p.kind = q.kind /\ p.role = q.role /\ p.target = q.target
      /\ p.presented = q.presented /\ p.rows = q.rows
      /\ p.was = q.was \cup Holding(q.kind, w2, h2)
      /\ p = [phase |-> p.phase, kind |-> p.kind, role |-> p.role, target |-> p.target,
              presented |-> p.presented, rows |-> p.rows, was |-> p.was]
  <2> DEFINE S == q.was \cup Holding(q.kind, w2, h2)
  <2>1. p = [q EXCEPT !.was = S]  BY DEF Informed
  <2> HIDE DEF p, S
  <2>2. p = [phase |-> q.phase, kind |-> q.kind, role |-> q.role, target |-> q.target,
             presented |-> q.presented, rows |-> q.rows, was |-> S]
    BY <1>1, <2>1 DEF Fields
  <2> QED  BY <2>2 DEF S
<1> HIDE DEF p
<1>3. p.was \in SUBSET Facts  BY <1>1, <1>2, HoldingFacts DEF Fields
<1>4. Fields(p)  BY <1>1, <1>2, <1>3 DEF Fields
<1>5. p \in Request /\ p \notin {Idle, Done}  BY <1>4, FieldsInFlight
<1>6. Knows(p, V2, w2, h2)  BY <1>2 DEF Knows, HasRows
<1> QED  BY <1>2, <1>5, <1>6 DEF RequestOK, p

\* Request r goes on as q, with the rows w, v and h: the requests are as they should be.
LEMMA ContinueKeeps ==
    ASSUME RequestInv, NEW r \in Requests, NEW q, NEW w, NEW v, NEW h,
           Continue(r, q, w, v, h), Inserted \subseteq DOMAIN v,
           RequestOK(q, DOMAIN v, w, h)
    PROVE  /\ RequestInv'
           /\ req'[r] = q
           /\ \A x \in Requests \ {r} : /\ req'[x].phase = req[x].phase
                                        /\ HasRows(req[x]) => req'[x].rows = req[x].rows
<1>1. /\ wf' = w /\ version' = v /\ hook' = h /\ Inserted' = DOMAIN v
      /\ req' = [x \in Requests |->
                   IF x = r THEN q
                   ELSE IF InFlight(x) THEN Informed(req[x], w, h) ELSE req[x]]
  BY DEF Continue, Inserted, Informed
<1>2. ASSUME NEW x \in Requests, x # r
      PROVE  /\ RequestOK(req'[x], DOMAIN v, w, h)
             /\ req'[x].phase = req[x].phase
             /\ HasRows(req[x]) => req'[x].rows = req[x].rows
  <2>1. RequestOK(req[x], Inserted, wf, hook)  BY DEF RequestInv
  <2>2. CASE InFlight(x)
    <3>1. Knows(req[x], Inserted, wf, hook) /\ req[x] \in Request  BY <2>1, <2>2 DEF RequestOK, InFlight
    <3>2. req'[x] = Informed(req[x], w, h)  BY <1>1, <1>2, <2>2
    <3> QED  BY <3>1, <3>2, <2>2, OthersKnow DEF InFlight
  <2>3. CASE ~InFlight(x)
    <3>1. req'[x] = req[x]  BY <1>1, <1>2, <2>3
    <3> QED  BY <2>1, <2>3, <3>1 DEF InFlight, RequestOK
  <2> QED  BY <2>2, <2>3
<1>3. req'[r] = q  BY <1>1
<1>4. req' = [x \in Requests |-> req'[x]]  BY <1>1
<1>5. \A x \in Requests : RequestOK(req'[x], Inserted', wf', hook')  BY <1>1, <1>2, <1>3
<1> QED  BY <1>2, <1>3, <1>4, <1>5 DEF RequestInv

-----------------------------------------------------------------------------
(* The steps of a request. *)

Record(phase, kind, role, target, presented, rows, was) ==
    [phase |-> phase, kind |-> kind, role |-> role, target |-> target,
     presented |-> presented, rows |-> rows, was |-> was]

LEMMA RecordOK ==
    ASSUME NEW a \in {"guard", "read", "workflow", "write", "insert", "match", "lock", "locked"},
           NEW b \in Kinds, NEW c \in {"ADMIN", "MEMBER", "PUBLIC"}, NEW d \in 0..(MaxVersions + 1),
           NEW e \in {0} \cup Secrets, NEW f \in SUBSET Ids, NEW g \in SUBSET Facts
    PROVE  LET q == Record(a, b, c, d, e, f, g)
           IN /\ q.phase = a /\ q.kind = b /\ q.role = c /\ q.target = d
              /\ q.presented = e /\ q.rows = f /\ q.was = g
              /\ q \in Request /\ q \notin {Idle, Done}
<1> DEFINE q == Record(a, b, c, d, e, f, g)
<1>1. /\ q.phase = a /\ q.kind = b /\ q.role = c /\ q.target = d
      /\ q.presented = e /\ q.rows = f /\ q.was = g
  BY DEF Record
<1>2. q = [phase |-> a, kind |-> b, role |-> c, target |-> d, presented |-> e, rows |-> f, was |-> g]
  BY DEF Record
<1> HIDE DEF q
<1>3. Fields(q)  BY <1>1, <1>2 DEF Fields
<1>4. q \in Request /\ q \notin {Idle, Done}  BY <1>3, FieldsInFlight
<1> QED  BY <1>1, <1>4 DEF q

\* The assignments that the steps make to the fields of a request.
LEMMA Assigned ==
    ASSUME NEW q, Fields(q), NEW a, NEW d, NEW e, NEW f
    PROVE  /\ [q EXCEPT !.phase = a] = Record(a, q.kind, q.role, q.target, q.presented, q.rows, q.was)
           /\ [q EXCEPT !.phase = a, !.target = d] = Record(a, q.kind, q.role, d, q.presented, q.rows, q.was)
           /\ [q EXCEPT !.phase = a, !.presented = e] = Record(a, q.kind, q.role, q.target, e, q.rows, q.was)
           /\ [q EXCEPT !.phase = a, !.rows = f] = Record(a, q.kind, q.role, q.target, q.presented, f, q.was)
<1> DEFINE R(x, y, z, t) == Record(x, q.kind, q.role, y, z, t, q.was)
<1>1. q = R(q.phase, q.target, q.presented, q.rows)  BY DEF Fields, Record
<1>2. \A x, y, z, t :
        /\ [R(x, y, z, t) EXCEPT !.phase = a] = R(a, y, z, t)
        /\ [R(x, y, z, t) EXCEPT !.target = d] = R(x, d, z, t)
        /\ [R(x, y, z, t) EXCEPT !.presented = e] = R(x, y, e, t)
        /\ [R(x, y, z, t) EXCEPT !.rows = f] = R(x, y, z, f)
  BY DEF Record
<1> DEFINE p == [q EXCEPT !.phase = a]
<1>3. p = R(a, q.target, q.presented, q.rows)
  <2> HIDE DEF R
  <2> QED  BY <1>1, <1>2
<1> HIDE DEF R
<1>4. [q EXCEPT !.phase = a, !.target = d] = R(a, d, q.presented, q.rows)
  <2>1. [q EXCEPT !.phase = a, !.target = d] = [p EXCEPT !.target = d]  OBVIOUS
  <2> HIDE DEF p
  <2> QED  BY <1>2, <1>3, <2>1
<1>5. [q EXCEPT !.phase = a, !.presented = e] = R(a, q.target, e, q.rows)
  <2>1. [q EXCEPT !.phase = a, !.presented = e] = [p EXCEPT !.presented = e]  OBVIOUS
  <2> HIDE DEF p
  <2> QED  BY <1>2, <1>3, <2>1
<1>6. [q EXCEPT !.phase = a, !.rows = f] = R(a, q.target, q.presented, f)
  <2>1. [q EXCEPT !.phase = a, !.rows = f] = [p EXCEPT !.rows = f]  OBVIOUS
  <2> HIDE DEF p
  <2> QED  BY <1>2, <1>3, <2>1
<1> QED  BY <1>3, <1>4, <1>5, <1>6 DEF R

\* What is known of a request in flight.
LEMMA Known ==
    ASSUME IInv, NEW r \in Requests, req[r].phase \notin {"idle", "done"}
    PROVE  /\ req[r] \in Request /\ req[r] \notin {Idle, Done} /\ Fields(req[r])
           /\ Knows(req[r], Inserted, wf, hook)
           /\ wf.state # "none"
<1>1. RequestOK(req[r], Inserted, wf, hook)  BY DEF IInv, RequestInv
<1>2. req[r] \in Request  BY <1>1 DEF RequestOK
<1>3. req[r] \notin {Idle, Done} /\ Fields(req[r])  BY <1>2, PhaseInFlight
<1> QED  BY <1>1, <1>2, <1>3 DEF RequestOK, IInv, DataInv

\* A step that writes nothing.
LEMMA StepKeeps ==
    ASSUME IInv, NEW r \in Requests, NEW q, Continue(r, q, wf, version, hook), wf.state # "none",
           RequestOK(q, Inserted, wf, hook), UNCHANGED <<run, since>>,
           NEW s \in 0..MaxVersions, seen' = [seen EXCEPT ![r] = s], 1..s \subseteq Inserted,
           HasRows(q) => 1..s \subseteq q.rows
    PROVE  IInv'
<1>1. run' = run /\ since' = since  OBVIOUS
<1>2. wf' = wf /\ version' = version /\ hook' = hook /\ Inserted' = Inserted
  BY DEF Continue, Inserted
<1>3. /\ RequestInv'
      /\ req'[r] = q
      /\ \A x \in Requests \ {r} : /\ req'[x].phase = req[x].phase
                                   /\ HasRows(req[x]) => req'[x].rows = req[x].rows
  <2>1. RequestInv /\ RequestOK(q, DOMAIN version, wf, hook)  BY DEF IInv, Inserted
  <2>2. Inserted \subseteq DOMAIN version  BY DEF Inserted
  <2> QED  BY <2>1, <2>2, ContinueKeeps
<1>4. DataInv'  BY <1>1, <1>2 DEF IInv, DataInv, Inserted
<1>5. ActiveInv'  BY <1>1, <1>2 DEF IInv, ActiveInv, Says
<1>6. HistoryInv'
  <2>1. seen \in [Requests -> 0..MaxVersions] /\ since \in 0..MaxVersions  BY DEF IInv, HistoryInv
  <2>2. seen' \in [Requests -> 0..MaxVersions] /\ seen'[r] = s /\ \A x \in Requests \ {r} : seen'[x] = seen[x]
    BY <2>1
  <2>3. ASSUME NEW x \in Requests
        PROVE  1..seen'[x] \subseteq Inserted' /\ (HasRows(req'[x]) => 1..seen'[x] \subseteq req'[x].rows)
    <3>1. CASE x = r  BY <1>2, <1>3, <2>2, <3>1
    <3>2. CASE x # r
      <4>1. HasRows(req'[x]) => HasRows(req[x]) /\ req'[x].rows = req[x].rows  BY <1>3, <3>2 DEF HasRows
      <4>2. 1..seen[x] \subseteq Inserted /\ (HasRows(req[x]) => 1..seen[x] \subseteq req[x].rows)
        BY DEF IInv, HistoryInv
      <4> QED  BY <1>2, <2>2, <3>2, <4>1, <4>2
    <3> QED  BY <3>1, <3>2
  <2> QED  BY <1>1, <2>1, <2>2, <2>3 DEF HistoryInv
<1> QED  BY <1>3, <1>4, <1>5, <1>6 DEF IInv

\* One that is not the first either.
LEMMA AdvanceKeeps ==
    ASSUME IInv, NEW r \in Requests, NEW q, Advance(r, q), wf.state # "none",
           RequestOK(q, Inserted, wf, hook), HasRows(q) => 1..seen[r] \subseteq q.rows
    PROVE  IInv'
<1>1. Continue(r, q, wf, version, hook) /\ UNCHANGED <<run, since>> /\ seen' = seen
  BY DEF Advance, history
<1>2. seen[r] \in 0..MaxVersions /\ seen' = [seen EXCEPT ![r] = seen[r]] /\ 1..seen[r] \subseteq Inserted
  BY <1>1 DEF IInv, HistoryInv
<1> QED  BY <1>1, <1>2, StepKeeps

\* A request that has ended leaves what the others have matched.
LEMMA OthersHaveRows ==
    ASSUME HistoryInv, NEW r \in Requests, ~HasRows(req'[r]), Inserted \subseteq Inserted',
           seen' = seen, since' \in 0..MaxVersions,
           \A x \in Requests \ {r} : /\ req'[x].phase = req[x].phase
                                     /\ HasRows(req[x]) => req'[x].rows = req[x].rows
    PROVE  HistoryInv'
<1>1. \A x \in Requests : HasRows(req'[x]) => HasRows(req[x]) /\ req'[x].rows = req[x].rows
  BY DEF HasRows
<1> QED  BY <1>1 DEF HistoryInv

LEMMA RefuseKeeps ==
    ASSUME IInv, NEW r \in Requests, req[r].phase \notin {"idle", "done"}, Refuse(r)
    PROVE  IInv'
<1>1. Advance(r, Done)  BY DEF Refuse
<1>2. RequestOK(Done, Inserted, wf, hook) /\ ~HasRows(Done)  BY DEF RequestOK, Request, Done, HasRows
<1> QED  BY <1>1, <1>2, Known, AdvanceKeeps

\* A request that writes the rows w and h, and no version, ends.
LEMMA WriteKeeps ==
    ASSUME IInv, NEW r \in Requests, req[r].phase \notin {"idle", "done"},
           NEW w \in Workflow, NEW h \in Webhook, Continue(r, Done, w, version, h),
           run' \in [Requests -> 0..MaxVersions], UNCHANGED history,
           w.state # "none", w.active \in {0, wf.active}, w.state = "live" => wf.state = "live" /\ w.active = wf.active
    PROVE  IInv'
<1>1. wf' = w /\ version' = version /\ hook' = h  BY DEF Continue
<1>2. /\ RequestInv'
      /\ req'[r] = Done
      /\ \A x \in Requests \ {r} : /\ req'[x].phase = req[x].phase
                                   /\ HasRows(req[x]) => req'[x].rows = req[x].rows
  <2>1. RequestInv /\ RequestOK(Done, DOMAIN version, w, h)  BY DEF IInv, RequestOK, Request
  <2>2. Inserted \subseteq DOMAIN version  BY DEF Inserted
  <2> QED  BY <2>1, <2>2, ContinueKeeps
<1>3. DataInv'  BY <1>1 DEF IInv, DataInv, Inserted
<1>4. Says' = Says  BY <1>1 DEF Says, Inserted
<1>5. ActiveInv'  BY <1>1, <1>4 DEF IInv, ActiveInv, history
<1>6. HistoryInv'
  <2>1. ~HasRows(req'[r]) /\ Inserted \subseteq Inserted'  BY <1>1, <1>2 DEF HasRows, Done, Inserted
  <2>2. HistoryInv /\ seen' = seen /\ since' \in 0..MaxVersions  BY DEF IInv, HistoryInv, history
  <2> QED  BY <1>2, <2>1, <2>2, OthersHaveRows
<1> QED  BY <1>2, <1>3, <1>5, <1>6 DEF IInv

-----------------------------------------------------------------------------
(* Each action keeps the invariant. *)

\* The ids of the versions are 1..n, and so are their numbers.
LEMMA Rows ==
    ASSUME IInv
    PROVE  \E n \in 0..MaxVersions : /\ version \in [1..n -> Version] /\ Inserted = 1..n
                                     /\ n \in Nat /\ Cardinality(Inserted) = n
                                     /\ \A i \in 1..n : version[i].number = i
<1>1. PICK n \in 0..MaxVersions : version \in [1..n -> Version]  BY DEF IInv, DataInv
<1>2. Inserted = 1..n  BY <1>1 DEF Inserted
<1>3. n \in Nat /\ n = n - 1 + 1  BY <1>1, WorkflowsAssumption
<1>4. Cardinality(1..n) = n
  <2>1. Cardinality(1..n) = IF 1 > n THEN 0 ELSE n - 1 + 1  BY <1>3, FS_Interval
  <2> QED  BY <1>3, <2>1
<1>5. \A i \in 1..n : version[i].number = i  BY <1>2 DEF IInv, DataInv
<1> QED  BY <1>1, <1>2, <1>3, <1>4, <1>5

\* A request goes on from o to q: to phase a, with these values.
Allowed(a, d, e, f) ==
    /\ a \in {"read", "workflow", "write", "insert", "match", "lock", "locked"}
    /\ d \in 0..(MaxVersions + 1) /\ e \in {0} \cup Secrets /\ f \in SUBSET Ids

Moves(q, o, a, d, e, f) ==
    /\ q.phase = a /\ q.kind = o.kind /\ q.role = o.role /\ q.target = d
    /\ q.presented = e /\ q.rows = f /\ q.was = o.was

LEMMA Moved ==
    ASSUME NEW o, Fields(o), NEW q, NEW a, NEW d, NEW e, NEW f, Allowed(a, d, e, f),
           q = Record(a, o.kind, o.role, d, e, f, o.was)
    PROVE  Moves(q, o, a, d, e, f) /\ q \in Request /\ q \notin {Idle, Done}
<1>1. /\ o.kind \in Kinds /\ o.role \in {"ADMIN", "MEMBER", "PUBLIC"} /\ o.was \in SUBSET Facts
      /\ a \in {"guard", "read", "workflow", "write", "insert", "match", "lock", "locked"}
      /\ d \in 0..(MaxVersions + 1) /\ e \in {0} \cup Secrets /\ f \in SUBSET Ids
  BY DEF Fields, Allowed
<1> QED  BY <1>1, RecordOK DEF Moves

\* What remains is what the request then knows.
LEMMA GoesOn ==
    ASSUME IInv, NEW r \in Requests, req[r].phase \notin {"idle", "done"},
           NEW a, NEW d, NEW e, NEW f, Allowed(a, d, e, f), a \in {"lock", "locked"} => 1..seen[r] \subseteq f, NEW q,
           q = Record(a, req[r].kind, req[r].role, d, e, f, req[r].was),
           Advance(r, q),
           Moves(q, req[r], a, d, e, f) => Knows(q, Inserted, wf, hook)
    PROVE  IInv'
<1> DEFINE o == req[r]
<1>1. Fields(o) /\ wf.state # "none"  BY Known
<1>2. q = Record(a, o.kind, o.role, d, e, f, o.was)  OBVIOUS
<1>3. Moves(q, o, a, d, e, f) => Knows(q, Inserted, wf, hook)  OBVIOUS
<1> HIDE DEF o
<1>4. Moves(q, o, a, d, e, f) /\ q \in Request /\ q \notin {Idle, Done}  BY <1>1, <1>2, Moved
<1>5. HasRows(q) => 1..seen[r] \subseteq q.rows  BY <1>4 DEF Moves, HasRows
<1>6. RequestOK(q, Inserted, wf, hook)  BY <1>3, <1>4 DEF RequestOK
<1> QED  BY <1>1, <1>5, <1>6, AdvanceKeeps

LEMMA BeginKeeps ==
    ASSUME IInv, NEW r \in Requests, NEW kind \in Kinds, NEW role \in {"ADMIN", "MEMBER", "PUBLIC"},
           Begin(r, kind, role)
    PROVE  IInv'
<1> DEFINE a == IF kind \in Guarded /\ role = "MEMBER" THEN "guard" ELSE "read"
           q == Record(a, kind, role, 0, 0, {}, Holding(kind, wf, hook))
<1>1. /\ q.phase = a /\ q.kind = kind /\ q.role = role /\ q.rows = {} /\ q.was = Holding(kind, wf, hook)
      /\ q \in Request /\ q \notin {Idle, Done}
  <2>1. Holding(kind, wf, hook) \in SUBSET Facts  BY HoldingFacts
  <2>2. 0 \in 0..(MaxVersions + 1)  BY WorkflowsAssumption
  <2> QED  BY <2>1, <2>2, RecordOK
<1> DEFINE s == IF kind = "activate" THEN Cardinality(Inserted) ELSE seen[r]
<1>2. /\ Continue(r, q, wf, version, hook) /\ UNCHANGED <<run, since>> /\ wf.state # "none"
      /\ seen' = [seen EXCEPT ![r] = s]
  BY DEF Begin, Record
<1>3. kind \in Guarded /\ role # "ADMIN" => a = "guard"
  BY DEF Begin, MayCall, Guarded, WorkflowRoutes, VersionRoutes, WebhookRoutes
<1>4. a \in {"guard", "read"} /\ (a = "guard" => kind \in Guarded)  OBVIOUS
<1>7. s \in 0..MaxVersions /\ 1..s \subseteq Inserted
  <2>1. \E n \in 0..MaxVersions : Inserted = 1..n /\ Cardinality(Inserted) = n  BY Rows
  <2>2. seen[r] \in 0..MaxVersions /\ 1..seen[r] \subseteq Inserted  BY DEF IInv, HistoryInv
  <2> QED  BY <2>1, <2>2
<1> HIDE DEF q, a, s
<1>5. Knows(q, Inserted, wf, hook)  BY <1>1, <1>3, <1>4 DEF Knows, HasRows
<1>6. RequestOK(q, Inserted, wf, hook) /\ ~HasRows(q)  BY <1>1, <1>4, <1>5 DEF RequestOK, HasRows
<1> QED  BY <1>2, <1>6, <1>7, StepKeeps

LEMMA AccessGuardKeeps ==
    ASSUME IInv, NEW r \in Requests, AccessGuard(r)
    PROVE  IInv'
<1>1. req[r].phase = "guard"  BY DEF AccessGuard
<1>2. Knows(req[r], Inserted, wf, hook) /\ Fields(req[r])  BY <1>1, Known
<1>3. CASE Refuse(r)  BY <1>1, <1>3, RefuseKeeps
<1>4. CASE wf.state = "live" /\ wf.access = "EDITOR" /\ Advance(r, [req[r] EXCEPT !.phase = "read"])
  <2> DEFINE q == [req[r] EXCEPT !.phase = "read"]
  <2>1. q = Record("read", req[r].kind, req[r].role, req[r].target, req[r].presented, req[r].rows, req[r].was)
    BY <1>2, Assigned
  <2>2. req[r].kind \in Guarded => <<"editable", 0>> \in req[r].was
    BY <1>2, <1>4, HoldingFacts DEF Knows
  <2>3. Advance(r, q)  BY <1>4
  <2> HIDE DEF q
  <2>4. Moves(q, req[r], "read", req[r].target, req[r].presented, req[r].rows) => Knows(q, Inserted, wf, hook)
    BY <1>1, <1>2, <2>2 DEF Moves, Knows, HasRows
  <2>5. Allowed("read", req[r].target, req[r].presented, req[r].rows)  BY <1>2 DEF Fields, Allowed
  <2>6. req[r].phase \notin {"idle", "done"} /\ "read" \notin {"lock", "locked"}  BY <1>1
  <2> QED  BY <2>1, <2>3, <2>4, <2>5, <2>6, GoesOn
<1> QED  BY <1>3, <1>4 DEF AccessGuard

LEMMA FindWorkflowKeeps ==
    ASSUME IInv, NEW r \in Requests, FindWorkflow(r)
    PROVE  IInv'
<1>1. req[r].phase = "read" /\ req[r].kind \in {"update", "delete", "version", "hookCreate"}
  BY DEF FindWorkflow, At
<1>2. Knows(req[r], Inserted, wf, hook) /\ Fields(req[r])  BY <1>1, Known
<1>3. CASE Refuse(r)  BY <1>1, <1>3, RefuseKeeps
<1>4. CASE wf.state = "live" /\ Advance(r, [req[r] EXCEPT !.phase = "write"])
  <2> DEFINE q == [req[r] EXCEPT !.phase = "write"]
  <2>1. q = Record("write", req[r].kind, req[r].role, req[r].target, req[r].presented, req[r].rows, req[r].was)
    BY <1>2, Assigned
  <2>2. req[r].kind \in Guarded => <<"live", 0>> \in req[r].was
    BY <1>2, <1>4, HoldingFacts DEF Knows
  <2>3. Advance(r, q)  BY <1>4
  <2> HIDE DEF q
  <2>4. Moves(q, req[r], "write", req[r].target, req[r].presented, req[r].rows) => Knows(q, Inserted, wf, hook)
    BY <1>1, <1>2, <2>2 DEF Moves, Knows, HasRows
  <2>5. Allowed("write", req[r].target, req[r].presented, req[r].rows)  BY <1>2 DEF Fields, Allowed
  <2>6. req[r].phase \notin {"idle", "done"} /\ "write" \notin {"lock", "locked"}  BY <1>1
  <2> QED  BY <2>1, <2>3, <2>4, <2>5, <2>6, GoesOn
<1> QED  BY <1>3, <1>4 DEF FindWorkflow

LEMMA LoadVersionKeeps ==
    ASSUME IInv, NEW r \in Requests, NEW v \in Ids, LoadVersion(r, v)
    PROVE  IInv'
<1>1. req[r].phase = "read" /\ req[r].kind = "activate"  BY DEF LoadVersion, At
<1>2. Knows(req[r], Inserted, wf, hook) /\ Fields(req[r])  BY <1>1, Known
<1>3. CASE Refuse(r)  BY <1>1, <1>3, RefuseKeeps
<1>4. CASE wf.state = "live" /\ v \in Inserted /\ Advance(r, [req[r] EXCEPT !.phase = "match", !.target = v])
  <2> DEFINE q == [req[r] EXCEPT !.phase = "match", !.target = v]
  <2>1. q = Record("match", req[r].kind, req[r].role, v, req[r].presented, req[r].rows, req[r].was)
    BY <1>2, Assigned
  <2>2. req[r].kind \in Guarded => <<"live", 0>> \in req[r].was
    BY <1>2, <1>4, HoldingFacts DEF Knows
  <2>3. Advance(r, q)  BY <1>4
  <2>4. v \in 0..(MaxVersions + 1)  BY WorkflowsAssumption DEF Ids
  <2> HIDE DEF q
  <2>5. Moves(q, req[r], "match", v, req[r].presented, req[r].rows) => Knows(q, Inserted, wf, hook)
    BY <1>1, <1>2, <1>4, <2>2 DEF Moves, Knows, HasRows
  <2>6. Allowed("match", v, req[r].presented, req[r].rows)  BY <1>2, <2>4 DEF Fields, Allowed
  <2>7. req[r].phase \notin {"idle", "done"} /\ "match" \notin {"lock", "locked"}  BY <1>1
  <2> QED  BY <2>1, <2>3, <2>5, <2>6, <2>7, GoesOn
<1> QED  BY <1>3, <1>4 DEF LoadVersion

LEMMA FindWebhookKeeps ==
    ASSUME IInv, NEW r \in Requests, FindWebhook(r)
    PROVE  IInv'
<1>1. req[r].phase = "read" /\ req[r].kind \in {"hookUpdate", "hookRemove"}  BY DEF FindWebhook, At
<1>2. Knows(req[r], Inserted, wf, hook) /\ Fields(req[r])  BY <1>1, Known
<1>3. CASE Refuse(r)  BY <1>1, <1>3, RefuseKeeps
<1>4. CASE Advance(r, [req[r] EXCEPT !.phase = "write"])
  <2> DEFINE q == [req[r] EXCEPT !.phase = "write"]
  <2>1. q = Record("write", req[r].kind, req[r].role, req[r].target, req[r].presented, req[r].rows, req[r].was)
    BY <1>2, Assigned
  <2>2. req[r].kind \notin Guarded  BY <1>1 DEF Guarded, WorkflowRoutes, VersionRoutes
  <2>3. Advance(r, q)  BY <1>4
  <2> HIDE DEF q
  <2>4. Moves(q, req[r], "write", req[r].target, req[r].presented, req[r].rows) => Knows(q, Inserted, wf, hook)
    BY <1>1, <1>2, <2>2 DEF Moves, Knows, HasRows
  <2>5. Allowed("write", req[r].target, req[r].presented, req[r].rows)  BY <1>2 DEF Fields, Allowed
  <2>6. req[r].phase \notin {"idle", "done"} /\ "write" \notin {"lock", "locked"}  BY <1>1
  <2> QED  BY <2>1, <2>3, <2>4, <2>5, <2>6, GoesOn
<1> QED  BY <1>3, <1>4 DEF FindWebhook

LEMMA ReceiveCallKeeps ==
    ASSUME IInv, NEW r \in Requests, NEW s \in Secrets, ReceiveCall(r, s)
    PROVE  IInv'
<1>1. req[r].phase = "read" /\ req[r].kind = "incoming"  BY DEF ReceiveCall, At
<1>2. Knows(req[r], Inserted, wf, hook) /\ Fields(req[r])  BY <1>1, Known
<1>3. CASE Refuse(r)  BY <1>1, <1>3, RefuseKeeps
<1>4. CASE hook.state = "on" /\ hook.secret = s /\ Advance(r, [req[r] EXCEPT !.phase = "workflow", !.presented = s])
  <2> DEFINE q == [req[r] EXCEPT !.phase = "workflow", !.presented = s]
  <2>1. q = Record("workflow", req[r].kind, req[r].role, req[r].target, s, req[r].rows, req[r].was)
    BY <1>2, Assigned
  <2>2. <<"secret", s>> \in req[r].was
    BY <1>1, <1>2, <1>4, HoldingFacts DEF Knows
  <2>3. Advance(r, q)  BY <1>4
  <2>4. "incoming" \notin Guarded  BY DEF Guarded, WorkflowRoutes, VersionRoutes
  <2> HIDE DEF q
  <2>5. Moves(q, req[r], "workflow", req[r].target, s, req[r].rows) => Knows(q, Inserted, wf, hook)
    BY <1>1, <1>2, <2>2, <2>4 DEF Moves, Knows, HasRows
  <2>6. Allowed("workflow", req[r].target, s, req[r].rows)  BY <1>2 DEF Fields, Allowed
  <2>7. req[r].phase \notin {"idle", "done"} /\ "workflow" \notin {"lock", "locked"}  BY <1>1
  <2> QED  BY <2>1, <2>3, <2>5, <2>6, <2>7, GoesOn
<1> QED  BY <1>3, <1>4 DEF ReceiveCall

LEMMA FindActiveVersionKeeps ==
    ASSUME IInv, NEW r \in Requests, FindActiveVersion(r)
    PROVE  IInv'
<1>1. \/ req[r].phase = "workflow" /\ req[r].kind = "incoming"
      \/ req[r].phase = "read" /\ req[r].kind = "trigger"
  BY DEF FindActiveVersion, At
<1>2. Knows(req[r], Inserted, wf, hook) /\ Fields(req[r])  BY <1>1, Known
<1>3. CASE Refuse(r)  BY <1>1, <1>3, RefuseKeeps
<1>4. CASE wf.state = "live" /\ wf.active # 0 /\ Advance(r, [req[r] EXCEPT !.phase = "write", !.target = wf.active])
  <2> DEFINE q == [req[r] EXCEPT !.phase = "write", !.target = wf.active]
  <2>1. q = Record("write", req[r].kind, req[r].role, wf.active, req[r].presented, req[r].rows, req[r].was)
    BY <1>2, Assigned
  <2>2. wf.active \in Ids /\ wf.active \in Inserted /\ wf.active \in 0..(MaxVersions + 1)
    BY <1>4, WorkflowsAssumption DEF IInv, DataInv, Workflow, Ids
  <2>3. <<"active", wf.active>> \in req[r].was
    <3>1. <<"active", wf.active>> \in Holding(req[r].kind, wf, hook)  BY <1>1, <1>4, <2>2, HoldingFacts
    <3> QED  BY <1>2, <3>1 DEF Knows
  <2>4. Advance(r, q)  BY <1>4
  <2>5. {"incoming", "trigger"} \cap Guarded = {}  BY DEF Guarded, WorkflowRoutes, VersionRoutes
  <2> HIDE DEF q
  <2>6. Moves(q, req[r], "write", wf.active, req[r].presented, req[r].rows) => Knows(q, Inserted, wf, hook)
    BY <1>1, <1>2, <2>2, <2>3, <2>5 DEF Moves, Knows, HasRows
  <2>7. Allowed("write", wf.active, req[r].presented, req[r].rows)  BY <1>2, <2>2 DEF Fields, Allowed
  <2>8. req[r].phase \notin {"idle", "done"} /\ "write" \notin {"lock", "locked"}  BY <1>1
  <2> QED  BY <2>1, <2>4, <2>6, <2>7, <2>8, GoesOn
<1> QED  BY <1>3, <1>4 DEF FindActiveVersion

-----------------------------------------------------------------------------
(* Versions. *)

LEMMA ReadLatestKeeps ==
    ASSUME IInv, NEW r \in Requests, ReadLatest(r)
    PROVE  IInv'
<1> DEFINE latest == {version[i].number : i \in Inserted} \cup {0}
           d == (CHOOSE n \in latest : \A m \in latest : m <= n) + 1
           q == [req[r] EXCEPT !.phase = "insert", !.target = d]
<1>1. req[r].phase = "write" /\ req[r].kind = "version" /\ Cardinality(Inserted) < MaxVersions /\ Advance(r, q)
  BY DEF ReadLatest, At
<1>2. Knows(req[r], Inserted, wf, hook) /\ Fields(req[r])  BY <1>1, Known
<1>3. PICK n \in 0..MaxVersions : /\ Inserted = 1..n /\ n \in Nat /\ Cardinality(Inserted) = n
                                  /\ \A i \in 1..n : version[i].number = i
  BY Rows
<1>4. d = n + 1
  <2>1. latest = 0..n
    <3>1. {version[i].number : i \in Inserted} = 1..n  BY <1>3
    <3> QED  BY <1>3, <3>1
  <2>2. n \in latest /\ \A m \in latest : m <= n  BY <1>3, <2>1
  <2>3. ASSUME NEW k \in latest, \A m \in latest : m <= k  PROVE k = n
    <3>1. k \in Nat /\ k <= n  BY <1>3, <2>1
    <3>2. n <= k  BY <2>2, <2>3
    <3> QED  BY <1>3, <3>1, <3>2
  <2> HIDE DEF latest
  <2>4. (CHOOSE k \in latest : \A m \in latest : m <= k) = n  BY <2>2, <2>3
  <2> QED  BY <2>4
<1>5. d \in Ids /\ d \in 0..(MaxVersions + 1) /\ 1..(d - 1) \subseteq Inserted
  <2> HIDE DEF d
  <2> QED  BY <1>1, <1>3, <1>4, WorkflowsAssumption DEF Ids
<1> HIDE DEF d
<1>6. q = Record("insert", req[r].kind, req[r].role, d, req[r].presented, req[r].rows, req[r].was)
  BY <1>2, Assigned
<1>7. Advance(r, q)  BY <1>1
<1> HIDE DEF q
<1>8. Moves(q, req[r], "insert", d, req[r].presented, req[r].rows) => Knows(q, Inserted, wf, hook)
  BY <1>1, <1>2, <1>5 DEF Moves, Knows, HasRows
<1>9. Allowed("insert", d, req[r].presented, req[r].rows)  BY <1>2, <1>5 DEF Fields, Allowed
<1>10. req[r].phase \notin {"idle", "done"} /\ "insert" \notin {"lock", "locked"}  BY <1>1
<1> QED  BY <1>6, <1>7, <1>8, <1>9, <1>10, GoesOn

LEMMA InsertVersionKeeps ==
    ASSUME IInv, NEW r \in Requests, InsertVersion(r)
    PROVE  IInv'
<1>1. req[r].phase = "insert"  BY DEF InsertVersion
<1>2. Knows(req[r], Inserted, wf, hook) /\ Fields(req[r]) /\ wf.state # "none"  BY <1>1, Known
<1>3. CASE Refuse(r)  BY <1>1, <1>3, RefuseKeeps
<1>4. PICK n \in 0..MaxVersions : /\ version \in [1..n -> Version] /\ Inserted = 1..n
                                  /\ n \in Nat /\ Cardinality(Inserted) = n
                                  /\ \A i \in 1..n : version[i].number = i
  BY Rows
<1> DEFINE d == req[r].target
           row == [number |-> d, isActive |-> FALSE]
           v == [i \in 1..(Cardinality(Inserted) + 1) |-> IF i \in Inserted THEN version[i] ELSE row]
<1>5. CASE ~(\E i \in Inserted : version[i].number = d) /\ Write(r, wf, v, hook)
  <2>1. d \in Ids /\ 1..(d - 1) \subseteq Inserted  BY <1>1, <1>2 DEF Knows
  <2>2. row \in Version /\ row.number = d /\ row.isActive = FALSE  BY <2>1 DEF Version
  <2> HIDE DEF d, row
  <2>3. d = n + 1 /\ n + 1 \in 0..MaxVersions
    <3>1. d \notin 1..n  BY <1>4, <1>5
    <3>2. d \in Nat \ {0} /\ d <= MaxVersions  BY <2>1, WorkflowsAssumption DEF Ids
    <3>3. d > n  BY <1>4, <3>1, <3>2
    <3>4. d - 1 \notin 1..(d - 1) \/ d - 1 <= n  BY <1>4, <2>1, <3>2
    <3> QED  BY <1>4, <3>2, <3>3, <3>4, WorkflowsAssumption
  <2>4. v = [i \in 1..(n + 1) |-> IF i \in 1..n THEN version[i] ELSE row]  BY <1>4
  <2>5. Continue(r, Done, wf, v, hook) /\ run' = run /\ UNCHANGED history  BY <1>5 DEF Write
  <2> HIDE DEF v
  <2>6. DOMAIN v = 1..(n + 1) /\ \A i \in 1..n : v[i] = version[i]
    BY <1>4, <2>4
  <2>7. v[n + 1] = row  BY <1>4, <2>4
  <2>8. \A i \in 1..(n + 1) : i \in 1..n \/ i = n + 1  BY <1>4
  <2>9. v \in [1..(n + 1) -> Version]
    <3>1. \A i \in 1..(n + 1) : v[i] \in Version  BY <1>4, <2>2, <2>6, <2>7, <2>8
    <3> QED  BY <2>4, <3>1
  <2>10. \A i \in 1..(n + 1) : v[i].number = i  BY <1>4, <2>2, <2>3, <2>6, <2>7, <2>8
  <2>11. {i \in 1..(n + 1) : v[i].isActive} = Says
    BY <1>4, <2>2, <2>6, <2>7, <2>8 DEF Says
  <2>12. wf' = wf /\ version' = v /\ hook' = hook /\ Inserted' = 1..(n + 1)
    BY <2>5, <2>6 DEF Continue, Inserted
  <2>13. Says' = Says  BY <2>11, <2>12 DEF Says
  <2>14. Inserted \subseteq DOMAIN v  BY <1>4, <2>6
  <2>15. /\ RequestInv'
         /\ req'[r] = Done
         /\ \A x \in Requests \ {r} : /\ req'[x].phase = req[x].phase
                                      /\ HasRows(req[x]) => req'[x].rows = req[x].rows
    <3>1. RequestInv /\ RequestOK(Done, DOMAIN v, wf, hook)  BY DEF IInv, RequestOK, Request
    <3> QED  BY <2>5, <2>14, <3>1, ContinueKeeps
  <2>16. DataInv'
    <3>1. wf' \in Workflow /\ hook' \in Webhook /\ run' \in [Requests -> 0..MaxVersions]
      BY <2>5, <2>12 DEF IInv, DataInv
    <3>2. \E k \in 0..MaxVersions : version' \in [1..k -> Version]  BY <2>3, <2>9, <2>12
    <3>3. \A i \in Inserted' : version'[i].number = i  BY <2>10, <2>12
    <3>4. wf'.active \in {0} \cup Inserted'  BY <2>12, <2>14, <2>6 DEF IInv, DataInv
    <3> QED  BY <1>2, <2>12, <3>1, <3>2, <3>3, <3>4 DEF DataInv
  <2>17. ActiveInv'  BY <2>5, <2>12, <2>13 DEF IInv, ActiveInv, history
  <2>18. HistoryInv'
    <3>1. ~HasRows(req'[r]) /\ Inserted \subseteq Inserted'  BY <2>12, <2>14, <2>15, <2>6 DEF HasRows, Done
    <3>2. HistoryInv /\ seen' = seen /\ since' \in 0..MaxVersions  BY <2>5 DEF IInv, HistoryInv, history
    <3> QED  BY <2>15, <3>1, <3>2, OthersHaveRows
  <2> QED  BY <2>15, <2>16, <2>17, <2>18 DEF IInv
<1> QED  BY <1>3, <1>5 DEF InsertVersion

LEMMA MatchVersionsKeeps ==
    ASSUME IInv, NEW r \in Requests, MatchVersions(r)
    PROVE  IInv'
<1> DEFINE q == [req[r] EXCEPT !.phase = "lock", !.rows = Inserted]
<1>1. req[r].phase = "match" /\ Advance(r, q)  BY DEF MatchVersions, Matched
<1>2. Knows(req[r], Inserted, wf, hook) /\ Fields(req[r])  BY <1>1, Known
<1>3. q = Record("lock", req[r].kind, req[r].role, req[r].target, req[r].presented, Inserted, req[r].was)
  BY <1>2, Assigned
<1>4. Advance(r, q)  BY <1>1
<1> HIDE DEF q
<1>5. Inserted \in SUBSET Ids /\ 1..seen[r] \subseteq Inserted
  <2>1. PICK n \in 0..MaxVersions : Inserted = 1..n /\ n \in Nat  BY Rows
  <2>2. Inserted \in SUBSET Ids  BY <2>1, WorkflowsAssumption DEF Ids
  <2> QED  BY <2>2 DEF IInv, HistoryInv
<1>6. Moves(q, req[r], "lock", req[r].target, req[r].presented, Inserted) => Knows(q, Inserted, wf, hook)
  BY <1>1, <1>2 DEF Moves, Knows, HasRows
<1>7. Allowed("lock", req[r].target, req[r].presented, Inserted)  BY <1>2, <1>5 DEF Fields, Allowed
<1>8. req[r].phase \notin {"idle", "done"}  BY <1>1
<1> QED  BY <1>3, <1>4, <1>5, <1>6, <1>7, <1>8, GoesOn

LEMMA DeactivateAllKeeps ==
    ASSUME IInv, NEW r \in Requests, DeactivateAll(r)
    PROVE  IInv'
<1> DEFINE q == [req[r] EXCEPT !.phase = "locked"]
<1>1. req[r].phase = "lock" /\ Advance(r, q)  BY DEF DeactivateAll
<1>2. Knows(req[r], Inserted, wf, hook) /\ Fields(req[r])  BY <1>1, Known
<1>3. q = Record("locked", req[r].kind, req[r].role, req[r].target, req[r].presented, req[r].rows, req[r].was)
  BY <1>2, Assigned
<1>4. Advance(r, q)  BY <1>1
<1> HIDE DEF q
<1>5. 1..seen[r] \subseteq req[r].rows  BY <1>1 DEF IInv, HistoryInv, HasRows
<1>6. Moves(q, req[r], "locked", req[r].target, req[r].presented, req[r].rows) => Knows(q, Inserted, wf, hook)
  BY <1>1, <1>2 DEF Moves, Knows, HasRows
<1>7. Allowed("locked", req[r].target, req[r].presented, req[r].rows)  BY <1>2 DEF Fields, Allowed
<1>8. req[r].phase \notin {"idle", "done"}  BY <1>1
<1> QED  BY <1>3, <1>4, <1>5, <1>6, <1>7, <1>8, GoesOn

LEMMA ActivateVersionKeeps ==
    ASSUME IInv, NEW r \in Requests, ActivateVersion(r)
    PROVE  IInv'
<1> DEFINE d == req[r].target
           rows == req[r].rows
           w == [wf EXCEPT !.active = d]
           v == [i \in Inserted |-> [version[i] EXCEPT !.isActive = i = d \/ (@ /\ i \notin rows)]]
<1>1. req[r].phase = "locked" /\ Continue(r, Done, w, v, hook) /\ run' = run /\ seen' = seen /\ since' = seen[r]
  BY DEF ActivateVersion
<1>2. Knows(req[r], Inserted, wf, hook) /\ Fields(req[r]) /\ wf.state # "none"  BY <1>1, Known
<1>3. d \in Inserted  BY <1>1, <1>2 DEF Knows
<1>4. 1..seen[r] \subseteq rows /\ seen[r] \in 0..MaxVersions  BY <1>1 DEF IInv, HistoryInv, HasRows
<1>5. PICK n \in 0..MaxVersions : /\ version \in [1..n -> Version] /\ Inserted = 1..n /\ n \in Nat
                                  /\ \A i \in 1..n : version[i].number = i
  BY Rows
<1> HIDE DEF d, rows
<1>6. ASSUME NEW i \in 1..n
      PROVE  /\ v[i] \in Version /\ v[i].number = i
             /\ v[i].isActive <=> i = d \/ (i \in Says /\ i \notin rows)
  <2> DEFINE b == i = d \/ (version[i].isActive /\ i \notin rows)
  <2>1. v[i] = [version[i] EXCEPT !.isActive = b]  BY <1>5
  <2>2. b \in BOOLEAN  OBVIOUS
  <2>3. b <=> i = d \/ (i \in Says /\ i \notin rows)  BY <1>5 DEF Says
  <2>4. version[i] \in Version /\ version[i].number = i  BY <1>5
  <2> HIDE DEF b, v
  <2>5. v[i] = [number |-> i, isActive |-> b]  BY <2>1, <2>4 DEF Version
  <2>6. i \in Ids  BY <2>4 DEF Version
  <2>7. v[i] \in Version /\ v[i].number = i /\ v[i].isActive = b  BY <2>2, <2>5, <2>6 DEF Version
  <2> QED  BY <2>3, <2>7
<1>7. v = [i \in 1..n |-> v[i]] /\ DOMAIN v = 1..n  BY <1>5
<1>8. w \in Workflow /\ w.active = d /\ w.state = wf.state
  <2>1. wf \in Workflow  BY DEF IInv, DataInv
  <2>2. d \in 0..MaxVersions  BY <1>3, <1>5, WorkflowsAssumption
  <2> QED  BY <2>1, <2>2 DEF Workflow
<1> HIDE DEF v, w
<1>9. v \in [1..n -> Version]  BY <1>6, <1>7
<1>10. wf' = w /\ version' = v /\ hook' = hook /\ Inserted' = 1..n
  BY <1>1, <1>7 DEF Continue, Inserted
<1>11. Says' = {d} \cup (Says \ rows)
  <2>1. d \in 1..n /\ Says \subseteq 1..n  BY <1>3, <1>5 DEF Says
  <2>2. {i \in 1..n : v[i].isActive} = {d} \cup (Says \ rows)  BY <1>6, <2>1
  <2> QED  BY <1>10, <2>2 DEF Says
<1>12. /\ RequestInv'
       /\ req'[r] = Done
       /\ \A x \in Requests \ {r} : /\ req'[x].phase = req[x].phase
                                    /\ HasRows(req[x]) => req'[x].rows = req[x].rows
  <2>1. RequestInv /\ RequestOK(Done, DOMAIN v, w, hook)  BY DEF IInv, RequestOK, Request
  <2>2. Inserted \subseteq DOMAIN v  BY <1>5, <1>7
  <2> QED  BY <1>1, <2>1, <2>2, ContinueKeeps
<1>13. DataInv'
  <2>1. wf' \in Workflow /\ hook' \in Webhook /\ run' \in [Requests -> 0..MaxVersions]
    BY <1>1, <1>8, <1>10 DEF IInv, DataInv
  <2>2. \E k \in 0..MaxVersions : version' \in [1..k -> Version]  BY <1>9, <1>10
  <2>3. \A i \in Inserted' : version'[i].number = i  BY <1>6, <1>10
  <2>4. wf'.active \in {0} \cup Inserted'  BY <1>3, <1>5, <1>8, <1>10
  <2>5. wf'.state # "none"  BY <1>2, <1>8, <1>10
  <2> QED  BY <2>1, <2>2, <2>3, <2>4, <2>5 DEF DataInv
<1>14. ActiveInv'
  <2>1. wf'.active = d  BY <1>8, <1>10
  <2>2. ASSUME NEW i \in Says', i <= since'  PROVE i = d
    <3>1. i \in 1..n  BY <1>3, <1>5, <1>11 DEF Says
    <3>2. i \in 1..seen[r]  BY <1>1, <1>4, <1>5, <2>2, <3>1, WorkflowsAssumption
    <3>3. i \in rows  BY <1>4, <3>2
    <3> QED  BY <1>11, <3>3
  <2>3. d \in Says'  BY <1>11
  <2> QED  BY <2>1, <2>2, <2>3 DEF ActiveInv
<1>15. HistoryInv'
  <2>1. ~HasRows(req'[r]) /\ Inserted \subseteq Inserted'  BY <1>5, <1>10, <1>12 DEF HasRows, Done
  <2>2. HistoryInv /\ seen' = seen /\ since' \in 0..MaxVersions  BY <1>1, <1>4 DEF IInv
  <2> QED  BY <1>12, <2>1, <2>2, OthersHaveRows
<1> QED  BY <1>12, <1>13, <1>14, <1>15 DEF IInv

LEMMA RollbackKeeps ==
    ASSUME IInv, NEW r \in Requests, Rollback(r)
    PROVE  IInv'
<1>1. req[r].phase \notin {"idle", "done"} /\ Refuse(r)  BY DEF Rollback
<1> QED  BY <1>1, RefuseKeeps

LEMMA UpdateWorkflowKeeps ==
    ASSUME IInv, NEW r \in Requests, NEW access \in {"EDITOR", "VIEWER"}, UpdateWorkflow(r, access)
    PROVE  IInv'
<1> DEFINE w == [wf EXCEPT !.access = access]
<1>1. /\ req[r].phase \notin {"idle", "done"} /\ Continue(r, Done, w, version, hook)
      /\ run' = run /\ UNCHANGED history
  BY DEF UpdateWorkflow, At, Write
<1>2. wf \in Workflow /\ hook \in Webhook /\ run' \in [Requests -> 0..MaxVersions] /\ wf.state # "none"
  BY <1>1, Known DEF IInv, DataInv
<1>3. w \in Workflow /\ w.state = wf.state /\ w.active = wf.active  BY <1>2 DEF Workflow
<1> HIDE DEF w
<1> QED  BY <1>1, <1>2, <1>3, WriteKeeps

LEMMA SoftDeleteKeeps ==
    ASSUME IInv, NEW r \in Requests, SoftDelete(r)
    PROVE  IInv'
<1> DEFINE p == [wf EXCEPT !.state = "deleted"]
           w == [wf EXCEPT !.state = "deleted", !.active = 0]
<1>1. /\ req[r].phase \notin {"idle", "done"} /\ Continue(r, Done, w, version, hook)
      /\ run' = run /\ UNCHANGED history
  BY DEF SoftDelete, At, Write
<1>2. wf \in Workflow /\ hook \in Webhook /\ run' \in [Requests -> 0..MaxVersions]
  BY <1>1 DEF IInv, DataInv
<1>3. w = [p EXCEPT !.active = 0]  OBVIOUS
<1>4. p \in Workflow /\ p.state = "deleted"  BY <1>2 DEF Workflow
<1> HIDE DEF p, w
<1>5. w \in Workflow /\ w.state = "deleted" /\ w.active = 0
  BY <1>3, <1>4, WorkflowsAssumption DEF Workflow
<1> QED  BY <1>1, <1>2, <1>5, WriteKeeps

\* A request that writes the row of the webhook ends.
LEMMA WebhookWritten ==
    ASSUME IInv, NEW r \in Requests, req[r].phase \notin {"idle", "done"},
           NEW h \in Webhook, Write(r, wf, version, h)
    PROVE  IInv'
<1>1. Continue(r, Done, wf, version, h) /\ run' = run /\ UNCHANGED history  BY DEF Write
<1>2. wf \in Workflow /\ run' \in [Requests -> 0..MaxVersions] /\ wf.state # "none"
  BY <1>1, Known DEF IInv, DataInv
<1> QED  BY <1>1, <1>2, WriteKeeps

LEMMA HookStepKeeps ==
    ASSUME IInv, NEW r \in Requests, HookStep(r)
    PROVE  IInv'
<1>1. hook \in Webhook  BY DEF IInv, DataInv
<1>2. CASE CreateWebhook(r)
  <2>1. req[r].phase \notin {"idle", "done"} /\ Write(r, wf, version, [hook EXCEPT !.state = "on"])
    BY <1>2 DEF CreateWebhook, At
  <2>2. [hook EXCEPT !.state = "on"] \in Webhook  BY <1>1 DEF Webhook
  <2> QED  BY <2>1, <2>2, WebhookWritten
<1>3. CASE FindWebhook(r)  BY <1>3, FindWebhookKeeps
<1>4. CASE RemoveWebhook(r)
  <2>1. req[r].phase \notin {"idle", "done"} /\ Write(r, wf, version, [hook EXCEPT !.state = "removed"])
    BY <1>4 DEF RemoveWebhook, At
  <2>2. [hook EXCEPT !.state = "removed"] \in Webhook  BY <1>1 DEF Webhook
  <2> QED  BY <2>1, <2>2, WebhookWritten
<1>5. ASSUME NEW state \in {"on", "off"}, NEW secret \in Secrets, UpdateWebhook(r, state, secret)
      PROVE  IInv'
  <2>1. req[r].phase \notin {"idle", "done"}  BY <1>5 DEF UpdateWebhook, At
  <2>2. [state |-> state, secret |-> secret] \in Webhook  BY DEF Webhook
  <2>3. Write(r, wf, version, [state |-> state, secret |-> secret]) \/ Refuse(r)
    BY <1>5 DEF UpdateWebhook
  <2>4. CASE Write(r, wf, version, [state |-> state, secret |-> secret])
    BY <2>1, <2>2, <2>4, WebhookWritten
  <2>5. CASE Refuse(r)  BY <2>1, <2>5, RefuseKeeps
  <2> QED  BY <2>3, <2>4, <2>5
<1> QED  BY <1>2, <1>3, <1>4, <1>5 DEF HookStep

LEMMA TriggerRunKeeps ==
    ASSUME IInv, NEW r \in Requests, TriggerRun(r)
    PROVE  IInv'
<1>1. /\ req[r].phase = "write" /\ req[r].kind \in {"trigger", "incoming"}
      /\ run' = [run EXCEPT ![r] = req[r].target] /\ Continue(r, Done, wf, version, hook) /\ UNCHANGED history
  BY DEF TriggerRun, At
<1>2. Knows(req[r], Inserted, wf, hook) /\ wf.state # "none"  BY <1>1, Known
<1>3. req[r].target \in 0..MaxVersions
  <2>1. req[r].target \in Inserted  BY <1>1, <1>2 DEF Knows
  <2>2. PICK n \in 0..MaxVersions : Inserted = 1..n /\ n \in Nat  BY Rows
  <2> QED  BY <2>1, <2>2, WorkflowsAssumption
<1>4. wf \in Workflow /\ hook \in Webhook /\ run' \in [Requests -> 0..MaxVersions]
  BY <1>1, <1>3 DEF IInv, DataInv
<1> QED  BY <1>1, <1>2, <1>4, WriteKeeps

LEMMA CreateWorkflowKeeps ==
    ASSUME IInv, NEW access \in {"EDITOR", "VIEWER"}, CreateWorkflow(access)
    PROVE  IInv'
<1>1. /\ wf' = [state |-> "live", access |-> access, active |-> 0]
      /\ version' = version /\ hook' = hook /\ req' = req /\ run' = run /\ seen' = seen /\ since' = since
      /\ Inserted = {} /\ \A r \in Requests : req[r] = Idle
  BY DEF CreateWorkflow, IInv, DataInv, history
<1>2. Inserted' = {} /\ Says' = {}  BY <1>1 DEF Says, Inserted
<1>3. wf' \in Workflow /\ wf'.state = "live" /\ wf'.active = 0  BY <1>1, WorkflowsAssumption DEF Workflow
<1>4. DataInv'  BY <1>1, <1>2, <1>3 DEF IInv, DataInv
<1>5. RequestInv'
  <2>1. \A r \in Requests : RequestOK(req'[r], Inserted', wf', hook')
    BY <1>1 DEF RequestOK, Request
  <2>2. req' = [r \in Requests |-> req'[r]]  BY <1>1 DEF IInv, RequestInv
  <2> QED  BY <2>1, <2>2 DEF RequestInv
<1>6. HistoryInv'  BY <1>1, <1>2 DEF IInv, HistoryInv, HasRows, Idle
<1>7. ActiveInv'  BY <1>2, <1>3 DEF ActiveInv
<1> QED  BY <1>4, <1>5, <1>6, <1>7 DEF IInv

-----------------------------------------------------------------------------
(* The theorems. *)

LEMMA InitIInv == Init => IInv
<1> SUFFICES ASSUME Init  PROVE IInv
  OBVIOUS
<1>1. PICK n \in 0..MaxVersions : version = [i \in 1..n |-> [number |-> i, isActive |-> i = wf.active]]
  BY DEF Init
<1>2. Inserted = 1..n /\ n \in Nat /\ n <= MaxVersions  BY <1>1, WorkflowsAssumption DEF Inserted
<1>3. ASSUME NEW i \in 1..n
      PROVE  version[i] \in Version /\ version[i].number = i /\ (version[i].isActive <=> i = wf.active)
  <2> DEFINE b == i = wf.active
  <2>1. version[i] = [number |-> i, isActive |-> b]  BY <1>1
  <2>2. i \in Ids  BY <1>2, WorkflowsAssumption DEF Ids
  <2>3. b \in BOOLEAN  OBVIOUS
  <2> HIDE DEF b
  <2>4. version[i] \in Version /\ version[i].number = i /\ version[i].isActive = b  BY <2>1, <2>2, <2>3 DEF Version
  <2> QED  BY <2>4 DEF b
<1>4. \A r \in Requests : req[r] = Idle  BY DEF Init
<1>5. DataInv
  <2>1. version \in [1..n -> Version]  BY <1>1, <1>3
  <2>2. run \in [Requests -> 0..MaxVersions]  BY WorkflowsAssumption DEF Init
  <2>3. wf \in Workflow /\ hook \in Webhook /\ wf.active \in {0} \cup Inserted
        /\ (wf.state = "none" => Inserted = {})
    BY DEF Init
  <2> QED  BY <1>2, <1>3, <1>4, <2>1, <2>2, <2>3 DEF DataInv
<1>6. RequestInv
  <2>1. req = [r \in Requests |-> req[r]]  BY DEF Init
  <2> QED  BY <1>4, <2>1 DEF RequestInv, RequestOK, Request
<1>7. HistoryInv
  <2>1. seen = [r \in Requests |-> 0] /\ since = Cardinality(1..n)  BY <1>2 DEF Init
  <2>2. Cardinality(1..n) = n
    <3>1. Cardinality(1..n) = IF 1 > n THEN 0 ELSE n - 1 + 1  BY <1>2, FS_Interval
    <3> QED  BY <1>2, <3>1
  <2>3. 0 \in 0..MaxVersions /\ 1..0 = {}  BY WorkflowsAssumption
  <2>4. \A r \in Requests : ~HasRows(req[r])  BY <1>4 DEF HasRows, Idle
  <2> QED  BY <2>1, <2>2, <2>3, <2>4 DEF HistoryInv
<1>8. ActiveInv
  <2>1. Says \subseteq {wf.active}  BY <1>2, <1>3 DEF Says
  <2>2. wf.active # 0 => wf.active \in Says  BY <1>2, <1>3, <1>5 DEF Says, DataInv
  <2> QED  BY <2>1, <2>2 DEF ActiveInv
<1> QED  BY <1>5, <1>6, <1>7, <1>8 DEF IInv

LEMMA NextIInv == IInv /\ [Next]_vars => IInv'
<1> SUFFICES ASSUME IInv, [Next]_vars  PROVE IInv'
  OBVIOUS
<1>1. ASSUME NEW access \in {"EDITOR", "VIEWER"}, CreateWorkflow(access)  PROVE IInv'
  BY <1>1, CreateWorkflowKeeps
<1>2. ASSUME NEW r \in Requests, NEW kind \in Kinds, NEW role \in {"ADMIN", "MEMBER", "PUBLIC"},
             Begin(r, kind, role)
      PROVE  IInv'
  BY <1>2, BeginKeeps
<1>3. ASSUME NEW r \in Requests, EditStep(r)  PROVE IInv'
  <2>1. CASE AccessGuard(r)  BY <2>1, AccessGuardKeeps
  <2>2. CASE FindWorkflow(r)  BY <2>2, FindWorkflowKeeps
  <2>3. CASE SoftDelete(r)  BY <2>3, SoftDeleteKeeps
  <2>4. CASE \E access \in {"EDITOR", "VIEWER"} : UpdateWorkflow(r, access)
    BY <2>4, UpdateWorkflowKeeps
  <2>5. CASE ReadLatest(r)  BY <2>5, ReadLatestKeeps
  <2>6. CASE InsertVersion(r)  BY <2>6, InsertVersionKeeps
  <2>7. CASE \E v \in Ids : LoadVersion(r, v)  BY <2>7, LoadVersionKeeps
  <2>8. CASE MatchVersions(r)  BY <2>8, MatchVersionsKeeps
  <2>9. CASE DeactivateAll(r)  BY <2>9, DeactivateAllKeeps
  <2>10. CASE ActivateVersion(r)  BY <2>10, ActivateVersionKeeps
  <2>11. CASE Rollback(r)  BY <2>11, RollbackKeeps
  <2> QED  BY <1>3, <2>1, <2>2, <2>3, <2>4, <2>5, <2>6, <2>7, <2>8, <2>9, <2>10, <2>11 DEF EditStep
<1>4. ASSUME NEW r \in Requests, HookStep(r)  PROVE IInv'
  BY <1>4, HookStepKeeps
<1>5. ASSUME NEW r \in Requests, TriggerStep(r)  PROVE IInv'
  <2>1. CASE \E s \in Secrets : ReceiveCall(r, s)  BY <2>1, ReceiveCallKeeps
  <2>2. CASE FindActiveVersion(r)  BY <2>2, FindActiveVersionKeeps
  <2>3. CASE TriggerRun(r)  BY <2>3, TriggerRunKeeps
  <2> QED  BY <1>5, <2>1, <2>2, <2>3 DEF TriggerStep
<1>6. CASE UNCHANGED vars
  <2>1. /\ wf' = wf /\ version' = version /\ hook' = hook /\ req' = req /\ run' = run
        /\ seen' = seen /\ since' = since
    BY <1>6 DEF vars, history
  <2> QED  BY <2>1 DEF IInv, DataInv, RequestInv, HistoryInv, ActiveInv, Says, Inserted
<1> QED  BY <1>1, <1>2, <1>3, <1>4, <1>5, <1>6 DEF Next

\* Every state satisfies the invariant.
THEOREM Inductive == Spec => []IInv
BY InitIInv, NextIInv, PTL DEF Spec

\* The variables have their types, and the pointer of the workflow is null or names a
\* version that has been inserted.
THEOREM TypeCorrect == Spec => []TypeOK
<1>1. IInv => TypeOK
  <2> SUFFICES ASSUME IInv  PROVE TypeOK
    OBVIOUS
  <2>1. \E n \in 0..MaxVersions : Inserted = 1..n  BY Rows
  <2>2. \A i \in Inserted : version[i] \in Version
    <3>1. PICK n \in 0..MaxVersions : version \in [1..n -> Version] /\ Inserted = 1..n  BY Rows
    <3> QED  BY <3>1
  <2>3. req \in [Requests -> Request]
    <3>1. \A r \in Requests : req[r] \in Request  BY DEF IInv, RequestInv, RequestOK
    <3>2. req = [r \in Requests |-> req[r]]  BY DEF IInv, RequestInv
    <3> QED  BY <3>1, <3>2
  <2> QED  BY <2>1, <2>2, <2>3 DEF IInv, DataInv, HistoryInv, TypeOK
<1> QED  BY <1>1, Inductive, PTL

\* The versions of a workflow are numbered 1, 2, 3, ... however createVersion calls overlap.
THEOREM Numbered == Spec => []VersionsAreNumbered
<1>1. IInv => VersionsAreNumbered  BY DEF IInv, DataInv, VersionsAreNumbered
<1> QED  BY <1>1, Inductive, PTL

\* Of the versions there were when the activation that set the pointer began, at most one
\* says that it is active, and it is the one that the pointer of a live workflow names.
THEOREM OneActive == Spec => []OneActiveVersion
<1>1. IInv => OneActiveVersion
  <2> SUFFICES ASSUME IInv  PROVE OneActiveVersion
    OBVIOUS
  <2> DEFINE old == {i \in Says : i <= since}
  <2>1. Cardinality(old) <= 1
    <3>1. CASE old = {}  BY <3>1, FS_EmptySet
    <3>2. CASE old # {}
      <4>1. PICK i \in old : TRUE  BY <3>2
      <4>2. old = {i}  BY <4>1 DEF IInv, ActiveInv
      <4>3. Cardinality({i}) = 1  BY FS_Singleton
      <4> QED  BY <4>2, <4>3
    <3> QED  BY <3>1, <3>2
  <2>2. wf.state = "live" => old \subseteq {wf.active}  BY DEF IInv, ActiveInv
  <2>3. wf.active # 0 => wf.active \in Says  BY DEF IInv, ActiveInv
  <2> QED  BY <2>1, <2>2, <2>3 DEF OneActiveVersion, Says
<1> QED  BY <1>1, Inductive, PTL

\* The steps that neither trigger a run nor change the workflow or its versions.
Silent == run' = run /\ wf' = wf /\ version' = version

LEMMA AdvanceSilent ==
    ASSUME NEW r, NEW q, Advance(r, q)
    PROVE  Silent
BY DEF Advance, Continue, Silent

LEMMA SilentSteps ==
    ASSUME NEW r \in Requests
    PROVE  /\ \A kind \in Kinds, role \in {"ADMIN", "MEMBER", "PUBLIC"} : Begin(r, kind, role) => Silent
           /\ AccessGuard(r) \/ FindWorkflow(r) \/ ReadLatest(r) => Silent
           /\ MatchVersions(r) \/ DeactivateAll(r) \/ Rollback(r) => Silent
           /\ \A v \in Ids : LoadVersion(r, v) => Silent
           /\ \A s \in Secrets : ReceiveCall(r, s) => Silent
           /\ HookStep(r) \/ FindActiveVersion(r) => Silent
<1>1. ASSUME NEW kind \in Kinds, NEW role \in {"ADMIN", "MEMBER", "PUBLIC"}, Begin(r, kind, role)  PROVE Silent
  BY <1>1 DEF Begin, Continue, Silent
<1>2. AccessGuard(r) => Silent  BY AdvanceSilent DEF AccessGuard, Refuse
<1>3. FindWorkflow(r) => Silent  BY AdvanceSilent DEF FindWorkflow, Refuse
<1>4. ReadLatest(r) => Silent  BY AdvanceSilent DEF ReadLatest
<1>5. MatchVersions(r) \/ DeactivateAll(r) => Silent  BY AdvanceSilent DEF MatchVersions, DeactivateAll
<1>6. Rollback(r) => Silent  BY AdvanceSilent DEF Rollback, Refuse
<1>7. ASSUME NEW v \in Ids, LoadVersion(r, v)  PROVE Silent
  BY <1>7, AdvanceSilent DEF LoadVersion, Refuse
<1>8. ASSUME NEW s \in Secrets, ReceiveCall(r, s)  PROVE Silent
  BY <1>8, AdvanceSilent DEF ReceiveCall, Refuse
<1>9. FindActiveVersion(r) => Silent  BY AdvanceSilent DEF FindActiveVersion, Refuse
<1>10. ASSUME NEW h, Write(r, wf, version, h)  PROVE Silent
  BY <1>10 DEF Write, Continue, Silent
<1>11. CreateWebhook(r) => Silent  BY <1>10 DEF CreateWebhook
<1>12. RemoveWebhook(r) => Silent  BY <1>10 DEF RemoveWebhook
<1>13. FindWebhook(r) => Silent  BY AdvanceSilent DEF FindWebhook, Refuse
<1>14. ASSUME NEW state \in {"on", "off"}, NEW secret \in Secrets, UpdateWebhook(r, state, secret)  PROVE Silent
  BY <1>10, <1>14, AdvanceSilent DEF UpdateWebhook, Refuse
<1> QED  BY <1>1, <1>2, <1>3, <1>4, <1>5, <1>6, <1>7, <1>8, <1>9, <1>11, <1>12, <1>13, <1>14 DEF HookStep

\* The steps that are not silent.
LEMMA Steps ==
    ASSUME Next
    PROVE  \/ Silent
           \/ \E access \in {"EDITOR", "VIEWER"} : CreateWorkflow(access)
           \/ \E r \in Requests : \/ SoftDelete(r) \/ InsertVersion(r) \/ ActivateVersion(r) \/ TriggerRun(r)
                                  \/ \E access \in {"EDITOR", "VIEWER"} : UpdateWorkflow(r, access)
BY SilentSteps DEF Next, EditStep, TriggerStep

\* A run executes a version that was active during its request, and a webhook's call was
\* made with a secret that was valid during it.
THEOREM Timely == Spec => TriggersAreTimely
<1> DEFINE Fact(r) == /\ <<"active", run'[r]>> \in req[r].was
                      /\ req[r].kind = "incoming" => <<"secret", req[r].presented>> \in req[r].was
           A == \A r \in Requests : run'[r] # run[r] => Fact(r)
<1>1. IInv /\ [Next]_vars => [A]_vars
  <2> SUFFICES ASSUME IInv, Next, NEW r \in Requests, run'[r] # run[r]  PROVE Fact(r)
    OBVIOUS
  <2>1. PICK x \in Requests : TriggerRun(x)
    <3>1. ~Silent  BY DEF Silent
    <3>2. ASSUME NEW y, NEW w, NEW v, Write(y, w, v, hook)  PROVE run' = run
      BY <3>2 DEF Write
    <3>3. ASSUME NEW y \in Requests
          PROVE  /\ SoftDelete(y) \/ InsertVersion(y) \/ ActivateVersion(y) => run' = run
                 /\ \A access \in {"EDITOR", "VIEWER"} : UpdateWorkflow(y, access) => run' = run
      <4>1. SoftDelete(y) => run' = run  BY <3>2 DEF SoftDelete
      <4>2. InsertVersion(y) => run' = run  BY <3>2, AdvanceSilent DEF InsertVersion, Refuse, Silent
      <4>3. ActivateVersion(y) => run' = run  BY DEF ActivateVersion
      <4>4. \A access \in {"EDITOR", "VIEWER"} : UpdateWorkflow(y, access) => run' = run
        BY <3>2 DEF UpdateWorkflow
      <4> QED  BY <4>1, <4>2, <4>3, <4>4
    <3>4. \A access \in {"EDITOR", "VIEWER"} : CreateWorkflow(access) => run' = run
      BY DEF CreateWorkflow
    <3> QED  BY <3>1, <3>3, <3>4, Steps
  <2>2. /\ req[x].phase = "write" /\ req[x].kind \in {"trigger", "incoming"}
        /\ run' = [run EXCEPT ![x] = req[x].target]
    BY <2>1 DEF TriggerRun, At
  <2>3. run \in [Requests -> 0..MaxVersions]  BY DEF IInv, DataInv
  <2>4. x = r /\ run'[r] = req[r].target  BY <2>2, <2>3
  <2>5. Knows(req[r], Inserted, wf, hook)  BY <2>2, <2>4, Known
  <2> QED  BY <2>2, <2>4, <2>5 DEF Knows
<1> QED  BY <1>1, Inductive, PTL DEF Spec, TriggersAreTimely

\* What changes the workflow or its versions is a request during which the workflow was
\* live, and open to members if one of them has made it.
THEOREM Permitted == Spec => EditsArePermitted
<1> DEFINE Entitled(r) == /\ InFlight(r) /\ req'[r] = Done
                          /\ <<"live", 0>> \in req[r].was
                          /\ req[r].role # "ADMIN" => <<"editable", 0>> \in req[r].was
           A == wf.state # "none" /\ <<wf, version>>' # <<wf, version>> => \E r \in Requests : Entitled(r)
<1>1. IInv /\ [Next]_vars => [A]_vars
  <2> SUFFICES ASSUME IInv, Next, wf.state # "none", <<wf, version>>' # <<wf, version>>
               PROVE  \E r \in Requests : Entitled(r)
    OBVIOUS
  <2>1. ASSUME NEW r \in Requests, req[r].phase \in {"write", "insert", "locked"}, req[r].kind \in Guarded,
               NEW w, NEW v, Continue(r, Done, w, v, hook)
        PROVE  Entitled(r)
    <3>1. req[r].phase \notin {"idle", "done", "guard", "read"}  BY <2>1
    <3>2. InFlight(r) /\ Knows(req[r], Inserted, wf, hook)  BY <3>1, Known DEF InFlight
    <3>3. req'[r] = Done  BY <2>1 DEF Continue
    <3>4. <<"live", 0>> \in req[r].was /\ (req[r].role # "ADMIN" => <<"editable", 0>> \in req[r].was)
      BY <2>1, <3>1, <3>2 DEF Knows
    <3> QED  BY <3>2, <3>3, <3>4
  <2>2. {"update", "delete", "version", "activate"} \subseteq Guarded  BY DEF Guarded, WorkflowRoutes, VersionRoutes
  <2>3. ASSUME NEW r \in Requests, req[r].phase \in {"insert", "locked"}  PROVE req[r].kind \in Guarded
    <3>1. Knows(req[r], Inserted, wf, hook)  BY <2>3, Known
    <3> QED  BY <2>2, <2>3, <3>1 DEF Knows
  <2>4. PICK r \in Requests : \/ SoftDelete(r) \/ InsertVersion(r) \/ ActivateVersion(r) \/ TriggerRun(r)
                              \/ \E access \in {"EDITOR", "VIEWER"} : UpdateWorkflow(r, access)
    <3>1. ~Silent  BY DEF Silent
    <3>2. \A access \in {"EDITOR", "VIEWER"} : ~CreateWorkflow(access)  BY DEF CreateWorkflow
    <3> QED  BY <3>1, <3>2, Steps
  <2>5. CASE SoftDelete(r)  BY <2>1, <2>2, <2>5 DEF SoftDelete, At, Write
  <2>6. CASE InsertVersion(r)
    <3>1. ~Refuse(r)  BY AdvanceSilent DEF Refuse, Silent
    <3> QED  BY <2>1, <2>3, <2>6, <3>1 DEF InsertVersion, Write
  <2>7. CASE ActivateVersion(r)  BY <2>1, <2>3, <2>7 DEF ActivateVersion
  <2>8. CASE TriggerRun(r)  BY <2>8 DEF TriggerRun, Continue
  <2>9. CASE \E access \in {"EDITOR", "VIEWER"} : UpdateWorkflow(r, access)
    BY <2>1, <2>2, <2>9 DEF UpdateWorkflow, At, Write
  <2> QED  BY <2>4, <2>5, <2>6, <2>7, <2>8, <2>9
<1> QED  BY <1>1, Inductive, PTL DEF Spec, EditsArePermitted
=============================================================================
