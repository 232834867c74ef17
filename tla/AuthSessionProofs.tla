---------------------------- MODULE AuthSessionProofs ----------------------------
(***************************************************************************)
(* Proofs about AuthSession, for any number of users, requests, sessions   *)
(* and seconds.                                                            *)
(*                                                                         *)
(* A token that was signed once has one holder in its life: the request    *)
(* that has signed it, then the session that it writes, then nobody        *)
(* (SignedInv, HolderInv).  What a request knows of the session it has     *)
(* found follows (FoundInv).                                               *)
(***************************************************************************)
EXTENDS AuthSession, TLAPS

\* The requests: about an account, or about a session.
AccountRequest ==
    [phase : {"create", "sign", "write"}, kind : {"register", "login", "delete"}, of : Users, fresh : Times]
SessionRequest ==
    [phase : {"find", "sign", "write"}, kind : {"refresh", "logout", "expire"}, token : Tokens,
     id : 0..MaxSessions, fresh : Times, stale : BOOLEAN]

\* The token that a request has signed and not yet written.
Signs(q) == q.phase = "write" /\ q.kind \in {"login", "refresh"}
Fresh(q) == IF q.kind = "login" THEN <<q.of, q.fresh>> ELSE <<q.token[1], q.fresh>>

TypeInv ==
    /\ now \in Times /\ ids \in 0..MaxSessions
    /\ user \in [Users -> {"none", "active", "deleted"}]
    /\ session \in [Rows -> Session \cup {NoSession}] /\ Open \subseteq 1..ids
    /\ issued \subseteq Tokens /\ Held \subseteq issued /\ twins \subseteq Tokens
    /\ req \in [Requests -> Request]

\* What a request knows of the session it has found, when the rows S are there.
Found(q, S, n, T, I) ==
    /\ q.token \in I
    /\ q.phase # "find" =>
         /\ q.id \in 1..n
         /\ S[q.id] # NoSession => /\ S[q.id].token[1] = q.token[1]
                                   /\ ~q.stale => S[q.id].token = q.token
         /\ q.token \notin T => \A j \in Rows : S[j] # NoSession /\ S[j].token = q.token => j = q.id

FoundInv == \A r \in Requests : req[r] \in SessionRequest => Found(req[r], session, ids, twins, issued)

SignedInv ==
    \A r \in Requests : Signs(req[r]) /\ Fresh(req[r]) \notin twins =>
      /\ Fresh(req[r]) \notin issued
      /\ \A x \in Requests : Signs(req[x]) /\ Fresh(req[x]) = Fresh(req[r]) => x = r

HolderInv ==
    \A i, j \in Open : session[i].token = session[j].token /\ session[i].token \notin twins => i = j

Inv == TypeInv /\ FoundInv /\ SignedInv /\ HolderInv /\ DeletedAccountHasNoSession

-----------------------------------------------------------------------------
(* Lemmas about requests. *)

SessionFields(q) ==
    /\ q.phase \in {"find", "sign", "write"} /\ q.kind \in {"refresh", "logout", "expire"}
    /\ q.token \in Tokens /\ q.id \in 0..MaxSessions /\ q.fresh \in Times /\ q.stale \in BOOLEAN
    /\ q = [phase |-> q.phase, kind |-> q.kind, token |-> q.token, id |-> q.id,
            fresh |-> q.fresh, stale |-> q.stale]

LEMMA SessionRequestFields ==
    ASSUME NEW q
    PROVE  q \in SessionRequest <=> SessionFields(q)
BY DEF SessionRequest, SessionFields

AccountFields(q) ==
    /\ q.phase \in {"create", "sign", "write"} /\ q.kind \in {"register", "login", "delete"}
    /\ q.of \in Users /\ q.fresh \in Times
    /\ q = [phase |-> q.phase, kind |-> q.kind, of |-> q.of, fresh |-> q.fresh]

LEMMA AccountRequestFields ==
    ASSUME NEW q
    PROVE  q \in AccountRequest <=> AccountFields(q)
BY DEF AccountRequest, AccountFields

\* Which requests there are.
LEMMA RequestCases ==
    ASSUME NEW q \in Request
    PROVE  q = Idle \/ q = [phase |-> "account"] \/ q \in AccountRequest \/ q \in SessionRequest
BY DEF Request, AccountRequest, SessionRequest

LEMMA RequestMembers ==
    /\ Idle \in Request /\ [phase |-> "account"] \in Request
    /\ AccountRequest \subseteq Request /\ SessionRequest \subseteq Request
<1>1. Idle \in Request  BY DEF Request
<1>2. [phase |-> "account"] \in Request  BY DEF Request
<1>3. AccountRequest \subseteq Request  BY DEF Request, AccountRequest
<1>4. SessionRequest \subseteq Request  BY DEF Request, SessionRequest
<1> QED  BY <1>1, <1>2, <1>3, <1>4

\* Idle requests and those that authenticate are about no session and have signed nothing.
LEMMA Simple ==
    ASSUME NEW q, q = Idle \/ q = [phase |-> "account"]
    PROVE  q \notin SessionRequest /\ q \notin AccountRequest /\ ~Signs(q) /\ ~UsesSession(q)
           /\ q.phase \notin {"find", "sign", "write", "create"}
<1>1. q.phase \in {"idle", "account"}  BY DEF Idle
<1> QED  BY <1>1, SessionRequestFields, AccountRequestFields DEF SessionFields, AccountFields, Signs, UsesSession

\* A request about a session, by its kind.
LEMMA SessionKind ==
    ASSUME NEW q \in Request, q.phase \in {"find", "sign", "write"}, q.kind \in {"refresh", "logout", "expire"}
    PROVE  q \in SessionRequest /\ SessionFields(q)
BY RequestCases, Simple, SessionRequestFields, AccountRequestFields DEF AccountFields

LEMMA AccountKind ==
    ASSUME NEW q \in Request, q.phase \in {"create", "sign", "write"}, q.kind \in {"register", "login", "delete"}
    PROVE  q \in AccountRequest /\ q \notin SessionRequest /\ AccountFields(q)
BY RequestCases, Simple, SessionRequestFields, AccountRequestFields DEF SessionFields

LEMMA FreshIsToken ==
    ASSUME NEW q \in Request, Signs(q)
    PROVE  Fresh(q) \in Tokens
<1>1. CASE q.kind = "login"
  BY <1>1, AccountKind DEF Signs, AccountFields, Fresh, Tokens
<1>2. CASE q.kind = "refresh"
  BY <1>2, SessionKind DEF Signs, SessionFields, Fresh, Tokens
<1> QED  BY <1>1, <1>2 DEF Signs

-----------------------------------------------------------------------------
(* Steps. *)

\* A request that writes nothing goes on as q.
LEMMA AdvanceKeeps ==
    ASSUME Inv, NEW r \in Requests, NEW q \in Request, Advance(r, q),
           twins \subseteq twins', twins' \subseteq Tokens,
           q \in SessionRequest => Found(q, session, ids, twins', issued),
           Signs(q) /\ Fresh(q) \notin twins' =>
             /\ Fresh(q) \notin issued
             /\ \A x \in Requests \ {r} : Signs(req[x]) => Fresh(req[x]) # Fresh(q)
    PROVE  Inv'
<1>1. now' = now /\ user' = user /\ session' = session /\ ids' = ids /\ issued' = issued
      /\ req' = [req EXCEPT ![r] = q]
  BY DEF Advance
<1>2. req'[r] = q /\ \A x \in Requests \ {r} : req'[x] = req[x]  BY <1>1 DEF Inv, TypeInv
<1>3. Open' = Open /\ Held' = Held  BY <1>1 DEF Open, Held
<1>4. TypeInv'  BY <1>1, <1>3 DEF Inv, TypeInv
<1>5. FoundInv'
  <2>1. ASSUME NEW x \in Requests, req'[x] \in SessionRequest
        PROVE  Found(req'[x], session, ids, twins', issued)
    <3>1. CASE x = r  BY <1>2, <2>1, <3>1
    <3>2. CASE x # r
      <4>1. Found(req[x], session, ids, twins, issued)  BY <1>2, <2>1, <3>2 DEF Inv, FoundInv
      <4> QED  BY <1>2, <3>2, <4>1 DEF Found
    <3> QED  BY <3>1, <3>2
  <2> QED  BY <1>1, <2>1 DEF FoundInv
<1>6. SignedInv'
  <2> SUFFICES ASSUME NEW x \in Requests, Signs(req'[x]), Fresh(req'[x]) \notin twins'
               PROVE  /\ Fresh(req'[x]) \notin issued
                      /\ \A y \in Requests : Signs(req'[y]) /\ Fresh(req'[y]) = Fresh(req'[x]) => y = x
    BY <1>1 DEF SignedInv, Signs, Fresh
  <2>1. CASE x = r  BY <1>2, <2>1
  <2>2. CASE x # r
    <3>1. /\ Fresh(req[x]) \notin issued
          /\ \A y \in Requests : Signs(req[y]) /\ Fresh(req[y]) = Fresh(req[x]) => y = x
      BY <1>2, <2>2 DEF Inv, SignedInv
    <3>2. Signs(q) => Fresh(q) # Fresh(req'[x])  BY <1>2, <2>2
    <3> QED  BY <1>2, <2>2, <3>1, <3>2
  <2> QED  BY <2>1, <2>2
<1>7. HolderInv'  BY <1>1, <1>3 DEF Inv, HolderInv
<1>8. DeletedAccountHasNoSession'  BY <1>1, <1>3 DEF Inv, DeletedAccountHasNoSession, Owner
<1> QED  BY <1>4, <1>5, <1>6, <1>7, <1>8 DEF Inv

\* The assignments that the steps make to a request about a session.
Ses(phase, kind, token, id, fresh, stale) ==
    [phase |-> phase, kind |-> kind, token |-> token, id |-> id, fresh |-> fresh, stale |-> stale]

LEMMA Assigned ==
    ASSUME NEW q \in SessionRequest, NEW a, NEW b, NEW d, NEW e, NEW f
    PROVE  /\ [q EXCEPT !.stale = f] = Ses(q.phase, q.kind, q.token, q.id, q.fresh, f)
           /\ [q EXCEPT !.phase = a, !.id = d] = Ses(a, q.kind, q.token, d, q.fresh, q.stale)
           /\ [q EXCEPT !.phase = a, !.kind = b] = Ses(a, b, q.token, q.id, q.fresh, q.stale)
           /\ [q EXCEPT !.phase = a, !.fresh = e] = Ses(a, q.kind, q.token, q.id, e, q.stale)
<1> DEFINE R(x, y, z, t, u) == Ses(x, y, q.token, z, t, u)
<1>1. q = R(q.phase, q.kind, q.id, q.fresh, q.stale)
  <2>1. SessionFields(q)  BY SessionRequestFields
  <2> QED  BY <2>1 DEF SessionFields, Ses
<1>2. \A x, y, z, t, u :
        /\ [R(x, y, z, t, u) EXCEPT !.phase = a] = R(a, y, z, t, u)
        /\ [R(x, y, z, t, u) EXCEPT !.kind = b] = R(x, b, z, t, u)
        /\ [R(x, y, z, t, u) EXCEPT !.id = d] = R(x, y, d, t, u)
        /\ [R(x, y, z, t, u) EXCEPT !.fresh = e] = R(x, y, z, e, u)
        /\ [R(x, y, z, t, u) EXCEPT !.stale = f] = R(x, y, z, t, f)
  BY DEF Ses
<1> DEFINE p == [q EXCEPT !.phase = a]
<1>3. p = R(a, q.kind, q.id, q.fresh, q.stale)
  <2> HIDE DEF R
  <2> QED  BY <1>1, <1>2
<1>4. [q EXCEPT !.stale = f] = R(q.phase, q.kind, q.id, q.fresh, f)
  <2> HIDE DEF R
  <2> QED  BY <1>1, <1>2
<1> HIDE DEF R
<1>5. [q EXCEPT !.phase = a, !.id = d] = R(a, q.kind, d, q.fresh, q.stale)
  <2>1. [q EXCEPT !.phase = a, !.id = d] = [p EXCEPT !.id = d]  OBVIOUS
  <2> HIDE DEF p
  <2> QED  BY <1>2, <1>3, <2>1
<1>6. [q EXCEPT !.phase = a, !.kind = b] = R(a, b, q.id, q.fresh, q.stale)
  <2>1. [q EXCEPT !.phase = a, !.kind = b] = [p EXCEPT !.kind = b]  OBVIOUS
  <2> HIDE DEF p
  <2> QED  BY <1>2, <1>3, <2>1
<1>7. [q EXCEPT !.phase = a, !.fresh = e] = R(a, q.kind, q.id, e, q.stale)
  <2>1. [q EXCEPT !.phase = a, !.fresh = e] = [p EXCEPT !.fresh = e]  OBVIOUS
  <2> HIDE DEF p
  <2> QED  BY <1>2, <1>3, <2>1
<1> QED  BY <1>4, <1>5, <1>6, <1>7 DEF R

Allowed(a, b, c, d, e, f) ==
    /\ a \in {"find", "sign", "write"} /\ b \in {"refresh", "logout", "expire"}
    /\ c \in Tokens /\ d \in 0..MaxSessions /\ e \in Times /\ f \in BOOLEAN

LEMMA SesRequest ==
    ASSUME NEW a, NEW b, NEW c, NEW d, NEW e, NEW f, Allowed(a, b, c, d, e, f),
           NEW q, q = Ses(a, b, c, d, e, f)
    PROVE  /\ q \in SessionRequest /\ q \in Request /\ q.phase = a /\ q.kind = b /\ q.token = c
           /\ q.id = d /\ q.fresh = e /\ q.stale = f
<1>1. q.phase = a /\ q.kind = b /\ q.token = c /\ q.id = d /\ q.fresh = e /\ q.stale = f
  BY DEF Ses
<1>2. SessionFields(q)  BY <1>1 DEF SessionFields, Ses, Allowed
<1> QED  BY <1>1, <1>2, SessionRequestFields, RequestMembers

\* A request about a session, once its row has changed.
LEMMA Marked ==
    ASSUME NEW q \in SessionRequest
    PROVE  LET p == [q EXCEPT !.stale = TRUE]
           IN /\ p \in SessionRequest /\ p.phase = q.phase /\ p.kind = q.kind
              /\ p.token = q.token /\ p.id = q.id /\ p.fresh = q.fresh /\ p.stale = TRUE
<1> DEFINE p == [q EXCEPT !.stale = TRUE]
<1>1. p = Ses(q.phase, q.kind, q.token, q.id, q.fresh, TRUE)  BY Assigned
<1> HIDE DEF p
<1> DEFINE t == TRUE
<1>2. Allowed(q.phase, q.kind, q.token, q.id, q.fresh, t)  BY SessionRequestFields DEF SessionFields, Allowed
<1>3. p = Ses(q.phase, q.kind, q.token, q.id, q.fresh, t)  BY <1>1
<1> HIDE DEF t
<1>4. /\ p \in SessionRequest /\ p.phase = q.phase /\ p.kind = q.kind
      /\ p.token = q.token /\ p.id = q.id /\ p.fresh = q.fresh /\ p.stale = t
  BY <1>2, <1>3, SesRequest
<1> QED  BY <1>4 DEF p, t

\* The other requests, when request r writes the rows.
Follows(p, q, S, R) ==
    /\ p \in Request
    /\ Signs(p) <=> Signs(q)
    /\ Signs(q) => Fresh(p) = Fresh(q)
    /\ p \in SessionRequest <=> q \in SessionRequest
    /\ q \in SessionRequest =>
         /\ p.phase = q.phase /\ p.token = q.token /\ p.id = q.id
         /\ q.phase # "find" => (p.stale = q.stale /\ R[q.id] = S[q.id]) \/ p.stale = TRUE

LEMMA CommitRequests ==
    ASSUME Inv, NEW r \in Requests, NEW rows, Commit(r, rows)
    PROVE  /\ session' = rows /\ req' \in [Requests -> Request] /\ req'[r] = Idle
           /\ \A x \in Requests \ {r} : Follows(req'[x], req[x], session, rows)
<1>1. session' = rows
      /\ req' = [x \in Requests |->
                   IF x = r THEN Idle
                   ELSE IF UsesSession(req[x]) /\ rows[req[x].id] # session[req[x].id]
                        THEN [req[x] EXCEPT !.stale = TRUE]
                   ELSE req[x]]
  BY DEF Commit
<1>2. req'[r] = Idle  BY <1>1
<1>3. ASSUME NEW x \in Requests, x # r
      PROVE  Follows(req'[x], req[x], session, rows)
  <2>1. req[x] \in Request  BY DEF Inv, TypeInv
  <2>2. CASE UsesSession(req[x]) /\ rows[req[x].id] # session[req[x].id]
    <3>1. req[x] \in SessionRequest  BY <2>1, <2>2, SessionKind DEF UsesSession
    <3> DEFINE p == [req[x] EXCEPT !.stale = TRUE]
    <3>2. req'[x] = p  BY <1>1, <1>3, <2>2
    <3>3. /\ p \in SessionRequest /\ p.phase = req[x].phase /\ p.kind = req[x].kind
          /\ p.token = req[x].token /\ p.id = req[x].id /\ p.fresh = req[x].fresh /\ p.stale = TRUE
      BY <3>1, Marked
    <3>4. req[x].kind # "login"  BY <2>2 DEF UsesSession
    <3> HIDE DEF p
    <3>5. p \in Request  BY <3>3, RequestMembers
    <3>6. (Signs(p) <=> Signs(req[x])) /\ Fresh(p) = Fresh(req[x])  BY <3>3, <3>4 DEF Signs, Fresh
    <3> QED  BY <3>1, <3>2, <3>3, <3>5, <3>6 DEF Follows
  <2>3. CASE ~(UsesSession(req[x]) /\ rows[req[x].id] # session[req[x].id])
    <3>1. req'[x] = req[x]  BY <1>1, <1>3, <2>3
    <3>2. req[x] \in SessionRequest /\ req[x].phase # "find" => rows[req[x].id] = session[req[x].id]
      BY <2>3, SessionRequestFields DEF SessionFields, UsesSession
    <3> QED  BY <2>1, <3>1, <3>2 DEF Follows
  <2> QED  BY <2>2, <2>3
<1>4. req' \in [Requests -> Request]
  <2>1. \A x \in Requests : req'[x] \in Request  BY <1>2, <1>3, RequestMembers DEF Follows
  <2>2. req' = [x \in Requests |-> req'[x]]  BY <1>1
  <2> QED  BY <2>1, <2>2
<1> QED  BY <1>1, <1>2, <1>3, <1>4

\* A request writes the token that it has signed into the row k.
LEMMA CommitWrites ==
    ASSUME Inv, NEW r \in Requests, Signs(req[r]), NEW k \in Rows, NEW l \in BOOLEAN, NEW rows,
           rows = [session EXCEPT ![k] = [token |-> Fresh(req[r]), late |-> l]],
           Commit(r, rows), issued' = issued \cup {Fresh(req[r])},
           now' = now, user' = user, twins' = twins,
           \/ k \in Open /\ ids' = ids /\ Fresh(req[r])[1] = Owner(k) /\ l = session[k].late
           \/ k = ids + 1 /\ ids' = ids + 1 /\ (user[Fresh(req[r])[1]] = "deleted" => l)
    PROVE  Inv'
<1> DEFINE f == Fresh(req[r])
<1>1. req[r] \in Request  BY DEF Inv, TypeInv
<1>2. f \in Tokens  BY <1>1, FreshIsToken
<1>3. f \notin twins => /\ f \notin issued
                        /\ \A x \in Requests : Signs(req[x]) /\ Fresh(req[x]) = f => x = r
  BY DEF Inv, SignedInv
<1> HIDE DEF f
<1>4. rows[k] = [token |-> f, late |-> l] /\ (\A j \in Rows \ {k} : rows[j] = session[j])
      /\ rows = [j \in Rows |-> rows[j]]
  <2>1. session \in [Rows -> Session \cup {NoSession}]  BY DEF Inv, TypeInv
  <2> QED  BY <2>1 DEF f
<1>5. rows[k] \in Session /\ rows[k] # NoSession /\ rows[k].token = f /\ rows[k].late = l
  <2>1. [token |-> f, late |-> l] \in [token : Users \X (0..MaxTime), late : BOOLEAN]
    BY <1>2 DEF Tokens, Times
  <2> QED  BY <1>4, <2>1, AuthAssumption DEF Session, Tokens, Times
<1>6. /\ session' = rows /\ req' \in [Requests -> Request] /\ req'[r] = Idle
      /\ \A x \in Requests \ {r} : Follows(req'[x], req[x], session, rows)
  <2>1. Inv /\ r \in Requests /\ Commit(r, rows)  OBVIOUS
  <2> QED  BY ONLY <2>1, CommitRequests
<1>7. Open' = Open \cup {k}  BY <1>4, <1>5, <1>6 DEF Open
<1>8. ids \in Nat /\ MaxSessions \in Nat /\ ids' \in {ids, ids + 1} /\ k \in 1..ids' /\ Open \subseteq 1..ids
  BY AuthAssumption DEF Inv, TypeInv, Rows
<1>9. ids' \in 0..MaxSessions /\ Open' \subseteq 1..ids'
  BY <1>7, <1>8 DEF Rows, Inv, TypeInv
<1>10. issued' = issued \cup {f} /\ now' = now /\ user' = user /\ twins' = twins  BY DEF f
<1>11. Held' \subseteq issued'
  <2> SUFFICES ASSUME NEW j \in Open'  PROVE rows[j].token \in issued'
    BY <1>6 DEF Held
  <2>1. CASE j = k  BY <1>5, <1>10, <2>1
  <2>2. CASE j # k
    <3>1. j \in Open /\ rows[j] = session[j]  BY <1>4, <1>7, <2>2 DEF Open
    <3> QED  BY <1>10, <3>1 DEF Inv, TypeInv, Held
  <2> QED  BY <2>1, <2>2
<1>12. TypeInv'
  <2>1. rows \in [Rows -> Session \cup {NoSession}]  BY <1>4, <1>5 DEF Inv, TypeInv
  <2>2. issued' \subseteq Tokens  BY <1>2, <1>10 DEF Inv, TypeInv
  <2> QED  BY <1>6, <1>9, <1>10, <1>11, <2>1, <2>2 DEF Inv, TypeInv
<1>13. ASSUME NEW x \in Requests, req'[x] \in SessionRequest
       PROVE  Found(req'[x], rows, ids', twins, issued')
  <2>1. x # r  BY <1>6, <1>13, Simple
  <2>2. Follows(req'[x], req[x], session, rows)  BY <1>6, <2>1
  <2> DEFINE q == req[x]
             p == req'[x]
  <2>3. q \in SessionRequest /\ Found(q, session, ids, twins, issued)
    BY <1>13, <2>2 DEF Follows, Inv, FoundInv
  <2> HIDE DEF p, q
  <2>4. p.phase = q.phase /\ p.token = q.token /\ p.id = q.id /\ p.token \in issued
    BY <2>2, <2>3 DEF Follows, Found, p, q
  <2>5. ASSUME p.phase # "find"
        PROVE  /\ p.id \in 1..ids'
               /\ rows[p.id] # NoSession => /\ rows[p.id].token[1] = p.token[1]
                                            /\ ~p.stale => rows[p.id].token = p.token
               /\ p.token \notin twins => \A j \in Rows : rows[j] # NoSession /\ rows[j].token = p.token => j = p.id
    <3>1. /\ q.id \in 1..ids
          /\ session[q.id] # NoSession => /\ session[q.id].token[1] = q.token[1]
                                          /\ ~q.stale => session[q.id].token = q.token
          /\ q.token \notin twins => \A j \in Rows : session[j] # NoSession /\ session[j].token = q.token => j = q.id
      BY <2>3, <2>4, <2>5 DEF Found
    <3>2. p.id \in 1..ids' /\ q.id # ids + 1 /\ q.id \in Rows  BY <1>8, <1>9, <2>4, <3>1 DEF Rows
    <3>3. rows[q.id] # NoSession => rows[q.id].token[1] = q.token[1]
      <4>1. CASE q.id = k
        <5>1. k \in Open /\ f[1] = session[k].token[1]  BY <3>2, <4>1 DEF f, Owner
        <5> QED  BY <1>5, <3>1, <4>1, <5>1 DEF Open
      <4>2. CASE q.id # k  BY <1>4, <3>1, <3>2, <4>2
      <4> QED  BY <4>1, <4>2
    <3>4. rows[q.id] # NoSession /\ ~p.stale => rows[q.id].token = q.token
      <4>1. (p.stale = q.stale /\ rows[q.id] = session[q.id]) \/ p.stale = TRUE
        BY <2>2, <2>3, <2>4, <2>5 DEF Follows, p, q
      <4> QED  BY <3>1, <4>1
    <3>5. ASSUME q.token \notin twins, NEW j \in Rows, rows[j] # NoSession, rows[j].token = q.token
          PROVE  j = q.id
      <4>1. j # k  BY <1>3, <1>5, <2>4, <3>5
      <4> QED  BY <1>4, <3>1, <3>5, <4>1
    <3> QED  BY <2>4, <3>2, <3>3, <3>4, <3>5
  <2>6. p.token \in issued'  BY <1>10, <2>4
  <2> QED  BY <2>5, <2>6 DEF Found, p
<1>14. FoundInv'  BY <1>6, <1>10, <1>13 DEF FoundInv
<1>15. \A x \in Requests : Signs(req'[x]) => x # r /\ Signs(req[x]) /\ Fresh(req'[x]) = Fresh(req[x])
  BY <1>6, Simple DEF Follows
<1>16. SignedInv'
  <2> SUFFICES ASSUME NEW x \in Requests, Signs(req'[x]), Fresh(req'[x]) \notin twins
               PROVE  /\ Fresh(req'[x]) \notin issued'
                      /\ \A y \in Requests : Signs(req'[y]) /\ Fresh(req'[y]) = Fresh(req'[x]) => y = x
    BY <1>10 DEF SignedInv, Signs, Fresh
  <2>1. x # r /\ Signs(req[x]) /\ Fresh(req'[x]) = Fresh(req[x])  BY <1>15
  <2>2. /\ Fresh(req[x]) \notin issued
        /\ \A y \in Requests : Signs(req[y]) /\ Fresh(req[y]) = Fresh(req[x]) => y = x
    BY <2>1 DEF Inv, SignedInv
  <2>3. Fresh(req[x]) # f  BY <2>1, <2>2 DEF f
  <2> QED  BY <1>10, <1>15, <2>1, <2>2, <2>3
<1>17. HolderInv'
  <2> SUFFICES ASSUME NEW i \in Open', NEW j \in Open', rows[i].token = rows[j].token, rows[i].token \notin twins
               PROVE  i = j
    BY <1>6, <1>10 DEF HolderInv
  <2>1. i # k => i \in Open /\ rows[i] = session[i] /\ rows[i].token \in issued
    BY <1>4, <1>7 DEF Open, Inv, TypeInv, Held
  <2>2. j # k => j \in Open /\ rows[j] = session[j] /\ rows[j].token \in issued
    BY <1>4, <1>7 DEF Open, Inv, TypeInv, Held
  <2>3. CASE i = k \/ j = k  BY <1>3, <1>5, <2>1, <2>2, <2>3
  <2>4. CASE i # k /\ j # k  BY <2>1, <2>2, <2>4 DEF Inv, HolderInv
  <2> QED  BY <2>3, <2>4
<1>18. DeletedAccountHasNoSession'
  <2> SUFFICES ASSUME NEW j \in Open', user[rows[j].token[1]] = "deleted"  PROVE rows[j].late
    BY <1>6, <1>10 DEF DeletedAccountHasNoSession, Owner
  <2>1. CASE j # k
    <3>1. j \in Open /\ rows[j] = session[j]  BY <1>4, <1>7, <2>1 DEF Open
    <3> QED  BY <3>1 DEF Inv, DeletedAccountHasNoSession, Owner
  <2>2. CASE j = k
    <3>1. rows[k].token[1] = f[1]  BY <1>5
    <3>2. CASE k \in Open /\ f[1] = Owner(k) /\ l = session[k].late
      BY <1>5, <2>2, <3>1, <3>2 DEF Inv, DeletedAccountHasNoSession
    <3>3. CASE user[f[1]] = "deleted" => l  BY <1>5, <2>2, <3>1, <3>3
    <3> QED  BY <3>2, <3>3 DEF f
  <2> QED  BY <2>1, <2>2
<1> QED  BY <1>12, <1>14, <1>16, <1>17, <1>18 DEF Inv

\* A request deletes rows; if it deletes an account, all that are of it.
LEMMA CommitDeletes ==
    ASSUME Inv, NEW r \in Requests, NEW rows, Commit(r, rows),
           rows = [i \in Rows |-> rows[i]], \A i \in Rows : rows[i] \in {session[i], NoSession},
           now' = now /\ ids' = ids /\ issued' = issued /\ twins' = twins,
           user' \in [Users -> {"none", "active", "deleted"}],
           \A i \in Open : rows[i] # NoSession /\ user'[Owner(i)] = "deleted" => user[Owner(i)] = "deleted"
    PROVE  Inv'
<1>1. /\ session' = rows /\ req' \in [Requests -> Request] /\ req'[r] = Idle
      /\ \A x \in Requests \ {r} : Follows(req'[x], req[x], session, rows)
  <2>1. Inv /\ r \in Requests /\ Commit(r, rows)  OBVIOUS
  <2> QED  BY ONLY <2>1, CommitRequests
<1>2. \A j \in Rows : rows[j] # NoSession => session[j] # NoSession /\ rows[j] = session[j]  OBVIOUS
<1>3. Open' \subseteq Open /\ \A j \in Open' : rows[j] = session[j]  BY <1>1, <1>2 DEF Open
<1>4. TypeInv'
  <2>1. rows \in [Rows -> Session \cup {NoSession}]  BY DEF Inv, TypeInv
  <2>2. Held' \subseteq issued  BY <1>1, <1>3 DEF Held, Inv, TypeInv
  <2> QED  BY <1>1, <1>3, <2>1, <2>2 DEF Inv, TypeInv
<1>5. ASSUME NEW x \in Requests, req'[x] \in SessionRequest
      PROVE  Found(req'[x], rows, ids, twins, issued)
  <2>1. x # r  BY <1>1, <1>5, Simple
  <2>2. Follows(req'[x], req[x], session, rows)  BY <1>1, <2>1
  <2> DEFINE q == req[x]
             p == req'[x]
  <2>3. q \in SessionRequest /\ Found(q, session, ids, twins, issued)
    BY <1>5, <2>2 DEF Follows, Inv, FoundInv
  <2> HIDE DEF p, q
  <2>4. p.phase = q.phase /\ p.token = q.token /\ p.id = q.id
        /\ (p.phase # "find" => (p.stale = q.stale /\ rows[q.id] = session[q.id]) \/ p.stale = TRUE)
    BY <2>2, <2>3 DEF Follows, p, q
  <2>5. 1..ids \subseteq Rows  BY AuthAssumption DEF Inv, TypeInv, Rows
  <2>6. Found(p, rows, ids, twins, issued)
    <3>1. CASE q.phase = "find"  BY <2>3, <2>4, <3>1 DEF Found
    <3>2. CASE q.phase # "find"
      <4>1. q.id \in Rows /\ (rows[q.id] # NoSession => rows[q.id] = session[q.id] /\ session[q.id] # NoSession)
        BY <1>2, <2>3, <2>5, <3>2 DEF Found
      <4>2. rows[q.id] # NoSession => rows[q.id].token[1] = q.token[1] /\ (~p.stale => rows[q.id].token = q.token)
        BY <2>3, <2>4, <3>2, <4>1 DEF Found
      <4>3. q.token \notin twins => \A j \in Rows : rows[j] # NoSession /\ rows[j].token = q.token => j = q.id
        BY <1>2, <2>3, <3>2 DEF Found
      <4>4. q.token \in issued /\ q.id \in 1..ids  BY <2>3, <3>2 DEF Found
      <4> QED  BY <2>4, <4>2, <4>3, <4>4 DEF Found
    <3> QED  BY <3>1, <3>2
  <2> QED  BY <2>6 DEF p
<1>6. FoundInv'  BY <1>1, <1>5 DEF FoundInv
<1>7. \A x \in Requests : Signs(req'[x]) => x # r /\ Signs(req[x]) /\ Fresh(req'[x]) = Fresh(req[x])
  BY <1>1, Simple DEF Follows
<1>8. SignedInv'
  <2> SUFFICES ASSUME NEW x \in Requests, Signs(req'[x]), Fresh(req'[x]) \notin twins
               PROVE  /\ Fresh(req'[x]) \notin issued
                      /\ \A y \in Requests : Signs(req'[y]) /\ Fresh(req'[y]) = Fresh(req'[x]) => y = x
    BY DEF SignedInv, Signs, Fresh
  <2>1. Signs(req[x]) /\ Fresh(req'[x]) = Fresh(req[x])  BY <1>7
  <2>2. /\ Fresh(req[x]) \notin issued
        /\ \A y \in Requests : Signs(req[y]) /\ Fresh(req[y]) = Fresh(req[x]) => y = x
    BY <2>1 DEF Inv, SignedInv
  <2> QED  BY <1>7, <2>1, <2>2
<1>9. HolderInv'  BY <1>1, <1>3 DEF Inv, HolderInv
<1>10. DeletedAccountHasNoSession'
  <2> SUFFICES ASSUME NEW j \in Open', user'[rows[j].token[1]] = "deleted"  PROVE rows[j].late
    BY <1>1 DEF DeletedAccountHasNoSession, Owner
  <2>1. j \in Open /\ rows[j] = session[j] /\ rows[j] # NoSession  BY <1>1, <1>3 DEF Open
  <2>2. user[Owner(j)] = "deleted"  BY <2>1 DEF Owner
  <2> QED  BY <2>1, <2>2 DEF Inv, DeletedAccountHasNoSession
<1> QED  BY <1>4, <1>6, <1>8, <1>9, <1>10 DEF Inv

LEMMA RefuseKeeps ==
    ASSUME Inv, NEW r \in Requests, Refuse(r)
    PROVE  Inv'
<1>1. Advance(r, Idle) /\ twins' = twins  BY DEF Refuse
<1>2. Idle \in Request /\ Idle \notin SessionRequest /\ ~Signs(Idle)  BY Simple, RequestMembers
<1>3. twins \subseteq Tokens  BY DEF Inv, TypeInv
<1> QED  BY <1>1, <1>2, <1>3, AdvanceKeeps

\* A request signs the token of u for this second.
LEMMA SignKeeps ==
    ASSUME Inv, NEW r \in Requests, NEW u \in Users, NEW q \in Request, Sign(r, u, q),
           Signs(q), Fresh(q) = <<u, now>>,
           q \in SessionRequest => Found(q, session, ids, twins, issued)
    PROVE  Inv'
<1> DEFINE token == <<u, now>>
           logins    == {<<req[x].of, req[x].fresh>> : x \in {y \in Requests : At(y, "write", "login")}}
           refreshes == {<<req[x].token[1], req[x].fresh>> : x \in {y \in Requests : At(y, "write", "refresh")}}
           signed    == issued \cup logins \cup refreshes
<1>1. Advance(r, q) /\ twins' = IF token \in signed THEN twins \cup {token} ELSE twins
  BY DEF Sign
<1>2. token \in Tokens  BY DEF Inv, TypeInv, Tokens
<1>3. twins \subseteq twins' /\ twins' \subseteq Tokens  BY <1>1, <1>2 DEF Inv, TypeInv
<1>4. ASSUME Fresh(q) \notin twins'
      PROVE  /\ Fresh(q) \notin issued
             /\ \A x \in Requests \ {r} : Signs(req[x]) => Fresh(req[x]) # Fresh(q)
  <2>1. token \notin signed  BY <1>1, <1>4
  <2>2. ASSUME NEW x \in Requests, Signs(req[x])  PROVE Fresh(req[x]) \in signed
    <3>1. CASE req[x].kind = "login"  BY <2>2, <3>1 DEF Signs, Fresh, At
    <3>2. CASE req[x].kind = "refresh"  BY <2>2, <3>2 DEF Signs, Fresh, At
    <3> QED  BY <2>2, <3>1, <3>2 DEF Signs
  <2> HIDE DEF signed
  <2>3. token \notin issued  BY <2>1 DEF signed
  <2> QED  BY <2>1, <2>2, <2>3
<1>5. q \in SessionRequest => Found(q, session, ids, twins', issued)  BY <1>3 DEF Found
<1> QED  BY <1>1, <1>3, <1>4, <1>5, AdvanceKeeps

-----------------------------------------------------------------------------
(* Each action keeps the invariant. *)

LEMMA TickKeeps ==
    ASSUME Inv, Tick
    PROVE  Inv'
<1>1. /\ user' = user /\ session' = session /\ ids' = ids /\ issued' = issued /\ req' = req /\ twins' = twins
      /\ now' = now + 1 /\ now < MaxTime
  BY DEF Tick
<1>2. now' \in Times  BY <1>1, AuthAssumption DEF Inv, TypeInv, Times
<1>3. Open' = Open /\ Held' = Held  BY <1>1 DEF Open, Held
<1>4. TypeInv'  BY <1>1, <1>2, <1>3 DEF Inv, TypeInv
<1>5. FoundInv'  BY <1>1 DEF Inv, FoundInv
<1>6. SignedInv'  BY <1>1 DEF Inv, SignedInv, Signs, Fresh
<1>7. HolderInv'  BY <1>1, <1>3 DEF Inv, HolderInv
<1>8. DeletedAccountHasNoSession'  BY <1>1, <1>3 DEF Inv, DeletedAccountHasNoSession, Owner
<1> QED  BY <1>4, <1>5, <1>6, <1>7, <1>8 DEF Inv

\* A request that has signed nothing and found no session.
LEMMA PlainKeeps ==
    ASSUME Inv, NEW r \in Requests, NEW q \in Request, Advance(r, q), UNCHANGED twins,
           q \notin SessionRequest, ~Signs(q)
    PROVE  Inv'
<1>1. twins \subseteq twins' /\ twins' \subseteq Tokens  BY DEF Inv, TypeInv
<1> QED  BY <1>1, AdvanceKeeps

Acc(phase, kind, of, fresh) == [phase |-> phase, kind |-> kind, of |-> of, fresh |-> fresh]

LEMMA AccRequest ==
    ASSUME NEW a \in {"create", "sign", "write"}, NEW b \in {"register", "login", "delete"},
           NEW c \in Users, NEW d \in Times
    PROVE  LET q == Acc(a, b, c, d)
           IN q \in Request /\ q \notin SessionRequest /\ q.phase = a /\ q.kind = b /\ q.of = c /\ q.fresh = d
<1> DEFINE q == Acc(a, b, c, d)
<1>1. q.phase = a /\ q.kind = b /\ q.of = c /\ q.fresh = d /\ q = [phase |-> a, kind |-> b, of |-> c, fresh |-> d]
  BY DEF Acc
<1> HIDE DEF q
<1>2. AccountFields(q)  BY <1>1 DEF AccountFields
<1>3. q \in Request  BY <1>2, AccountRequestFields, RequestMembers
<1>4. q \notin SessionRequest  BY <1>1, <1>3, AccountKind
<1> QED  BY <1>1, <1>3, <1>4 DEF q

LEMMA BeginAccount ==
    ASSUME Inv, NEW r \in Requests, NEW u \in Users, Register(r, u) \/ FindUser(r, u) \/ FindAccount(r, u)
    PROVE  Inv'
<1>1. 0 \in Times  BY AuthAssumption DEF Times
<1>2. CASE Register(r, u)
  <2> DEFINE q == Acc("create", "register", u, 0)
  <2>1. q \in Request /\ q \notin SessionRequest /\ q.phase = "create"  BY <1>1, AccRequest
  <2>2. Advance(r, q) /\ UNCHANGED twins  BY <1>2 DEF Register, Acc
  <2> HIDE DEF q
  <2>3. ~Signs(q)  BY <2>1 DEF Signs
  <2> QED  BY <2>1, <2>2, <2>3, PlainKeeps
<1>3. CASE FindUser(r, u)
  <2> DEFINE q == Acc("sign", "login", u, 0)
  <2>1. q \in Request /\ q \notin SessionRequest /\ q.phase = "sign"  BY <1>1, AccRequest
  <2>2. Advance(r, q) /\ UNCHANGED twins  BY <1>3 DEF FindUser, Acc
  <2> HIDE DEF q
  <2>3. ~Signs(q)  BY <2>1 DEF Signs
  <2> QED  BY <2>1, <2>2, <2>3, PlainKeeps
<1>4. CASE FindAccount(r, u) /\ ~Refuse(r)
  <2> DEFINE q == Acc("write", "delete", u, 0)
  <2>1. q \in Request /\ q \notin SessionRequest /\ q.kind = "delete"  BY <1>1, AccRequest
  <2>2. Advance(r, q) /\ UNCHANGED twins  BY <1>4 DEF FindAccount, Acc
  <2> HIDE DEF q
  <2>3. ~Signs(q)  BY <2>1 DEF Signs
  <2> QED  BY <2>1, <2>2, <2>3, PlainKeeps
<1>5. CASE Refuse(r)  BY <1>5, RefuseKeeps
<1> QED  BY <1>2, <1>3, <1>4, <1>5

LEMMA CreateUserKeeps ==
    ASSUME Inv, NEW r \in Requests, CreateUser(r)
    PROVE  Inv'
<1>1. CASE Refuse(r)  BY <1>1, RefuseKeeps
<1>2. CASE /\ user[req[r].of] = "none" /\ user' = [user EXCEPT ![req[r].of] = "active"]
           /\ req' = [req EXCEPT ![r] = Idle]
           /\ UNCHANGED <<now, session, ids, issued, twins>>
  <2>1. user \in [Users -> {"none", "active", "deleted"}] /\ req \in [Requests -> Request]
        /\ session \in [Rows -> Session \cup {NoSession}]
    BY DEF Inv, TypeInv
  <2>2. user' \in [Users -> {"none", "active", "deleted"}]  BY <1>2, <2>1
  <2>3. \A u \in Users : user'[u] = "deleted" => user[u] = "deleted"  BY <1>2, <2>1
  <2>4. Commit(r, session)
    <3>1. req' = [x \in Requests |-> IF x = r THEN Idle ELSE req[x]]  BY <1>2, <2>1
    <3> QED  BY <1>2, <3>1 DEF Commit
  <2>5. \A i \in Open : Owner(i) \in Users  BY <2>1 DEF Open, Owner, Session, Tokens
  <2>6. session = [i \in Rows |-> session[i]]  BY <2>1
  <2>7. now' = now /\ ids' = ids /\ issued' = issued /\ twins' = twins  BY <1>2
  <2>8. \A i \in Rows : session[i] \in {session[i], NoSession}  OBVIOUS
  <2>9. \A i \in Open : session[i] # NoSession /\ user'[Owner(i)] = "deleted" => user[Owner(i)] = "deleted"
    BY <2>3, <2>5
  <2> QED  BY <2>2, <2>4, <2>6, <2>7, <2>8, <2>9, CommitDeletes
<1> QED  BY <1>1, <1>2 DEF CreateUser

LEMMA SignLoginKeeps ==
    ASSUME Inv, NEW r \in Requests, SignLogin(r)
    PROVE  Inv'
<1> DEFINE q == [req[r] EXCEPT !.phase = "write", !.fresh = now]
           u == req[r].of
<1>1. req[r].phase = "sign" /\ req[r].kind = "login" /\ Sign(r, u, q)  BY DEF SignLogin, At
<1>2. AccountFields(req[r]) /\ now \in Times  BY <1>1, AccountKind DEF Inv, TypeInv
<1>3. q = Acc("write", "login", u, now)
  <2> DEFINE p == [req[r] EXCEPT !.phase = "write"]
             t == now
  <2>1. req[r] = Acc(req[r].phase, req[r].kind, u, req[r].fresh)  BY <1>2 DEF AccountFields, Acc
  <2>2. q = [p EXCEPT !.fresh = t]  OBVIOUS
  <2>3. \A a, b, c, d, e : [Acc(a, b, c, d) EXCEPT !.phase = e] = Acc(e, b, c, d)
                           /\ [Acc(a, b, c, d) EXCEPT !.fresh = e] = Acc(a, b, c, e)
    BY DEF Acc
  <2> HIDE DEF u
  <2>4. p = Acc("write", req[r].kind, u, req[r].fresh)  BY <2>1, <2>3
  <2> HIDE DEF p, q, t
  <2>5. q = Acc("write", req[r].kind, u, t)  BY <2>2, <2>3, <2>4
  <2> QED  BY <1>1, <2>5 DEF t
<1>4. u \in Users  BY <1>2 DEF AccountFields
<1> HIDE DEF q, u
<1>5. q \in Request /\ q \notin SessionRequest /\ q.phase = "write" /\ q.kind = "login" /\ q.of = u /\ q.fresh = now
  <2> DEFINE t == now
  <2>1. t \in Times /\ q = Acc("write", "login", u, t)  BY <1>2, <1>3
  <2> HIDE DEF t
  <2>2. q \in Request /\ q \notin SessionRequest /\ q.phase = "write" /\ q.kind = "login" /\ q.of = u /\ q.fresh = t
    BY <1>4, <2>1, AccRequest
  <2> QED  BY <2>2 DEF t
<1>6. Signs(q) /\ Fresh(q) = <<u, now>>  BY <1>5 DEF Signs, Fresh
<1> QED  BY <1>1, <1>4, <1>5, <1>6, SignKeeps

LEMMA InsertSessionKeeps ==
    ASSUME Inv, NEW r \in Requests, InsertSession(r)
    PROVE  Inv'
<1> DEFINE k == ids + 1
           l == user[req[r].of] = "deleted"
           f == Fresh(req[r])
           rows == [session EXCEPT ![k] = [token |-> f, late |-> l]]
<1>1. req[r].phase = "write" /\ req[r].kind = "login" /\ ids < MaxSessions
  BY DEF InsertSession, At
<1>2. Signs(req[r]) /\ f = <<req[r].of, req[r].fresh>>  BY <1>1 DEF Signs, Fresh
<1>3. Commit(r, rows) /\ issued' = issued \cup {f} /\ now' = now /\ user' = user /\ twins' = twins /\ ids' = k
  BY <1>2 DEF InsertSession
<1>4. k \in Rows  BY <1>1, AuthAssumption DEF Inv, TypeInv, Rows
<1>5. l \in BOOLEAN /\ (user[f[1]] = "deleted" => l)  BY <1>2
<1>6. rows = [session EXCEPT ![k] = [token |-> Fresh(req[r]), late |-> l]]  OBVIOUS
<1>7. k = ids + 1 /\ ids' = ids + 1 /\ (user[Fresh(req[r])[1]] = "deleted" => l)  BY <1>3, <1>5
<1>8. issued' = issued \cup {Fresh(req[r])} /\ now' = now /\ user' = user /\ twins' = twins  BY <1>3
<1>9. Commit(r, rows)  BY <1>3
<1>10. l \in BOOLEAN  OBVIOUS
<1> HIDE DEF k, l, f, rows
<1> QED  BY <1>2, <1>4, <1>6, <1>7, <1>8, <1>9, <1>10, CommitWrites

\* What is known of a request about a session.
LEMMA Known ==
    ASSUME Inv, NEW r \in Requests, req[r].phase \in {"find", "sign", "write"},
           req[r].kind \in {"refresh", "logout", "expire"}
    PROVE  /\ req[r] \in SessionRequest /\ SessionFields(req[r])
           /\ Found(req[r], session, ids, twins, issued)
           /\ req[r].phase # "find" => req[r].id \in Rows
<1>1. req[r] \in Request  BY DEF Inv, TypeInv
<1>2. req[r] \in SessionRequest /\ SessionFields(req[r])  BY <1>1, SessionKind
<1>3. Found(req[r], session, ids, twins, issued)  BY <1>2 DEF Inv, FoundInv
<1>4. 1..ids \subseteq Rows  BY AuthAssumption DEF Inv, TypeInv, Rows
<1> QED  BY <1>2, <1>3, <1>4 DEF Found

\* A session that holds a token, once found, is the one that the token stands for.
LEMMA FoundNow ==
    ASSUME Inv, NEW i \in Open, NEW q, q.id = i, q.token = session[i].token
    PROVE  Found(q, session, ids, twins, issued)
<1>1. q.token \in issued  BY DEF Inv, TypeInv, Held
<1>2. i \in 1..ids  BY DEF Inv, TypeInv
<1>3. q.token \notin twins => \A j \in Rows : session[j] # NoSession /\ session[j].token = q.token => j = i
  BY DEF Inv, HolderInv, Open
<1> QED  BY <1>1, <1>2, <1>3 DEF Found

LEMMA VerifyTokenKeeps ==
    ASSUME Inv, NEW r \in Requests, NEW t \in Tokens, VerifyToken(r, t)
    PROVE  Inv'
<1> DEFINE z == 0
           b == FALSE
           q == Ses("find", "refresh", t, z, z, b)
<1>1. t \in issued /\ Advance(r, q) /\ UNCHANGED twins  BY DEF VerifyToken, Ses
<1>2. Allowed("find", "refresh", t, z, z, b)  BY AuthAssumption DEF Allowed, Times
<1>3. q = Ses("find", "refresh", t, z, z, b)  OBVIOUS
<1> HIDE DEF q, z, b
<1>4. q \in Request /\ q.phase = "find" /\ q.token = t  BY <1>2, <1>3, SesRequest
<1>5. Found(q, session, ids, twins', issued) /\ ~Signs(q)  BY <1>1, <1>4 DEF Found, Signs
<1>6. twins \subseteq twins' /\ twins' \subseteq Tokens  BY <1>1 DEF Inv, TypeInv
<1> QED  BY <1>1, <1>4, <1>5, <1>6, AdvanceKeeps

LEMMA FindSessionKeeps ==
    ASSUME Inv, NEW r \in Requests, FindSession(r)
    PROVE  Inv'
<1>1. req[r].phase = "find" /\ req[r].kind = "refresh"  BY DEF FindSession, At
<1>2. req[r] \in SessionRequest /\ SessionFields(req[r])  BY <1>1, Known
<1>3. CASE Refuse(r)  BY <1>3, RefuseKeeps
<1>4. ASSUME NEW i \in Open, session[i].token = req[r].token,
             Advance(r, [req[r] EXCEPT !.phase = "sign", !.id = i]), UNCHANGED twins
      PROVE  Inv'
  <2> DEFINE o == req[r]
             q == [o EXCEPT !.phase = "sign", !.id = i]
  <2>1. q = Ses("sign", o.kind, o.token, i, o.fresh, o.stale)  BY <1>2, Assigned
  <2>2. i \in 0..MaxSessions  BY AuthAssumption DEF Open, Rows
  <2>3. Advance(r, q)  BY <1>4
  <2>4. Allowed("sign", o.kind, o.token, i, o.fresh, o.stale)  BY <1>2, <2>2 DEF SessionFields, Allowed
  <2>5. session[i].token = o.token  BY <1>4
  <2> HIDE DEF o, q
  <2>6. q \in Request /\ q.phase = "sign" /\ q.token = o.token /\ q.id = i  BY <2>1, <2>4, SesRequest
  <2>7. Found(q, session, ids, twins, issued)  BY <2>5, <2>6, FoundNow
  <2>8. twins' = twins /\ twins \subseteq twins' /\ twins' \subseteq Tokens  BY <1>4 DEF Inv, TypeInv
  <2>9. Found(q, session, ids, twins', issued) /\ ~Signs(q)  BY <2>6, <2>7, <2>8 DEF Signs
  <2> QED  BY <2>3, <2>6, <2>8, <2>9, AdvanceKeeps
<1> QED  BY <1>3, <1>4 DEF FindSession

LEMMA FindExpiredKeeps ==
    ASSUME Inv, NEW r \in Requests, FindExpired(r)
    PROVE  Inv'
<1> DEFINE o == req[r]
           q == [o EXCEPT !.phase = "write", !.kind = "expire"]
<1>1. o.phase = "sign" /\ o.kind = "refresh" /\ Advance(r, q) /\ UNCHANGED twins  BY DEF FindExpired, At
<1>2. o \in SessionRequest /\ SessionFields(o) /\ Found(o, session, ids, twins, issued)  BY <1>1, Known
<1>3. q = Ses("write", "expire", o.token, o.id, o.fresh, o.stale)  BY <1>2, Assigned
<1> HIDE DEF o, q
<1>4. Allowed("write", "expire", o.token, o.id, o.fresh, o.stale)  BY <1>2 DEF SessionFields, Allowed
<1>5. /\ q \in Request /\ q.phase = "write" /\ q.kind = "expire" /\ q.token = o.token
      /\ q.id = o.id /\ q.stale = o.stale
  BY <1>3, <1>4, SesRequest
<1>6. twins' = twins /\ twins \subseteq twins' /\ twins' \subseteq Tokens  BY <1>1 DEF Inv, TypeInv
<1>7. Found(q, session, ids, twins', issued) /\ ~Signs(q)  BY <1>1, <1>2, <1>5, <1>6 DEF Found, Signs
<1> QED  BY <1>1, <1>5, <1>6, <1>7, AdvanceKeeps

LEMMA SignRefreshKeeps ==
    ASSUME Inv, NEW r \in Requests, SignRefresh(r)
    PROVE  Inv'
<1> DEFINE o == req[r]
           t == now
           u == o.token[1]
           q == [o EXCEPT !.phase = "write", !.fresh = t]
<1>1. o.phase = "sign" /\ o.kind = "refresh" /\ Sign(r, u, q)  BY DEF SignRefresh, At
<1>2. o \in SessionRequest /\ SessionFields(o) /\ Found(o, session, ids, twins, issued)  BY <1>1, Known
<1>3. q = Ses("write", o.kind, o.token, o.id, t, o.stale)  BY <1>2, Assigned
<1>4. t \in Times  BY DEF Inv, TypeInv
<1> HIDE DEF o, q, t
<1>5. Allowed("write", o.kind, o.token, o.id, t, o.stale)  BY <1>2, <1>4 DEF SessionFields, Allowed
<1>6. /\ q \in Request /\ q.phase = "write" /\ q.kind = o.kind /\ q.token = o.token
      /\ q.id = o.id /\ q.fresh = t /\ q.stale = o.stale
  BY <1>3, <1>5, SesRequest
<1>7. Found(q, session, ids, twins, issued)  BY <1>1, <1>2, <1>6 DEF Found
<1>8. Signs(q) /\ Fresh(q) = <<u, now>>  BY <1>1, <1>6 DEF Signs, Fresh, t
<1>9. u \in Users  BY <1>2 DEF SessionFields, Tokens
<1> HIDE DEF u
<1> QED  BY <1>1, <1>6, <1>7, <1>8, <1>9, SignKeeps

\* The rows that a refresh writes.
LEMMA SessionRow ==
    ASSUME Inv, NEW i \in Open, NEW t
    PROVE  /\ session[i] \in Session
           /\ [session EXCEPT ![i].token = t] = [session EXCEPT ![i] = [token |-> t, late |-> session[i].late]]
<1>1. session \in [Rows -> Session \cup {NoSession}]  BY DEF Inv, TypeInv
<1>2. session[i] \in Session  BY <1>1 DEF Open
<1>3. [session[i] EXCEPT !.token = t] = [token |-> t, late |-> session[i].late]  BY <1>2 DEF Session
<1> QED  BY <1>2, <1>3

LEMMA UpdateSessionKeeps ==
    ASSUME Inv, NEW r \in Requests, UpdateSession(r)
    PROVE  Inv'
<1> DEFINE k == req[r].id
           f == Fresh(req[r])
           l == session[k].late
           rows == [session EXCEPT ![k] = [token |-> f, late |-> l]]
<1>1. req[r].phase = "write" /\ req[r].kind = "refresh"  BY DEF UpdateSession, At
<1>2. Signs(req[r]) /\ f = <<req[r].token[1], req[r].fresh>>  BY <1>1 DEF Signs, Fresh
<1>3. CASE Refuse(r)  BY <1>3, RefuseKeeps
<1>4. CASE ~Refuse(r)
  <2>1. /\ k \in Open /\ Commit(r, [session EXCEPT ![k].token = f]) /\ issued' = issued \cup {f}
        /\ now' = now /\ user' = user /\ twins' = twins /\ ids' = ids
    BY <1>2, <1>4 DEF UpdateSession
  <2>2. session[k] \in Session /\ Commit(r, rows)  BY <2>1, SessionRow
  <2>3. l \in BOOLEAN /\ k \in Rows  BY <2>1, <2>2 DEF Session, Open
  <2>4. Fresh(req[r])[1] = Owner(k)
    <3>1. Found(req[r], session, ids, twins, issued)  BY <1>1, Known
    <3> QED  BY <1>1, <1>2, <2>1, <3>1 DEF Found, Owner, Open
  <2>5. rows = [session EXCEPT ![k] = [token |-> Fresh(req[r]), late |-> l]]  OBVIOUS
  <2>6. k \in Open /\ ids' = ids /\ Fresh(req[r])[1] = Owner(k) /\ l = session[k].late  BY <2>1, <2>4
  <2>7. issued' = issued \cup {Fresh(req[r])} /\ now' = now /\ user' = user /\ twins' = twins  BY <2>1
  <2> HIDE DEF k, f, l, rows
  <2> QED  BY <1>2, <2>2, <2>3, <2>5, <2>6, <2>7, CommitWrites
<1> QED  BY <1>3, <1>4

LEMMA LogoutKeeps ==
    ASSUME Inv, NEW r \in Requests, NEW t \in Tokens, Logout(r, t)
    PROVE  Inv'
<1>1. PICK i \in Open :
        /\ session[i].token = t
        /\ Advance(r, [phase |-> "write", kind |-> "logout", token |-> t, id |-> i, fresh |-> 0, stale |-> FALSE])
  BY DEF Logout
<1> DEFINE z == 0
           b == FALSE
           q == Ses("write", "logout", t, i, z, b)
<1>2. Advance(r, q)  BY <1>1 DEF Ses
<1>3. Allowed("write", "logout", t, i, z, b)  BY AuthAssumption DEF Allowed, Times, Open, Rows
<1>4. q = Ses("write", "logout", t, i, z, b)  OBVIOUS
<1> HIDE DEF q, z, b
<1>5. q \in Request /\ q.phase = "write" /\ q.kind = "logout" /\ q.token = t /\ q.id = i
  BY <1>3, <1>4, SesRequest
<1>6. Found(q, session, ids, twins, issued) /\ ~Signs(q)  BY <1>1, <1>5, FoundNow DEF Signs
<1>7. twins' = twins /\ twins \subseteq twins' /\ twins' \subseteq Tokens  BY DEF Logout, Inv, TypeInv
<1>8. Found(q, session, ids, twins', issued)  BY <1>6, <1>7
<1> QED  BY <1>2, <1>5, <1>6, <1>7, <1>8, AdvanceKeeps

LEMMA DeleteSessionKeeps ==
    ASSUME Inv, NEW r \in Requests, DeleteSession(r)
    PROVE  Inv'
<1> DEFINE rows == [session EXCEPT ![req[r].id] = NoSession]
<1>1. CASE Refuse(r)  BY <1>1, RefuseKeeps
<1>2. CASE Commit(r, rows) /\ UNCHANGED <<now, user, ids, issued, twins>>
  <2>1. user \in [Users -> {"none", "active", "deleted"}] /\ session \in [Rows -> Session \cup {NoSession}]
    BY DEF Inv, TypeInv
  <2>2. rows = [i \in Rows |-> rows[i]] /\ \A i \in Rows : rows[i] \in {session[i], NoSession}  BY <2>1
  <2>3. Commit(r, rows) /\ user' = user /\ now' = now /\ ids' = ids /\ issued' = issued /\ twins' = twins
    BY <1>2
  <2> HIDE DEF rows
  <2>4. user' \in [Users -> {"none", "active", "deleted"}]  BY <2>1, <2>3
  <2>5. \A i \in Open : rows[i] # NoSession /\ user'[Owner(i)] = "deleted" => user[Owner(i)] = "deleted"
    BY <2>3
  <2> QED  BY <2>2, <2>3, <2>4, <2>5, CommitDeletes
<1> QED  BY <1>1, <1>2 DEF DeleteSession

LEMMA SoftDeleteUserKeeps ==
    ASSUME Inv, NEW r \in Requests, SoftDeleteUser(r)
    PROVE  Inv'
<1> DEFINE u == req[r].of
           rows == [i \in Rows |-> IF i \in Open /\ Owner(i) = u THEN NoSession ELSE session[i]]
<1>1. Commit(r, rows) /\ user' = [user EXCEPT ![u] = "deleted"]
      /\ now' = now /\ ids' = ids /\ issued' = issued /\ twins' = twins
  BY DEF SoftDeleteUser
<1>2. user \in [Users -> {"none", "active", "deleted"}]  BY DEF Inv, TypeInv
<1>3. rows = [i \in Rows |-> rows[i]] /\ \A i \in Rows : rows[i] \in {session[i], NoSession}  OBVIOUS
<1>4. user' \in [Users -> {"none", "active", "deleted"}]  BY <1>1, <1>2
<1>5. \A i \in Open : rows[i] # NoSession /\ user'[Owner(i)] = "deleted" => user[Owner(i)] = "deleted"
  <2> SUFFICES ASSUME NEW i \in Open, rows[i] # NoSession, user'[Owner(i)] = "deleted"
               PROVE  user[Owner(i)] = "deleted"
    OBVIOUS
  <2>1. i \in Rows /\ Owner(i) # u  BY DEF Open
  <2>2. Owner(i) \in Users
    <3>1. session[i] \in Session  BY SessionRow
    <3> QED  BY <3>1 DEF Owner, Session, Tokens
  <2> QED  BY <1>1, <1>2, <2>1, <2>2
<1> HIDE DEF rows
<1> QED  BY <1>1, <1>3, <1>4, <1>5, CommitDeletes

LEMMA AuthenticateKeeps ==
    ASSUME Inv, NEW r \in Requests, NEW t \in Tokens, Authenticate(r, t)
    PROVE  Inv'
<1> DEFINE q == [phase |-> "account"]
<1>1. Advance(r, q) /\ UNCHANGED twins  BY DEF Authenticate
<1>2. q \in Request /\ q \notin SessionRequest /\ ~Signs(q)  BY Simple, RequestMembers
<1> QED  BY <1>1, <1>2, PlainKeeps

-----------------------------------------------------------------------------
(* The theorems. *)

LEMMA InitInv == Init => Inv
<1> SUFFICES ASSUME Init  PROVE Inv
  OBVIOUS
<1>1. /\ now = 0 /\ ids = 0 /\ issued = {} /\ twins = {} /\ user \in [Users -> {"none", "active"}]
      /\ session = [i \in Rows |-> NoSession] /\ req = [r \in Requests |-> Idle]
  BY DEF Init
<1>2. Open = {} /\ Held = {}  BY <1>1 DEF Open, Held
<1>3. TypeInv  BY <1>1, <1>2, AuthAssumption, RequestMembers DEF TypeInv, Times
<1>4. \A r \in Requests : req[r] \notin SessionRequest /\ ~Signs(req[r])  BY <1>1, Simple
<1> QED  BY <1>2, <1>3, <1>4 DEF Inv, FoundInv, SignedInv, HolderInv, DeletedAccountHasNoSession

LEMMA StepKeeps ==
    ASSUME Inv, NEW r \in Requests, Step(r)
    PROVE  Inv'
<1>1. CASE \E u \in Users : Register(r, u) \/ FindUser(r, u) \/ FindAccount(r, u)
  BY <1>1, BeginAccount
<1>2. CASE \E t \in Tokens : VerifyToken(r, t)  BY <1>2, VerifyTokenKeeps
<1>3. CASE \E t \in Tokens : Logout(r, t)  BY <1>3, LogoutKeeps
<1>4. CASE \E t \in Tokens : Authenticate(r, t)  BY <1>4, AuthenticateKeeps
<1>5. CASE CreateUser(r)  BY <1>5, CreateUserKeeps
<1>6. CASE SignLogin(r)  BY <1>6, SignLoginKeeps
<1>7. CASE InsertSession(r)  BY <1>7, InsertSessionKeeps
<1>8. CASE FindSession(r)  BY <1>8, FindSessionKeeps
<1>9. CASE FindExpired(r)  BY <1>9, FindExpiredKeeps
<1>10. CASE SignRefresh(r)  BY <1>10, SignRefreshKeeps
<1>11. CASE UpdateSession(r)  BY <1>11, UpdateSessionKeeps
<1>12. CASE DeleteSession(r)  BY <1>12, DeleteSessionKeeps
<1>13. CASE SoftDeleteUser(r)  BY <1>13, SoftDeleteUserKeeps
<1> QED  BY <1>1, <1>2, <1>3, <1>4, <1>5, <1>6, <1>7, <1>8, <1>9, <1>10, <1>11, <1>12, <1>13 DEF Step

LEMMA NextInv == Inv /\ [Next]_vars => Inv'
<1> SUFFICES ASSUME Inv, [Next]_vars  PROVE Inv'
  OBVIOUS
<1>1. CASE Tick  BY <1>1, TickKeeps
<1>2. CASE \E r \in Requests : Step(r)  BY <1>2, StepKeeps
<1>3. CASE UNCHANGED vars
  <2>1. /\ now' = now /\ user' = user /\ session' = session /\ ids' = ids /\ issued' = issued
        /\ req' = req /\ twins' = twins
    BY <1>3 DEF vars
  <2>2. Open' = Open /\ Held' = Held  BY <2>1 DEF Open, Held
  <2>3. TypeInv'  BY <2>1, <2>2 DEF Inv, TypeInv
  <2>4. FoundInv' /\ SignedInv'  BY <2>1 DEF Inv, FoundInv, SignedInv, Signs, Fresh
  <2>5. HolderInv' /\ DeletedAccountHasNoSession'
    BY <2>1, <2>2 DEF Inv, HolderInv, DeletedAccountHasNoSession, Owner
  <2> QED  BY <2>3, <2>4, <2>5 DEF Inv
<1> QED  BY <1>1, <1>2, <1>3 DEF Next

LEMMA Inductive == Spec => []Inv
BY InitInv, NextInv, PTL DEF Spec

\* The variables have their types, and sessions hold tokens that a client has been given.
THEOREM TypeCorrect == Spec => []TypeOK
<1>1. Inv => TypeOK  BY DEF Inv, TypeInv, TypeOK
<1> QED  BY <1>1, Inductive, PTL

\* The sessions of a deleted account are those that a login inserted after the deletion.
THEOREM DeletedHasNone == Spec => []DeletedAccountHasNoSession
<1>1. Inv => DeletedAccountHasNoSession  BY DEF Inv
<1> QED  BY <1>1, Inductive, PTL

\* A step changes its own request; the others are marked stale at most.
LEMMA StepForm ==
    ASSUME NEW r \in Requests, Step(r)
    PROVE  \/ \E q : req' = [req EXCEPT ![r] = q] /\ session' = session
           \/ \E rows : Commit(r, rows)
<1>1. ASSUME NEW q, Advance(r, q)  PROVE req' = [req EXCEPT ![r] = q] /\ session' = session
  BY <1>1 DEF Advance
<1>2. ASSUME NEW u, NEW q, Sign(r, u, q)  PROVE Advance(r, q)
  BY <1>2 DEF Sign
<1>3. Refuse(r) => \E q : Advance(r, q)  BY DEF Refuse
<1>4. CASE \E u \in Users : Register(r, u) \/ FindUser(r, u) \/ FindAccount(r, u)
  BY <1>1, <1>3, <1>4 DEF Register, FindUser, FindAccount
<1>5. CASE \E t \in Tokens : VerifyToken(r, t)  BY <1>1, <1>5 DEF VerifyToken
<1>6. CASE \E t \in Tokens : Logout(r, t)  BY <1>1, <1>6 DEF Logout
<1>7. CASE \E t \in Tokens : Authenticate(r, t)  BY <1>1, <1>7 DEF Authenticate
<1>8. CASE CreateUser(r)  BY <1>1, <1>3, <1>8 DEF CreateUser
<1>9. CASE SignLogin(r)  BY <1>1, <1>2, <1>9 DEF SignLogin
<1>10. CASE InsertSession(r)  BY <1>10 DEF InsertSession
<1>11. CASE FindSession(r)  BY <1>1, <1>3, <1>11 DEF FindSession
<1>12. CASE FindExpired(r)  BY <1>1, <1>12 DEF FindExpired
<1>13. CASE SignRefresh(r)  BY <1>1, <1>2, <1>13 DEF SignRefresh
<1>14. CASE UpdateSession(r)  BY <1>1, <1>3, <1>14 DEF UpdateSession
<1>15. CASE DeleteSession(r)  BY <1>1, <1>3, <1>15 DEF DeleteSession
<1>16. CASE SoftDeleteUser(r)  BY <1>16 DEF SoftDeleteUser
<1> QED
  BY <1>4, <1>5, <1>6, <1>7, <1>8, <1>9, <1>10, <1>11, <1>12, <1>13, <1>14, <1>15, <1>16 DEF Step

\* A request that is to write a session ends by its own write.
LEMMA EndsByItsWrite ==
    ASSUME Inv, Next, NEW r \in Requests, req[r].phase = "write", req[r].kind \in {"refresh", "logout", "expire"},
           req'[r] = Idle
    PROVE  /\ req[r].kind = "refresh" => UpdateSession(r)
           /\ req[r].kind # "refresh" => DeleteSession(r)
<1>1. req[r] \in SessionRequest  BY Known
<1>2. req[r] # Idle  BY <1>1, Simple
<1>3. PICK x \in Requests : Step(x)  BY <1>2 DEF Next, Tick
<1>4. x = r
  <2> SUFFICES ASSUME x # r  PROVE FALSE
    OBVIOUS
  <2>1. ASSUME NEW q, req' = [req EXCEPT ![x] = q]  PROVE FALSE
    <3>1. req \in [Requests -> Request]  BY DEF Inv, TypeInv
    <3>2. req'[r] = req[r]  BY <2>1, <3>1
    <3> QED  BY <1>2, <3>2
  <2>2. ASSUME NEW rows, Commit(x, rows)  PROVE FALSE
    <3>1. Follows(req'[r], req[r], session, rows)  BY <2>2, CommitRequests
    <3>2. req'[r] \in SessionRequest  BY <1>1, <3>1 DEF Follows
    <3> QED  BY <3>2, Simple
  <2> QED  BY <1>3, <2>1, <2>2, StepForm
<1>5. Step(r)  BY <1>3, <1>4
<1> QED
  BY <1>2, <1>5 DEF Step, Register, FindUser, FindAccount, VerifyToken, Logout, Authenticate, CreateUser, SignLogin,
     InsertSession, FindSession, FindExpired, SignRefresh, UpdateSession, DeleteSession, SoftDeleteUser, At

-----------------------------------------------------------------------------
(* What the steps do to the rows. *)

\* Request x puts the token that it has signed into a row: a new one, or the one found.
Puts(x) ==
    /\ Signs(req[x])
    /\ \E k \in Rows, l \in BOOLEAN :
         /\ session' = [session EXCEPT ![k] = [token |-> Fresh(req[x]), late |-> l]]
         /\ k \in Open => req[x].kind = "refresh" /\ k = req[x].id

\* Request x removes the row that it has found, or those of an account.
Removes(x) ==
    /\ req[x].kind \in {"logout", "expire"}
    /\ session' = [session EXCEPT ![req[x].id] = NoSession]

Clears(x) ==
    /\ req[x].kind = "delete"
    /\ session' = [i \in Rows |-> IF i \in Open /\ Owner(i) = req[x].of THEN NoSession ELSE session[i]]

LEMMA Updates ==
    ASSUME Inv, NEW r \in Requests, UpdateSession(r)
    PROVE  \/ session' = session /\ req[r].id \notin Open
           \/ /\ req[r].id \in Open /\ req'[r] = Idle
              /\ \E l \in BOOLEAN :
                   session' = [session EXCEPT ![req[r].id] = [token |-> Fresh(req[r]), late |-> l]]
<1> DEFINE k == req[r].id
           f == Fresh(req[r])
<1>1. f = <<req[r].token[1], req[r].fresh>>  BY DEF UpdateSession, At, Fresh
<1>2. CASE k \notin Open /\ Refuse(r)  BY <1>2 DEF Refuse, Advance
<1>3. CASE k \in Open /\ Commit(r, [session EXCEPT ![k].token = f])
  <2>1. session' = [session EXCEPT ![k].token = f] /\ req'[r] = Idle  BY <1>3 DEF Commit
  <2>2. session[k] \in Session
        /\ [session EXCEPT ![k].token = f] = [session EXCEPT ![k] = [token |-> f, late |-> session[k].late]]
    BY <1>3, SessionRow
  <2>3. session[k].late \in BOOLEAN  BY <2>2 DEF Session
  <2> QED  BY <1>3, <2>1, <2>2, <2>3
<1> QED  BY <1>1, <1>2, <1>3 DEF UpdateSession

LEMMA Deletes ==
    ASSUME Inv, NEW r \in Requests, DeleteSession(r)
    PROVE  \/ session' = session /\ req[r].id \notin Open
           \/ session' = [session EXCEPT ![req[r].id] = NoSession] /\ req'[r] = Idle
<1>1. Refuse(r) => session' = session  BY DEF Refuse, Advance
<1> QED  BY <1>1 DEF DeleteSession, Commit

LEMMA Inserts ==
    ASSUME Inv, NEW r \in Requests, InsertSession(r)
    PROVE  Puts(r) /\ req'[r] = Idle
<1> DEFINE l == user[req[r].of] = "deleted"
           k == ids + 1
<1>1. Signs(req[r]) /\ Fresh(req[r]) = <<req[r].of, req[r].fresh>>  BY DEF InsertSession, At, Signs, Fresh
<1>2. session' = [session EXCEPT ![k] = [token |-> Fresh(req[r]), late |-> l]] /\ req'[r] = Idle
  BY <1>1 DEF InsertSession, Commit
<1>3. k \in Rows /\ k \notin Open  BY AuthAssumption DEF InsertSession, Inv, TypeInv, Rows
<1>4. l \in BOOLEAN  OBVIOUS
<1> HIDE DEF l, k
<1> QED  BY <1>1, <1>2, <1>3, <1>4 DEF Puts

\* The rows change by one of these writes, which ends its request.
LEMMA Writers ==
    ASSUME Inv, Next, session' # session
    PROVE  \E x \in Requests : req[x].phase = "write" /\ req'[x] = Idle /\ (Puts(x) \/ Removes(x) \/ Clears(x))
<1>1. PICK x \in Requests : Step(x)  BY DEF Next, Tick
<1>2. \A q : ~Advance(x, q)  BY DEF Advance
<1>3. (\A u, q : ~Sign(x, u, q)) /\ ~Refuse(x)  BY <1>2 DEF Sign, Refuse
<1>4. ~CreateUser(x)  BY <1>3 DEF CreateUser
<1>5. InsertSession(x) \/ UpdateSession(x) \/ DeleteSession(x) \/ SoftDeleteUser(x)
  BY <1>1, <1>2, <1>3, <1>4 DEF Step, Register, FindUser, FindAccount, VerifyToken, Logout, Authenticate,
     SignLogin, FindSession, FindExpired, SignRefresh
<1>6. CASE InsertSession(x)  BY <1>6, Inserts DEF InsertSession, At
<1>7. CASE UpdateSession(x)
  <2>1. req[x].phase = "write" /\ req[x].kind = "refresh"  BY <1>7 DEF UpdateSession, At
  <2>2. req[x].id \in Open /\ req'[x] = Idle  BY <1>7, Updates
  <2>3. Puts(x)  BY <1>7, <2>1, <2>2, Updates DEF Puts, Signs, Open
  <2> QED  BY <2>1, <2>2, <2>3
<1>8. CASE DeleteSession(x)
  <2>1. req[x].phase = "write" /\ req[x].kind \in {"logout", "expire"}  BY <1>8 DEF DeleteSession, At
  <2> QED  BY <1>8, <2>1, Deletes DEF Removes
<1>9. CASE SoftDeleteUser(x)  BY <1>9 DEF SoftDeleteUser, At, Commit, Clears
<1> QED  BY <1>5, <1>6, <1>7, <1>8, <1>9

\* A token gets held by the request that has signed it only.
LEMMA HeldAfter ==
    ASSUME Inv, Next, NEW t \in Held'
    PROVE  t \in Held \/ \E x \in Requests : Signs(req[x]) /\ t = Fresh(req[x])
<1>1. PICK i \in Rows : session'[i] # NoSession /\ t = session'[i].token  BY DEF Held, Open
<1>2. CASE session'[i] = session[i]  BY <1>1, <1>2 DEF Held, Open
<1>3. CASE session'[i] # session[i]
  <2>1. PICK x \in Requests : Puts(x) \/ Removes(x) \/ Clears(x)  BY <1>3, Writers
  <2>2. session \in [Rows -> Session \cup {NoSession}]  BY DEF Inv, TypeInv
  <2>3. ~Removes(x)  BY <1>1, <1>3, <2>2 DEF Removes
  <2>4. ~Clears(x)  BY <1>1, <1>3, <2>2 DEF Clears
  <2>5. PICK k \in Rows, l \in BOOLEAN : session' = [session EXCEPT ![k] = [token |-> Fresh(req[x]), late |-> l]]
    BY <2>1, <2>3, <2>4 DEF Puts
  <2>6. session'[i] = [token |-> Fresh(req[x]), late |-> l]  BY <1>3, <2>2, <2>5
  <2> QED  BY <1>1, <2>1, <2>3, <2>4, <2>6 DEF Puts
<1> QED  BY <1>2, <1>3

\* When a refresh that signed in a later second ends, no session holds the token that it
\* presented; a token that no session holds is never held again; but for tokens signed twice.
THEOREM UsedIsDead == Spec => UsedTokenIsDead
<1> DEFINE A == /\ \A r \in Requests :
                     At(r, "write", "refresh") /\ req'[r] = Idle /\ req[r].fresh # req[r].token[2]
                       => req[r].token \notin Held' \ twins
                /\ \A t \in issued \ Held : t \notin Held' \ twins
<1>1. Inv /\ [Next]_vars => [A]_vars
  <2> SUFFICES ASSUME Inv, Next  PROVE A
    OBVIOUS
  <2>1. ASSUME NEW r \in Requests, At(r, "write", "refresh"), req'[r] = Idle, req[r].fresh # req[r].token[2],
               req[r].token \notin twins, req[r].token \in Held'
        PROVE  FALSE
    <3> DEFINE k == req[r].id
               t == req[r].token
    <3>1. UpdateSession(r)  BY <2>1, EndsByItsWrite DEF At
    <3>2. Found(req[r], session, ids, twins, issued)  BY <2>1, Known DEF At
    <3>3. \A j \in Rows : session[j] # NoSession /\ session[j].token = t => j = k  BY <2>1, <3>2 DEF Found, At
    <3>4. PICK i \in Rows : session'[i] # NoSession /\ session'[i].token = t  BY <2>1 DEF Held, Open
    <3>5. Fresh(req[r]) # t  BY <2>1 DEF Fresh, At
    <3>6. CASE session' = session /\ k \notin Open  BY <3>3, <3>4, <3>6 DEF Open
    <3>7. ASSUME NEW l, k \in Open, session' = [session EXCEPT ![k] = [token |-> Fresh(req[r]), late |-> l]]
          PROVE  FALSE
      <4>1. session \in [Rows -> Session \cup {NoSession}]  BY DEF Inv, TypeInv
      <4>2. CASE i = k
        <5>1. session'[i] = [token |-> Fresh(req[r]), late |-> l]  BY <3>7, <4>1, <4>2
        <5> QED  BY <3>4, <3>5, <5>1
      <4>3. CASE i # k
        <5>1. session'[i] = session[i]  BY <3>7, <4>1, <4>3
        <5> QED  BY <3>3, <3>4, <4>3, <5>1
      <4> QED  BY <4>2, <4>3
    <3> QED  BY <3>1, <3>6, <3>7, Updates
  <2>2. ASSUME NEW t \in issued \ Held, t \in Held', t \notin twins  PROVE FALSE
    BY <2>2, HeldAfter DEF Inv, SignedInv
  <2> QED  BY <2>1, <2>2
<1> QED  BY <1>1, Inductive, PTL DEF Spec, UsedTokenIsDead

\* When a logout with a token has been answered, the session that it was looked up for is
\* gone and no session holds that token, unless it was signed twice.
THEOREM LogoutEnds == Spec => LogoutEndsTheToken
<1> DEFINE A == \A r \in Requests : At(r, "write", "logout") /\ req'[r] = Idle =>
                  /\ session'[req[r].id] = NoSession
                  /\ req[r].token \in Held' => req[r].token \in twins
<1>1. Inv /\ [Next]_vars => [A]_vars
  <2> SUFFICES ASSUME Inv, Next, NEW r \in Requests, At(r, "write", "logout"), req'[r] = Idle
               PROVE  /\ session'[req[r].id] = NoSession
                      /\ req[r].token \in Held' => req[r].token \in twins
    OBVIOUS
  <2> DEFINE k == req[r].id
             t == req[r].token
  <2>1. DeleteSession(r)  BY EndsByItsWrite DEF At
  <2>2. Found(req[r], session, ids, twins, issued) /\ req[r].phase = "write"  BY Known DEF At
  <2>3. session \in [Rows -> Session \cup {NoSession}]  BY DEF Inv, TypeInv
  <2>4. k \in Rows  BY <2>2, AuthAssumption DEF Found, Inv, TypeInv, Rows
  <2>5. session'[k] = NoSession /\ \A j \in Rows \ {k} : session'[j] = session[j]
    BY <2>1, <2>3, <2>4, Deletes DEF Open
  <2>6. ASSUME t \in Held', t \notin twins  PROVE FALSE
    <3>1. PICK i \in Rows : session'[i] # NoSession /\ session'[i].token = t  BY <2>6 DEF Held, Open
    <3>2. session'[i] = session[i] /\ i # k  BY <2>5, <3>1
    <3> QED  BY <2>2, <2>6, <3>1, <3>2 DEF Found
  <2> QED  BY <2>5, <2>6
<1> QED  BY <1>1, Inductive, PTL DEF Spec, LogoutEndsTheToken

\* A session's token is replaced, or its row deleted, only by a request that presents that
\* token, or had found the session by a token replaced since, or deletes the account.
THEOREM OnlyItsToken == Spec => OnlyItsTokenMovesASession
<1> DEFINE A == \A i \in Open : session'[i] # session[i] =>
                  \E r \in Requests :
                    /\ req[r].phase = "write" /\ req'[r] = Idle
                    /\ \/ req[r].kind = "delete" /\ req[r].of = Owner(i)
                       \/ req[r].kind # "delete" /\ req[r].id = i
                          /\ (req[r].token = session[i].token \/ req[r].stale)
<1>1. Inv /\ [Next]_vars => [A]_vars
  <2> SUFFICES ASSUME Inv, Next, NEW i \in Open, session'[i] # session[i]
               PROVE  \E r \in Requests :
                        /\ req[r].phase = "write" /\ req'[r] = Idle
                        /\ \/ req[r].kind = "delete" /\ req[r].of = Owner(i)
                           \/ req[r].kind # "delete" /\ req[r].id = i
                              /\ (req[r].token = session[i].token \/ req[r].stale)
    OBVIOUS
  <2>1. PICK x \in Requests : req[x].phase = "write" /\ req'[x] = Idle /\ (Puts(x) \/ Removes(x) \/ Clears(x))
    BY Writers
  <2>2. session \in [Rows -> Session \cup {NoSession}] /\ i \in Rows /\ session[i] # NoSession
    BY DEF Inv, TypeInv, Open
  <2>3. ASSUME req[x].kind \in {"refresh", "logout", "expire"}, req[x].id = i
        PROVE  req[x].token = session[i].token \/ req[x].stale
    <3>1. Found(req[x], session, ids, twins, issued) /\ SessionFields(req[x])  BY <2>1, <2>3, Known
    <3> QED  BY <2>1, <2>2, <2>3, <3>1 DEF Found, SessionFields
  <2>4. CASE Puts(x)
    <3>1. req[x].kind = "refresh" /\ req[x].id = i  BY <2>2, <2>4 DEF Puts
    <3> QED  BY <2>1, <2>3, <3>1
  <2>5. CASE Removes(x)
    <3>1. req[x].kind \in {"logout", "expire"} /\ req[x].id = i  BY <2>2, <2>5 DEF Removes
    <3> QED  BY <2>1, <2>3, <3>1
  <2>6. CASE Clears(x)
    <3>1. req[x].kind = "delete" /\ req[x].of = Owner(i)  BY <2>2, <2>6 DEF Clears
    <3> QED  BY <2>1, <3>1
  <2> QED  BY <2>1, <2>4, <2>5, <2>6
<1> QED  BY <1>1, Inductive, PTL DEF Spec, OnlyItsTokenMovesASession
=============================================================================
