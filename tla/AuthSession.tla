-------------------------------- MODULE AuthSession --------------------------------
(***************************************************************************)
(* Accounts, their sessions and the tokens that name them: register, login, *)
(* refresh and logout of AuthService, JwtStrategy, and the soft delete of   *)
(* UserService.                                                             *)
(*                                                                         *)
(* A session row is found by the refresh token it holds.  A token is a JWT  *)
(* without an id of its own: it is determined by its user and the second in *)
(* which it is signed, so signing twice in a second gives the same token.   *)
(* Each awaited database call (and bcrypt, which is awaited too) ends an    *)
(* action, and time may pass there.                                         *)
(*                                                                         *)
(* Left out: names and profiles, and requests that their first look refuses *)
(* (a wrong password, an unknown or expired token), which change nothing.   *)
(***************************************************************************)
EXTENDS Naturals, FiniteSets

CONSTANTS
    Users,       \* e-mail addresses, each of one account at most
    Requests,    \* the requests that can be in flight at once
    MaxSessions, \* bound: session rows ever inserted
    MaxTime,     \* bound: the clock stops here
    AccessTtl,   \* JWT_EXPIRATION, in seconds
    RefreshTtl,  \* JWT_REFRESH_EXPIRATION, as the signing library reads it
    SessionTtl,  \* JWT_REFRESH_EXPIRATION, as calculateExpiration reads it
    NoSession    \* the row is deleted or was never inserted

ASSUME AuthAssumption ==
    /\ {MaxSessions, MaxTime, AccessTtl, RefreshTtl, SessionTtl} \subseteq Nat
    /\ NoSession \notin [token : Users \X (0..MaxTime), late : BOOLEAN]

VARIABLES
    now,      \* the clock, in seconds
    user,     \* user[u]: "none", "active" or "deleted" (deletedAt is set)
    session,  \* session[i]: the row with id i
    ids,      \* the ids in use or used before are 1..ids
    issued,   \* the tokens that login and refresh have returned
    req,      \* req[r]: where request r stands and what it has read
    twins     \* history: the tokens signed more than once

vars == <<now, user, session, ids, issued, req, twins>>

Times  == 0..MaxTime
Rows   == 1..MaxSessions
Tokens == Users \X Times     \* whose, and signed when

\* late is history: the account was deleted when the row was inserted.
Session == [token : Tokens, late : BOOLEAN]

Open      == {i \in Rows : session[i] # NoSession}
Owner(i)  == session[i].token[1]
Held      == {session[i].token : i \in Open}

Idle == [phase |-> "idle"]

\* token: the one presented; fresh: the one signed; id: the session found; stale
\* (history): that row has changed since.
Request ==
    {Idle}
    \cup [phase : {"create", "sign", "write"}, kind : {"register", "login", "delete"}, of : Users, fresh : Times]
    \cup [phase : {"account"}]
    \cup [phase : {"find", "sign", "write"}, kind : {"refresh", "logout", "expire"}, token : Tokens,
          id : 0..MaxSessions, fresh : Times, stale : BOOLEAN]

Init ==
    /\ now = 0 /\ ids = 0 /\ issued = {} /\ twins = {}
    /\ user \in [Users -> {"none", "active"}]
    /\ session = [i \in Rows |-> NoSession]
    /\ req = [r \in Requests |-> Idle]

-----------------------------------------------------------------------------
At(r, phase, kind) == req[r].phase = phase /\ req[r].kind = kind

UsesSession(q) == q.phase \in {"sign", "write"} /\ q.kind \in {"refresh", "logout", "expire"}

\* Request r ends with these session rows; who has read a row that changes is stale.
Commit(r, rows) ==
    /\ session' = rows
    /\ req' = [x \in Requests |->
                 IF x = r THEN Idle
                 ELSE IF UsesSession(req[x]) /\ rows[req[x].id] # session[req[x].id]
                      THEN [req[x] EXCEPT !.stale = TRUE]
                 ELSE req[x]]

Advance(r, q) ==
    /\ req' = [req EXCEPT ![r] = q]
    /\ UNCHANGED <<now, user, session, ids, issued>>

Refuse(r) == Advance(r, Idle) /\ UNCHANGED twins

\* Request r signs the token of u for this second; somebody may have signed it before.
Sign(r, u, q) ==
    /\ LET token == <<u, now>>
           signed == issued \cup
             {<<req[x].of, req[x].fresh>> : x \in {y \in Requests : At(y, "write", "login")}} \cup
             {<<req[x].token[1], req[x].fresh>> : x \in {y \in Requests : At(y, "write", "refresh")}}
       IN twins' = IF token \in signed THEN twins \cup {token} ELSE twins
    /\ Advance(r, q)

Tick ==
    /\ now < MaxTime
    /\ now' = now + 1
    /\ UNCHANGED <<user, session, ids, issued, req, twins>>

-----------------------------------------------------------------------------
(* register and login. *)

\* Nobody has the address, no deleted account either: the password is hashed ...
Register(r, u) ==
    /\ req[r] = Idle /\ user[u] = "none"
    /\ Advance(r, [phase |-> "create", kind |-> "register", of |-> u, fresh |-> 0])
    /\ UNCHANGED twins

\* ... and the unique column rejects the insert if the address was taken meanwhile.
CreateUser(r) ==
    /\ At(r, "create", "register")
    /\ \/ /\ user[req[r].of] = "none"
          /\ user' = [user EXCEPT ![req[r].of] = "active"]
          /\ req' = [req EXCEPT ![r] = Idle]
          /\ UNCHANGED <<now, session, ids, issued, twins>>
       \/ user[req[r].of] # "none" /\ Refuse(r)

\* login finds the account; the password is compared ...
FindUser(r, u) ==
    /\ req[r] = Idle /\ user[u] = "active"
    /\ Advance(r, [phase |-> "sign", kind |-> "login", of |-> u, fresh |-> 0])
    /\ UNCHANGED twins

\* ... then both tokens are signed ...
SignLogin(r) ==
    /\ At(r, "sign", "login")
    /\ Sign(r, req[r].of, [req[r] EXCEPT !.phase = "write", !.fresh = now])

\* ... and the row inserted: the account's row is there, deleted or not.
InsertSession(r) ==
    /\ At(r, "write", "login") /\ ids < MaxSessions
    /\ LET token == <<req[r].of, req[r].fresh>>
       IN /\ Commit(r, [session EXCEPT ![ids + 1] = [token |-> token, late |-> user[req[r].of] = "deleted"]])
          /\ issued' = issued \cup {token}
    /\ ids' = ids + 1
    /\ UNCHANGED <<now, user, twins>>

-----------------------------------------------------------------------------
(* refresh and logout. *)

\* The signature and the expiration of a refresh token are checked first.
VerifyToken(r, t) ==
    /\ req[r] = Idle /\ t \in issued
    /\ now < t[2] + RefreshTtl
    /\ Advance(r, [phase |-> "find", kind |-> "refresh", token |-> t, id |-> 0, fresh |-> 0, stale |-> FALSE])
    /\ UNCHANGED twins

\* Then some session that holds it is looked for.
FindSession(r) ==
    /\ At(r, "find", "refresh")
    /\ \/ \E i \in Open : /\ session[i].token = req[r].token
                          /\ Advance(r, [req[r] EXCEPT !.phase = "sign", !.id = i])
                          /\ UNCHANGED twins
       \/ req[r].token \notin Held /\ Refuse(r)

\* An expired session is to be deleted (both hold in the second of the expiration) ...
FindExpired(r) ==
    /\ At(r, "sign", "refresh")
    /\ now >= req[r].token[2] + SessionTtl
    /\ Advance(r, [req[r] EXCEPT !.phase = "write", !.kind = "expire"])
    /\ UNCHANGED twins

\* ... another gets new tokens.  The account is not looked at.
SignRefresh(r) ==
    /\ At(r, "sign", "refresh")
    /\ now <= req[r].token[2] + SessionTtl
    /\ Sign(r, req[r].token[1], [req[r] EXCEPT !.phase = "write", !.fresh = now])

\* Mutant: the row is inserted again if it is gone.
UpdateSession_Upsert(r) ==
    /\ At(r, "write", "refresh")
    /\ LET token == <<req[r].token[1], req[r].fresh>>
       IN /\ Commit(r, [session EXCEPT ![req[r].id] = [token |-> token, late |-> FALSE]])
          /\ issued' = issued \cup {token}
          /\ UNCHANGED <<now, user, ids, twins>>

\* Mutant: only the access token and the expiration are updated.
UpdateSession_KeepsToken(r) ==
    /\ At(r, "write", "refresh")
    /\ \/ /\ req[r].id \in Open
          /\ Commit(r, session)
          /\ issued' = issued \cup {<<req[r].token[1], req[r].fresh>>}
          /\ UNCHANGED <<now, user, ids, twins>>
       \/ req[r].id \notin Open /\ Refuse(r)

\* Mutant: the answer repeats the token presented.
UpdateSession_AnswersOld(r) ==
    /\ At(r, "write", "refresh")
    /\ \/ /\ req[r].id \in Open
          /\ Commit(r, [session EXCEPT ![req[r].id].token = <<req[r].token[1], req[r].fresh>>])
          /\ UNCHANGED <<now, user, ids, issued, twins>>
       \/ req[r].id \notin Open /\ Refuse(r)

\* Mutant: the user's sessions are all updated.
UpdateSession_AllOfUser(r) ==
    /\ At(r, "write", "refresh")
    /\ LET token == <<req[r].token[1], req[r].fresh>>
       IN \/ /\ req[r].id \in Open
             /\ Commit(r, [i \in Rows |-> IF i \in Open /\ Owner(i) = token[1]
                                          THEN [session[i] EXCEPT !.token = token] ELSE session[i]])
             /\ issued' = issued \cup {token}
             /\ UNCHANGED <<now, user, ids, twins>>
          \/ req[r].id \notin Open /\ Refuse(r)

\* The row found gets the new token, whatever it holds by now; if it is gone the update
\* fails and the tokens are not returned.
UpdateSession(r) ==
    /\ At(r, "write", "refresh")
    /\ LET token == <<req[r].token[1], req[r].fresh>>
       IN \/ /\ req[r].id \in Open
             /\ Commit(r, [session EXCEPT ![req[r].id].token = token])
             /\ issued' = issued \cup {token}
             /\ UNCHANGED <<now, user, ids, twins>>
          \/ req[r].id \notin Open /\ Refuse(r)

\* logout with the token t: without a session that holds it there is nothing to do.
Logout(r, t) ==
    /\ req[r] = Idle /\ t \in issued
    /\ \E i \in Open :
         /\ session[i].token = t
         /\ Advance(r, [phase |-> "write", kind |-> "logout", token |-> t, id |-> i, fresh |-> 0, stale |-> FALSE])
    /\ UNCHANGED twins

\* Mutant: the session is deleted only if it still holds the token.
DeleteSession_IfStill(r) ==
    /\ At(r, "write", "logout") \/ At(r, "write", "expire")
    /\ \/ /\ req[r].id \in Open
          /\ Commit(r, IF session[req[r].id].token = req[r].token
                       THEN [session EXCEPT ![req[r].id] = NoSession] ELSE session)
          /\ UNCHANGED <<now, user, ids, issued, twins>>
       \/ req[r].id \notin Open /\ Refuse(r)

\* The row found is deleted, by logout or because it has expired, whatever token it holds
\* by now; the delete fails if it is gone.
DeleteSession(r) ==
    /\ At(r, "write", "logout") \/ At(r, "write", "expire")
    /\ \/ /\ req[r].id \in Open
          /\ Commit(r, [session EXCEPT ![req[r].id] = NoSession])
          /\ UNCHANGED <<now, user, ids, issued, twins>>
       \/ req[r].id \notin Open /\ Refuse(r)

-----------------------------------------------------------------------------
(* Deletion of an account. *)

\* JwtStrategy: the access token has not expired and its user is active.
Authenticate(r, t) ==
    /\ req[r] = Idle /\ t \in issued
    /\ now < t[2] + AccessTtl /\ user[t[1]] = "active"
    /\ Advance(r, [phase |-> "account"])
    /\ UNCHANGED twins

\* softDeleteUser finds the account that the route names ...
FindAccount(r, u) ==
    /\ req[r].phase = "account"
    /\ \/ /\ user[u] = "active"
          /\ Advance(r, [phase |-> "write", kind |-> "delete", of |-> u, fresh |-> 0])
          /\ UNCHANGED twins
       \/ user[u] # "active" /\ Refuse(r)

\* ... and in one transaction marks it and deletes its sessions.
SoftDeleteUser(r) ==
    /\ At(r, "write", "delete")
    /\ user' = [user EXCEPT ![req[r].of] = "deleted"]
    /\ Commit(r, [i \in Rows |-> IF i \in Open /\ Owner(i) = req[r].of THEN NoSession ELSE session[i]])
    /\ UNCHANGED <<now, ids, issued, twins>>

-----------------------------------------------------------------------------
Step(r) ==
    \/ \E u \in Users : Register(r, u) \/ FindUser(r, u) \/ FindAccount(r, u)
    \/ \E t \in Tokens : VerifyToken(r, t) \/ Logout(r, t) \/ Authenticate(r, t)
    \/ CreateUser(r) \/ SignLogin(r) \/ InsertSession(r)
    \/ FindSession(r) \/ FindExpired(r) \/ SignRefresh(r) \/ UpdateSession(r)
    \/ DeleteSession(r) \/ SoftDeleteUser(r)

Next == Tick \/ \E r \in Requests : Step(r)

Spec == Init /\ [][Next]_vars

-----------------------------------------------------------------------------
(* Properties. *)

\* Types of the variables; rows have ids up to the counter, and hold tokens that
\* a client has been given.
TypeOK ==
    /\ now \in Times /\ ids \in 0..MaxSessions
    /\ user \in [Users -> {"none", "active", "deleted"}]
    /\ session \in [Rows -> Session \cup {NoSession}] /\ Open \subseteq 1..ids
    /\ issued \subseteq Tokens /\ Held \subseteq issued /\ twins \subseteq Tokens
    /\ req \in [Requests -> Request]

\* Tokens are for one use.  When a refresh that signed in a later second ends, no session
\* holds the token it presented; and a token that no session holds (it was rotated,
\* logged out, or its account deleted) is never held again, whatever writes come late.
\* The exception are tokens signed twice in one second.
UsedTokenIsDead ==
    [][/\ \A r \in Requests :
            At(r, "write", "refresh") /\ req'[r] = Idle /\ req[r].fresh # req[r].token[2]
              => req[r].token \notin Held' \ twins
       /\ \A t \in issued \ Held : t \notin Held' \ twins]_vars

\* When a logout with a token has been answered, no session holds that token and the
\* session it was looked up for is gone, whatever refreshes overlapped; unless the token
\* was signed twice, so that a second session held it.
LogoutEndsTheToken ==
    [][\A r \in Requests : At(r, "write", "logout") /\ req'[r] = Idle =>
         /\ session'[req[r].id] = NoSession
         /\ req[r].token \in Held' => req[r].token \in twins]_vars

\* A session's token is replaced, or its row deleted, only by a request that presents
\* that token or by the deletion of its account, unless the request had found the session
\* by a token that another has replaced since.
OnlyItsTokenMovesASession ==
    [][\A i \in Open : session'[i] # session[i] =>
         \E r \in Requests :
           /\ req[r].phase = "write" /\ req'[r] = Idle
           /\ \/ req[r].kind = "delete" /\ req[r].of = Owner(i)
              \/ req[r].kind # "delete" /\ req[r].id = i
                 /\ (req[r].token = session[i].token \/ req[r].stale)]_vars

\* The sessions of a deleted account are those that a login, having found the account
\* before, inserted after the deletion.
DeletedAccountHasNoSession ==
    \A i \in Open : user[Owner(i)] = "deleted" => session[i].late
=============================================================================
