------------------------------- MODULE RunRecord -------------------------------
(***************************************************************************)
(* What a reader of the API takes a workflow run to be: a row that is      *)
(* created PENDING, becomes RUNNING when a worker starts it, and ends once *)
(* and for all.  A run may fail before it was ever RUNNING, because its    *)
(* version is unusable or the database refuses the first calls.  It may    *)
(* also never start (its job was not accepted) or never end (the failure   *)
(* could not be written): those are stuttering.                            *)
(*                                                                         *)
(* Overturn is no part of that life.  It is what a run can do besides when *)
(* the reply of the call that wrote its end is lost.                       *)
(***************************************************************************)
CONSTANT Runs
VARIABLE status

Init == status = [r \in Runs |-> "none"]

Move(r, from, to) ==
    /\ status[r] \in from
    /\ \E new \in to : status' = [status EXCEPT ![r] = new]

Create(r) == Move(r, {"none"}, {"PENDING"})
Start(r)  == Move(r, {"PENDING"}, {"RUNNING"})
Finish(r) == Move(r, {"RUNNING"}, {"SUCCESS", "FAILED", "CANCELLED"})
Reject(r) == Move(r, {"PENDING"}, {"FAILED"})

Overturn(r) == Move(r, {"SUCCESS"}, {"FAILED"})

Step(r) == Create(r) \/ Start(r) \/ Finish(r) \/ Reject(r)

Next == \E r \in Runs : Step(r)

Spec == Init /\ [][Next]_status
=============================================================================
