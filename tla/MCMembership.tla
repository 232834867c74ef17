------------------------------ MODULE MCMembership ------------------------------
(* Membership for TLC: users and requests are interchangeable. *)
EXTENDS Membership, TLC

Symmetric == Permutations(Users) \cup Permutations(Requests)
=============================================================================
