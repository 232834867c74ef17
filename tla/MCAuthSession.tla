------------------------------- MODULE MCAuthSession -------------------------------
(* AuthSession for TLC: users and requests are interchangeable. *)
EXTENDS AuthSession, TLC

Symmetric == Permutations(Users) \cup Permutations(Requests)
=============================================================================
