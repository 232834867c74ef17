-------------------------------- MODULE MCWorkflows --------------------------------
(* Workflows for TLC: requests are interchangeable. *)
EXTENDS Workflows, TLC

Symmetric == Permutations(Requests)
=============================================================================
