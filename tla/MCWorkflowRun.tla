----------------------------- MODULE MCWorkflowRun -----------------------------
(* WorkflowRun for TLC: the symmetry of the server processes. *)
EXTENDS WorkflowRun, TLC

ServerSymmetry == Permutations(Servers)
=============================================================================
