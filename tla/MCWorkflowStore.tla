-------------------------- MODULE MCWorkflowStore --------------------------
(* Instances of WorkflowStore for TLC.                                      *)
EXTENDS WorkflowStore, TLC

\* Runs are drawn as fresh uuids and compared only for equality.
RunSymmetry == Permutations(Runs)
=============================================================================
