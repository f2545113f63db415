------------------------- MODULE MCReleaseWorkflow -------------------------
(* Instances of ReleaseWorkflow for TLC.                                    *)
EXTENDS ReleaseWorkflow, TLC

\* Runs are fresh uuids (and name the requests they render); workers are alike.
RunAndWorkerSymmetry == Permutations(Runs) \cup Permutations(Workers)

\* Nothing orders releases or contents of a release either.
ReleaseSymmetry ==
  RunAndWorkerSymmetry \cup Permutations(Keys) \cup Permutations(Inputs)
=============================================================================
