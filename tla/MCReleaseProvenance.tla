------------------------- MODULE MCReleaseProvenance -------------------------
(* Instances of ReleaseProvenance for TLC.  The distribution is one skill    *)
(* with a reference file; locks name the old tree, the new one, the new one  *)
(* under another origin, and one with a version the tree does not have.      *)
EXTENDS ReleaseProvenance, TLC

CONSTANTS skill, ref, old, new, v1, v2, commit1, commit2, origin1, origin2, p1, p2, r1

MCVersionOf == (old :> v1) @@ (new :> v2)

Lock(commit, x, v, origin) ==
  [commit |-> commit, manifest |-> [f \in {skill, ref} |-> x],
   selected |-> [f \in {skill} |-> v], origin |-> origin]

MCLocks == {Lock(commit1, old, v1, origin1), Lock(commit2, new, v2, origin1),
            Lock(commit2, new, v2, origin2), Lock(commit2, new, v1, origin1)}

MCLockAlone == {Lock(commit1, old, v1, origin1)}

MCRepositoryOf == [p \in Products |-> r1]

Symmetry ==
  Permutations(Workers) \cup Permutations(Products) \cup Permutations(Texts) \cup Permutations(Changelogs)
=============================================================================
