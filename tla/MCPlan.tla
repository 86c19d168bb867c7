-------------------------------- MODULE MCPlan --------------------------------
(***************************************************************************)
(* Instances of Plan for TLC.                                               *)
(***************************************************************************)
EXTENDS Plan, TLC

CONSTANTS i1, i2, i3, r1, r2

ThreeIssues == {i1, i2, i3}
TwoRepositories == {r1, r2}
OneRepositoryOnly == {r1}

\* Issues and repositories are interchangeable.
Symmetry == Permutations(ThreeIssues) \cup Permutations(TwoRepositories)
=============================================================================
