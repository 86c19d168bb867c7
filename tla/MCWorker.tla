------------------------------ MODULE MCWorker ------------------------------
(***************************************************************************)
(* Instances of Worker for TLC.                                             *)
(***************************************************************************)
EXTENDS Worker

CONSTANTS p1, p2, a, b, c

\* An epic and an issue in one project, an issue in another.
TwoProjects == {p1, p2}
ThreeSubjects == {a, b, c}
OneEpic == {a}
ByProject == [s \in ThreeSubjects |-> IF s = c THEN p2 ELSE p1]
OnceEach == [s \in ThreeSubjects |-> 1]
=============================================================================
