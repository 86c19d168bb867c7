----------------------------- MODULE MCSandboxes -----------------------------
(***************************************************************************)
(* Instances of Sandboxes for TLC.                                          *)
(***************************************************************************)
EXTENDS Sandboxes

CONSTANTS p1, s1, s2

\* Two subjects of one project, which share its machine.
OneProject == {p1}
TwoSandboxes == {s1, s2}
SameProject == [s \in TwoSandboxes |-> p1]

OnceEach == [s \in TwoSandboxes |-> 1]
TwiceTheFirst == [s \in TwoSandboxes |-> IF s = s1 THEN 2 ELSE 1]
=============================================================================
