------------------------------ MODULE MCDaemon ------------------------------
(***************************************************************************)
(* Instances of Daemon for TLC.                                             *)
(***************************************************************************)
EXTENDS Daemon

CONSTANTS d1, d2, g1

TwoLaunches == {d1, d2}
OneGoMerge == {g1}
NoGoMerge == {}
Anywhere == {"nowhere", "legacy", "root"}
Nowhere == {"nowhere"}
=============================================================================
