------------------------------- MODULE MCStore -------------------------------
(***************************************************************************)
(* An instance of Store for TLC.                                            *)
(***************************************************************************)
EXTENDS Store

CONSTANTS e1, t1, t2, r1, x, y

OneEpic == {e1}
TwoCallers == {t1, t2}
OneRepository == {r1}
TwoRoles == {x, y}
EveryKind == {"create", "change", "list", "role", "setup", "link"}
=============================================================================
