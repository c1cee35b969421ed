--------------------------- MODULE MCOfflineSync ---------------------------
(* Instances for TLC: one client process, and two that share the directory.  *)
EXTENDS OfflineSync

CONSTANTS p1, p2, m1

OneProc == {p1}
TwoProcs == {p1, p2}
=============================================================================
