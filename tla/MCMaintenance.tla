-------------------------- MODULE MCMaintenance ---------------------------
(* Two rows, one that can be deleted; a day between the notice and the     *)
(* deadline, one extension of a day.  Liveness is checked: no symmetry     *)
(* and no constraint.                                                      *)
EXTENDS Maintenance, TLC

CONSTANTS r1, r2

MCKindsOf == (r1 :> {"plain"}) @@ (r2 :> {"explicit", "held"})
=============================================================================
