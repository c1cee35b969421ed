-------------------------- MODULE CandidateRecord --------------------------
(***************************************************************************)
(* What the candidate and the memory tables promise of one id, whichever   *)
(* process works on it: it is a candidate or a memory and moves from one   *)
(* to the other in single steps, with the audit entry that says so; once   *)
(* its memory has been deleted nothing happens to it any more.  It knows   *)
(* nothing of processes, of what they read before, and of rules.           *)
(* CandidateIntake implements it, id by id.                                *)
(***************************************************************************)
VARIABLES stage,  \* "unused", a state of a candidate, "promoted" or "deleted"
          entry   \* what the last audit entry says that is not a keep, or "none"

vars == <<stage, entry>>

States == {"pending", "held", "ready"}

Init == stage \in {"unused", "promoted"} /\ entry = "none"

\* A candidate is made of an event, or by hand.
Create == stage = "unused" /\ stage' = "pending" /\ UNCHANGED entry

Record(to) == stage' = to /\ entry' = to

\* An evaluation that does not promote.
Settle == stage \in States /\ \E to \in States \ {"pending"} : Record(to)

Promote == stage \in States /\ Record("promoted")

Demote == stage = "promoted" /\ Record("held")

Delete == stage = "promoted" /\ stage' = "deleted" /\ UNCHANGED entry

Next == Create \/ Settle \/ Promote \/ Demote \/ Delete

Spec == Init /\ [][Next]_vars

----------------------------------------------------------------------------
\* An entry tells where the id is until it is deleted, and a deletion is only of
\* what was promoted or never audited.
EntryIsTrue ==
    /\ stage = "unused" => entry = "none"
    /\ stage = "deleted" => entry \in {"none", "promoted"}
    /\ stage \in States \cup {"promoted"} => entry \in {"none", stage}
=============================================================================
