--------------------------- MODULE ApprovalQueue ---------------------------
(***************************************************************************)
(* What the approval queue of the consolidation promises, item by item:    *)
(* nothing happens to a memory on behalf of an item before a reviewer has  *)
(* approved it, what was rejected or expired stays so, and an item that    *)
(* counts as executed has taken effect.  Consolidation implements it.      *)
(***************************************************************************)
CONSTANT Items

VARIABLES status,   \* of each item
          effective \* the items whose latest execution has taken effect

vars == <<status, effective>>

Status == {"absent", "pending", "rejected", "expired", "approved", "executing",
           "failed", "executed"}

TypeOK ==
    /\ status \in [Items -> Status]
    /\ effective \subseteq Items

Init ==
    /\ status = [i \in Items |-> "absent"]
    /\ effective = {}

move(i, from, to) ==
    /\ status[i] \in from
    /\ status' = [status EXCEPT ![i] = to]

Submit(i) == move(i, {"absent"}, "pending") /\ UNCHANGED effective

Decide(i) ==
    /\ \E decision \in {"approved", "rejected", "expired"} : move(i, {"pending"}, decision)
    /\ UNCHANGED effective

\* A pending item starts at once when its reviewer approves it and asks for
\* its execution; a failed one is retried, an executed one may be asked for again.
Start(i) ==
    /\ move(i, {"pending", "approved", "failed", "executed"}, "executing")
    /\ effective' = effective \ {i}

TakeEffect(i) ==
    /\ status[i] = "executing"
    /\ effective' = effective \cup {i}
    /\ UNCHANGED status

Finish(i) ==
    /\ i \in effective
    /\ move(i, {"executing"}, "executed")
    /\ UNCHANGED effective

Fail(i) == move(i, {"executing"}, "failed") /\ UNCHANGED effective

Next == \E i \in Items :
    Submit(i) \/ Decide(i) \/ Start(i) \/ TakeEffect(i) \/ Finish(i) \/ Fail(i)

Spec == Init /\ [][Next]_vars

----------------------------------------------------------------------------
\* No item takes effect that nobody approved, and none counts as executed
\* that did not (ConsolidationApprovalService.review, execute, retry).
OnlyApprovedTakesEffect ==
    \A i \in Items :
        /\ i \in effective => status[i] \in {"executing", "failed", "executed"}
        /\ status[i] = "executed" => i \in effective

\* Rejected and expired are final.
DecisionsAreFinal ==
    [][\A i \in Items : status[i] \in {"rejected", "expired"} => status'[i] = status[i]]_vars
=============================================================================
