---------------------------- MODULE VersionedRow ----------------------------
(***************************************************************************)
(* What the memories table promises of one row, whoever writes it: it is   *)
(* created once, every write is one atomic replacement that puts what it   *)
(* replaces under the versions and into the index what is stored, it may   *)
(* be archived for good, and a deletion ends it with all that belongs to   *)
(* it.  It knows nothing of calls that wait with a copy of the row.        *)
(* MemoryStore implements it, row by row.                                  *)
(***************************************************************************)
CONSTANT Texts

VARIABLES status,   \* "free", "active", "archived" or "deleted"
          contents, \* the text that is stored: one, or none
          past,     \* the versions
          index     \* the texts under which the row is found

vars == <<status, contents, past, index>>

Init ==
    /\ status = "free"
    /\ contents = {} /\ past = {} /\ index = {}

exists == status \in {"active", "archived"}

Create == \E text \in Texts :
    /\ status = "free"
    /\ status' = "active"
    /\ contents' = {text} /\ past' = {} /\ index' = {text}

Write == \E text \in Texts :
    /\ exists
    /\ contents' = {text} /\ index' = {text}
    /\ past' = past \cup (contents \ {text})
    /\ UNCHANGED status

Archive ==
    /\ status = "active"
    /\ status' = "archived"
    /\ UNCHANGED <<contents, past, index>>

Delete ==
    /\ exists
    /\ status' = "deleted"
    /\ contents' = {} /\ past' = {} /\ index' = {}

Next == Create \/ Write \/ Archive \/ Delete

Spec == Init /\ [][Next]_vars

----------------------------------------------------------------------------
keepsTexts == status' # "deleted" => contents \cup past \subseteq contents' \cup past'

\* No text that was ever stored goes before the row does, however calls that
\* wait with old copies overwrite one another (Repository.updateMemory).
NothingIsForgotten == [][keepsTexts]_vars
=============================================================================
