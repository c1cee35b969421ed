------------------------------ MODULE Delivery ------------------------------
(***************************************************************************)
(* What the offline client promises of one call that changes something:    *)
(* the server runs it once or the caller gets an error, or else it is      *)
(* queued, and then it leaves the queue in the step in which the server    *)
(* has run it, at least once and more often only after an attempt that     *)
(* failed.  It knows nothing of directories, syncs and other calls.        *)
(* OfflineSync implements it, call by call, with one process.              *)
(***************************************************************************)
EXTENDS Naturals

VARIABLES place,     \* "new", "asked", "answered", "queued" or "over"
          promised,  \* the caller was told that the call is queued
          ran,       \* how often the server has run it, 2 for more
          failed     \* an attempt failed that the server may have run

vars == <<place, promised, ran, failed>>

Init == place = "new" /\ ~promised /\ ran = 0 /\ ~failed

runs == ran' = IF ran = 0 THEN 1 ELSE 2

Ask ==
    /\ place = "new" /\ place' = "asked"
    /\ UNCHANGED <<promised, ran, failed>>

\* A store or an update waits for the refresh of the cache, a delete does not.
Answer ==
    /\ place = "asked" /\ place' \in {"answered", "over"}
    /\ runs
    /\ UNCHANGED <<promised, failed>>

\* The caller gets an error, or an answer although the refresh failed, or the
\* process ends.
GiveUp ==
    /\ place \in {"asked", "answered"} /\ place' = "over"
    /\ (place = "asked" /\ runs) \/ UNCHANGED ran
    /\ UNCHANGED <<promised, failed>>

\* The network fails before or after the server has run the call.
Queue ==
    /\ place \in {"asked", "answered"} /\ place' = "queued"
    /\ promised' = TRUE
    /\ \/ place = "asked" /\ UNCHANGED <<ran, failed>>
       \/ place = "asked" /\ runs /\ failed' = TRUE
       \/ place = "answered" /\ failed' = TRUE /\ UNCHANGED ran

Deliver ==
    /\ place = "queued" /\ place' = "over"
    /\ runs
    /\ UNCHANGED <<promised, failed>>

AttemptFails ==
    /\ place = "queued"
    /\ runs /\ failed' = TRUE
    /\ UNCHANGED <<place, promised>>

Next == Ask \/ Answer \/ GiveUp \/ Queue \/ Deliver \/ AttemptFails

Spec == Init /\ [][Next]_vars

----------------------------------------------------------------------------
\* A promise holds until the server has run the call (SyncManager.syncPending).
PromiseKept == promised => place = "queued" \/ ran > 0

\* A call that was never queued runs at most once, a queued one twice only after an
\* attempt that failed.
NoNeedlessRun == ran = 2 => promised /\ failed

\* What makes both inductive: where a call is tells how often it has run.
Sound ==
    /\ ran \in 0..2 /\ PromiseKept /\ NoNeedlessRun
    /\ place \in {"new", "asked"} => ran = 0 /\ ~promised
    /\ place = "answered" => ran = 1 /\ ~promised
    /\ place = "queued" => promised /\ (ran > 0 => failed)
=============================================================================
