---------------------------- MODULE Maintenance ----------------------------
(***************************************************************************)
(* The daily maintenance of the scheduler process: the graceful deletion   *)
(* of archived rows, the warnings it queues, the digest that takes them to *)
(* the alert file, and the monitor of Ollama (src/scheduler/index.ts and   *)
(* tasks.ts, src/core/lifecycle.ts, src/notify/, the export command in     *)
(* src/cli/commands/import-export.ts).                                     *)
(*                                                                         *)
(* The job is one asynchronous function: a step ends where it awaits, or   *)
(* where it commits a statement that another process (a host's server, the *)
(* command line) can be ordered with.  Warnings and the monitor live in    *)
(* memory and end with the process.  A row is a slot that an archived      *)
(* memory occupies: an explicit one is never deleted, one that is held by  *)
(* a fact claim cannot be.  Its age counts the days since updated_at and   *)
(* stops at MaxAge, where every extension is used up.  Nothing bounds how  *)
(* often a step fails or the process ends.  Of the alert file              *)
(* only the titles in it count: the notice, "other" for what the monitor   *)
(* or the reconciliation says, and "error".  Telegram is left out, its     *)
(* answer changes nothing.                                                 *)
(***************************************************************************)
EXTENDS Naturals

CONSTANTS Rows,
          NoticeAfter, DeleteAfter,   \* days since updated_at
          Extension, MaxExtensions,   \* days a deadline moves by, and how often
          KindsOf,                    \* what kinds of memory each row may hold
          None

Kinds == {"plain", "explicit", "held"}
MaxAge == DeleteAfter + Extension * MaxExtensions

ASSUME MaintenanceAssumption ==
    /\ {NoticeAfter, DeleteAfter, Extension, MaxExtensions} \subseteq Nat
    /\ NoticeAfter <= DeleteAfter
    /\ KindsOf \in [Rows -> SUBSET Kinds]

VARIABLES rows,         \* the archived rows
          extensions,   \* metadata: lifecycle.pending_deletions.extensions
          notified,     \* metadata: whether notified_at is set
          acknowledged, \* an archived export is not older than notified_at
          buffer,       \* warnings that wait for the digest
          alert,        \* titles in active-alert.md; {} is no file
          job,          \* the daily run, and its locals
          ranToday,     \* lastDailyRun is of this day
          told          \* history: a run ended with the notice in the alert file

metadata == <<extensions, notified, acknowledged>>
vars == <<rows, metadata, buffer, alert, job, ranToday, told>>

Row == [kind: Kinds, age: 0..MaxAge]
Listed == [id: Rows, kind: Kinds, age: 0..MaxAge]
Titles == {"pending", "other"}
Counts == [Rows -> 0..MaxExtensions]
noCounts == [r \in Rows |-> 0]

Idle == [pc |-> "idle", errors |-> FALSE, preserve |-> FALSE, exported |-> FALSE,
         deleted |-> FALSE, todo |-> {}, counts |-> noCounts, digest |-> {},
         flushed |-> FALSE]

TypeOK ==
    /\ rows \in [Rows -> Row \cup {None}]
    /\ extensions \in Counts
    /\ {notified, acknowledged, ranToday, told} \subseteq BOOLEAN
    /\ buffer \subseteq Titles
    /\ alert \subseteq Titles \cup {"error"}
    /\ job \in [pc: {"idle", "lifecycle", "clear", "notify", "list", "delete", "forget",
                     "later", "flush", "send", "end"},
                errors: BOOLEAN, preserve: BOOLEAN, exported: BOOLEAN, deleted: BOOLEAN,
                todo: SUBSET Listed, counts: Counts, digest: SUBSET Titles,
                flushed: BOOLEAN]

Init ==
    /\ rows = [r \in Rows |-> None] /\ extensions = noCounts
    /\ notified = FALSE /\ acknowledged = FALSE
    /\ buffer = {} /\ alert = {} /\ job = Idle
    /\ ranToday = FALSE /\ told = FALSE

----------------------------------------------------------------------------
archived == {r \in Rows : rows[r] # None}

\* The run goes on at pc, with the locals of the step that ends forgotten; what
\* a step throws is recorded and the run goes on too.
at(pc) == job.pc = pc
goto(pc) == job' = [Idle EXCEPT !.pc = pc, !.errors = job.errors, !.preserve = job.preserve]
failed(pc) == job' = [Idle EXCEPT !.pc = pc, !.errors = TRUE, !.preserve = job.preserve]

\* The scheduler's tick in the hour of the run, and the steps that come first:
\* backup, compaction, embeddings, summaries, snapshot.
Begin ==
    /\ at("idle") /\ ~ranToday
    /\ ranToday' = TRUE
    /\ goto("lifecycle") \/ failed("lifecycle")
    /\ UNCHANGED <<rows, metadata, buffer, alert, told>>

----------------------------------------------------------------------------
(* Graceful deletion                                                       *)

pending == {r \in archived : rows[r].kind # "explicit" /\ rows[r].age >= NoticeAfter}

\* LifecycleManager.checkPendingDeletions and what dailyMaintenance makes of it.
CheckPendingDeletions ==
    /\ at("lifecycle")
    /\ \/ pending = {} /\ goto("clear") /\ notified' = FALSE /\ acknowledged' = FALSE
       \/ pending # {} /\ goto(IF acknowledged THEN "list" ELSE "notify")
                        /\ UNCHANGED <<notified, acknowledged>>
    /\ UNCHANGED <<rows, extensions, buffer, alert, ranToday, told>>

\* clearPendingDeletionTracking has no transaction: the counts go in a commit of
\* their own, after notified_at (without it an export says nothing).
ClearExtensions ==
    /\ at("clear")
    /\ goto("list")
    /\ extensions' = noCounts
    /\ UNCHANGED <<rows, notified, acknowledged, buffer, alert, ranToday, told>>

\* Mutant: only the first notice is queued.
noticed_Once == IF notified THEN buffer ELSE buffer \cup {"pending"}

noticed == buffer \cup {"pending"}

\* The notice is queued every day; notified_at is that of the first.
NotifyPendingDeletions ==
    /\ at("notify")
    /\ buffer' = noticed
    /\ job' = [job EXCEPT !.pc = "list", !.preserve = TRUE]
    /\ IF notified THEN UNCHANGED <<notified, acknowledged, told>>
                   ELSE notified' = TRUE /\ acknowledged' = FALSE /\ told' = FALSE
    /\ UNCHANGED <<rows, extensions, alert, ranToday>>

\* executeDeletion reads the counts, the acknowledgement and the rows.
ListDeletions ==
    /\ at("list")
    /\ job' = [job EXCEPT !.pc = "delete", !.counts = extensions, !.exported = acknowledged,
                          !.todo = {[id |-> r, kind |-> rows[r].kind, age |-> rows[r].age] :
                                    r \in {q \in archived : rows[q].age >= DeleteAfter}}]
    /\ UNCHANGED <<rows, metadata, buffer, alert, ranToday, told>>

\* Rows are taken by age, the oldest first.
isNext(m) == m \in job.todo /\ \A n \in job.todo : n.age <= m.age
isOverdue(m) ==
    m.kind # "explicit" /\ m.age >= DeleteAfter + Extension * job.counts[m.id]

\* Mutant: an explicit row ends the loop.
remaining_Explicit(m) == IF m.kind = "explicit" THEN {} ELSE job.todo \ {m}

remaining(m) == job.todo \ {m}

\* Mutant: a row is extended for ever.
extended_Always(counts, r) == [counts EXCEPT ![r] = @ + 1]

extended(counts, r) ==
    IF counts[r] < MaxExtensions THEN [counts EXCEPT ![r] = @ + 1] ELSE counts

KeepRow(m) ==
    /\ at("delete") /\ isNext(m)
    /\ ~(isOverdue(m) /\ job.exported)
    /\ job' = [job EXCEPT !.todo = remaining(m),
                          !.counts = IF isOverdue(m) THEN extended(@, m.id) ELSE @]
    /\ UNCHANGED <<rows, metadata, buffer, alert, ranToday, told>>

\* The row goes whatever has become of it since the rows were read, unless a
\* claim refers to it: then the statement throws and ends the whole step.
DeleteRow(m) ==
    /\ at("delete") /\ isNext(m)
    /\ isOverdue(m) /\ job.exported
    /\ IF m.id \in archived /\ rows[m.id].kind = "held"
       THEN failed("later") /\ UNCHANGED rows
       ELSE /\ rows' = [rows EXCEPT ![m.id] = None]
            /\ job' = [job EXCEPT !.todo = remaining(m), !.counts[m.id] = 0,
                                  !.deleted = TRUE]
    /\ UNCHANGED <<metadata, buffer, alert, ranToday, told>>

\* The counts are written, and then, if rows went, the notice is forgotten.
EndDeletion ==
    /\ at("delete") /\ job.todo = {}
    /\ goto(IF job.deleted THEN "forget" ELSE "later")
    /\ extensions' = job.counts
    /\ UNCHANGED <<rows, notified, acknowledged, buffer, alert, ranToday, told>>

ForgetNotice ==
    /\ at("forget")
    /\ goto("later")
    /\ notified' = FALSE /\ acknowledged' = FALSE
    /\ UNCHANGED <<rows, extensions, buffer, alert, ranToday, told>>

\* A statement of the step throws; the warning may have been queued by then.
LifecycleFails ==
    /\ job.pc \in {"lifecycle", "clear", "notify", "list", "delete", "forget"}
    /\ failed("later")
    /\ \/ UNCHANGED buffer
       \/ at("notify") /\ buffer' = noticed
    /\ UNCHANGED <<rows, metadata, alert, ranToday, told>>

----------------------------------------------------------------------------
(* The rest of the run                                                     *)

\* RSS, wiki, staleness, and the reconciliation with the alerts it dispatches.
Later ==
    /\ at("later")
    /\ \E alerts, errors \in BOOLEAN :
          /\ buffer' = IF alerts THEN buffer \cup {"other"} ELSE buffer
          /\ job' = [job EXCEPT !.pc = "flush", !.errors = @ \/ errors,
                                !.preserve = @ \/ alerts]
    /\ UNCHANGED <<rows, metadata, alert, ranToday, told>>

\* The digest is made before Telegram is asked, and written after it answered.
\* What makes it fail is logged, not recorded; job.digest stays to say so.
FlushDailyDigest ==
    /\ at("flush")
    /\ job' = [job EXCEPT !.pc = IF buffer = {} THEN "end" ELSE "send", !.digest = buffer]
    /\ UNCHANGED <<rows, metadata, buffer, alert, ranToday, told>>

WriteDigest ==
    /\ at("send")
    /\ \/ /\ alert' = job.digest /\ buffer' = {}
          /\ job' = [job EXCEPT !.pc = "end", !.digest = {}, !.flushed = TRUE]
       \/ job' = [job EXCEPT !.pc = "end"] /\ UNCHANGED <<alert, buffer>>
    /\ UNCHANGED <<rows, metadata, ranToday, told>>

\* Mutant: the run forgets that it queued a notice.
keepsAlert_Digest == job.flushed

keepsAlert == job.preserve \/ job.flushed

\* Errors replace the digest; a run with nothing to say removes the file.  When
\* the file refuses either, it stays.
End ==
    /\ at("end")
    /\ job' = Idle
    /\ \/ job.errors /\ alert' = {"error"}
       \/ ~job.errors /\ ~keepsAlert /\ alert' = {}
       \/ UNCHANGED alert
    /\ told' = (told \/ "pending" \in alert')
    /\ UNCHANGED <<rows, metadata, buffer, ranToday>>

----------------------------------------------------------------------------
(* The monitor, the process, the other processes, the days                 *)

\* monitorOllamaAvailability after an hour without Ollama.
OllamaDown ==
    /\ buffer' = buffer \cup {"other"}
    /\ UNCHANGED <<rows, metadata, alert, job, ranToday, told>>

\* The process ends and is started again.
Restart ==
    /\ job' = Idle /\ buffer' = {} /\ ranToday' = FALSE
    /\ UNCHANGED <<rows, metadata, alert, told>>

\* A memory is archived, changed, or no longer archived.
Archive(r) ==
    /\ \/ \E kind \in KindsOf[r] : rows' = [rows EXCEPT ![r] = [kind |-> kind, age |-> 0]]
       \/ rows' = [rows EXCEPT ![r] = None]
    /\ UNCHANGED <<metadata, buffer, alert, job, ranToday, told>>

\* Mutant: an export counts although nothing has been announced.
Export_Unannounced ==
    /\ acknowledged' = TRUE
    /\ UNCHANGED <<rows, extensions, notified, buffer, alert, job, ranToday, told>>

\* vega export --archived, whatever rows its other options choose.
Export ==
    /\ acknowledged' = notified
    /\ UNCHANGED <<rows, extensions, notified, buffer, alert, job, ranToday, told>>

\* A run ends on the day on which it begins.
NextDay ==
    /\ at("idle")
    /\ rows' = [r \in Rows |-> IF rows[r] = None \/ rows[r].age = MaxAge THEN rows[r]
                               ELSE [rows[r] EXCEPT !.age = @ + 1]]
    /\ ranToday' = FALSE
    /\ UNCHANGED <<metadata, buffer, alert, job, told>>

----------------------------------------------------------------------------
Run ==
    \/ Begin \/ CheckPendingDeletions \/ ClearExtensions \/ NotifyPendingDeletions
    \/ ListDeletions \/ \E m \in job.todo : KeepRow(m) \/ DeleteRow(m)
    \/ EndDeletion \/ ForgetNotice \/ LifecycleFails \/ Later \/ FlushDailyDigest \/ WriteDigest \/ End

Next ==
    \/ Run \/ OllamaDown \/ Restart \/ Export \/ NextDay
    \/ \E r \in Rows : Archive(r)

\* Days go by.  The scheduler ticks every five minutes and whatever the run
\* awaits has a time limit, so a run that may start does, and goes on.
Fairness == WF_vars(Run) /\ WF_vars(NextDay)

Spec == Init /\ [][Next]_vars /\ Fairness

----------------------------------------------------------------------------
\* A run never removes the alert file while a deletion has been announced and
\* the archived rows were not exported since, whichever of its steps failed
\* (dailyMaintenance: preserveAlert and digestFlushed).
NoticeIsNotCleared ==
    [][alert # {} /\ alert' = {} => ~notified \/ acknowledged]_vars

\* A run deletes nothing unless a notice of deletions is out and archived rows were
\* exported since, however days, failing runs, restarts, exports and other
\* processes interleave with it (LifecycleManager.executeDeletion).  Which rows
\* the notice and the export held, the code does not ask.
DeletesOnlyAcknowledged ==
    [][\A m \in job.todo : DeleteRow(m) /\ rows' # rows => notified /\ acknowledged]_vars

\* A run comes to its end, has recorded no error and has written its digest.
CleanEnd == End /\ ~job.errors /\ job.digest = {}

\* If runs go through without an error again and again, an announced deletion is
\* shown in the alert file some day, although the warning waits in memory, the
\* process may end before the digest is written and any run between may fail
\* (LifecycleManager.notifyPendingDeletions, flushDailyDigest).  The condition is
\* needed: where every run records an error, as while embeddings cannot be
\* rebuilt, the error replaces the digest at the end of each (dailyMaintenance).
NoticeDelivered ==
    []<><<CleanEnd>>_vars => (notified ~> told \/ acknowledged \/ ~notified)

\* An overdue row.
overdue(r) ==
    /\ r \in archived /\ rows[r].kind # "explicit"
    /\ rows[r].age >= DeleteAfter + Extension * extensions[r]

\* Once the archived rows have been exported every overdue row goes, behind
\* explicit rows and over failing runs, if the deletion comes to its end again
\* and again; a row that a fact claim holds may keep it from that for ever
\* (LifecycleManager.executeDeletion).
ExportedRowsGo ==
    []<><<EndDeletion>>_vars =>
        \A r \in Rows : acknowledged /\ overdue(r) ~> ~overdue(r) \/ ~acknowledged
=============================================================================
