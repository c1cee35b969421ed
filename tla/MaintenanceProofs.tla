------------------------- MODULE MaintenanceProofs -------------------------
(***************************************************************************)
(* The types of Maintenance, that a run never removes the alert file while *)
(* an announced deletion is neither done nor acknowledged, and that it     *)
(* deletes nothing but while a notice is out that an export acknowledged.  *)
(***************************************************************************)
EXTENDS Maintenance, TLAPS

\* The largest age is a number.
LEMMA MaxAgeNat == MaxAge \in Nat
BY MaintenanceAssumption DEF MaxAge

Jobs == [pc: {"idle", "lifecycle", "clear", "notify", "list", "delete", "forget",
              "later", "flush", "send", "end"},
         errors: BOOLEAN, preserve: BOOLEAN, exported: BOOLEAN, deleted: BOOLEAN,
         todo: SUBSET Listed, counts: Counts, digest: SUBSET Titles, flushed: BOOLEAN]

\* The job at rest is a job.
LEMMA IdleType == Idle \in Jobs
BY MaintenanceAssumption DEF Idle, Jobs, Counts, noCounts, Titles

\* Moving on to the next step of the run keeps the job a job.
LEMMA JobMoves ==
    ASSUME TypeOK, NEW pc \in {"idle", "lifecycle", "clear", "notify", "list",
                               "delete", "forget", "later", "flush", "send", "end"}
    PROVE  /\ goto(pc) => job' \in Jobs
           /\ failed(pc) => job' \in Jobs
BY IdleType DEF TypeOK, Jobs, goto, failed

\* Init gives every variable its type.
LEMMA InitTypeOK == Init => TypeOK
<1> SUFFICES ASSUME Init PROVE TypeOK
  OBVIOUS
<1>1. extensions \in Counts
  BY MaintenanceAssumption DEF Init, Counts, noCounts
<1>2. job \in Jobs
  BY IdleType DEF Init
<1> QED
  BY <1>1, <1>2 DEF Init, TypeOK, Jobs

\* A step keeps every variable in its type.
LEMMA NextTypeOK == TypeOK /\ [Next]_vars => TypeOK'
<1> SUFFICES ASSUME TypeOK, [Next]_vars PROVE TypeOK'
  OBVIOUS
<1> USE DEF metadata
<1>0. job \in Jobs
  BY DEF TypeOK, Jobs
<1>1. CASE Begin
  <2>1. job' \in Jobs
    BY <1>1, JobMoves DEF Begin
  <2> QED
    BY <1>1, <2>1 DEF Begin, TypeOK, Jobs
<1>2. CASE CheckPendingDeletions
  <2>1. job' \in Jobs
    BY <1>2, JobMoves DEF CheckPendingDeletions
  <2> QED
    BY <1>2, <2>1 DEF CheckPendingDeletions, TypeOK, Jobs
<1>3. CASE NotifyPendingDeletions
  <2>1. job' \in Jobs
    BY <1>0, <1>3 DEF NotifyPendingDeletions, Jobs
  <2> QED
    BY <1>3, <2>1 DEF NotifyPendingDeletions, TypeOK, Jobs, noticed, Titles
<1>4. CASE ListDeletions
  <2>1. {[id |-> r, kind |-> rows[r].kind, age |-> rows[r].age] :
            r \in {q \in archived : rows[q].age >= DeleteAfter}} \in SUBSET Listed
    BY DEF TypeOK, archived, Row, Listed
  <2>2. job' \in Jobs
    BY <1>0, <1>4, <2>1 DEF ListDeletions, TypeOK, Jobs
  <2> QED
    BY <1>4, <2>2 DEF ListDeletions, TypeOK, Jobs
<1>5. ASSUME NEW m \in job.todo, KeepRow(m) PROVE TypeOK'
  <2>1. m.id \in Rows /\ job.counts \in Counts /\ remaining(m) \in SUBSET Listed
    BY <1>0 DEF Jobs, Listed, remaining
  <2>2. extended(job.counts, m.id) \in Counts
    BY <2>1, MaintenanceAssumption DEF extended, Counts
  <2>3. job' \in Jobs
    BY <1>0, <1>5, <2>1, <2>2 DEF KeepRow, Jobs
  <2> QED
    BY <1>5, <2>3 DEF KeepRow, TypeOK, Jobs
<1>6. ASSUME NEW m \in job.todo, DeleteRow(m) PROVE TypeOK'
  <2>1. m.id \in Rows /\ job.counts \in Counts /\ remaining(m) \in SUBSET Listed
    BY <1>0 DEF Jobs, Listed, remaining
  <2>2. [job.counts EXCEPT ![m.id] = 0] \in Counts
    BY <2>1, MaintenanceAssumption DEF Counts
  <2>3. job' \in Jobs
    BY <1>0, <1>6, <2>1, <2>2, JobMoves DEF DeleteRow, Jobs
  <2>4. rows' \in [Rows -> Row \cup {None}]
    BY <1>6, <2>1 DEF DeleteRow, TypeOK
  <2> QED
    BY <1>6, <2>3, <2>4 DEF DeleteRow, TypeOK, Jobs
<1>7. CASE EndDeletion
  <2>1. job' \in Jobs
    BY <1>7, JobMoves DEF EndDeletion
  <2> QED
    BY <1>0, <1>7, <2>1 DEF EndDeletion, TypeOK, Jobs
<1>8. CASE LifecycleFails
  <2>1. job' \in Jobs
    BY <1>8, JobMoves DEF LifecycleFails
  <2> QED
    BY <1>8, <2>1 DEF LifecycleFails, TypeOK, Jobs, noticed, Titles
<1>9. CASE Later
  <2>1. job' \in Jobs
    BY <1>0, <1>9 DEF Later, Jobs
  <2> QED
    BY <1>9, <2>1 DEF Later, TypeOK, Jobs, Titles
<1>10. CASE FlushDailyDigest
  <2>1. job' \in Jobs
    BY <1>0, <1>10 DEF FlushDailyDigest, TypeOK, Jobs
  <2> QED
    BY <1>10, <2>1 DEF FlushDailyDigest, TypeOK, Jobs
<1>11. CASE WriteDigest
  <2>1. job' \in Jobs
    BY <1>0, <1>11, JobMoves DEF WriteDigest, Jobs
  <2> QED
    BY <1>0, <1>11, <2>1 DEF WriteDigest, TypeOK, Jobs
<1>12. CASE End
  <2>1. job' \in Jobs
    BY <1>12, IdleType DEF End
  <2> QED
    BY <1>12, <2>1 DEF End, TypeOK, Jobs
<1>13. CASE OllamaDown
  BY <1>13 DEF OllamaDown, TypeOK, Titles
<1>14. CASE Restart
  BY <1>14, IdleType DEF Restart, TypeOK, Jobs
<1>15. CASE Export
  BY <1>15 DEF Export, TypeOK
<1>16. CASE NextDay
  <2>1. \A r \in Rows : rows[r] # None /\ rows[r].age # MaxAge
            => [rows[r] EXCEPT !.age = @ + 1] \in Row
    BY MaxAgeNat DEF TypeOK, Row
  <2>2. rows' \in [Rows -> Row \cup {None}]
    BY <1>16, <2>1 DEF NextDay, TypeOK
  <2> QED
    BY <1>16, <2>2 DEF NextDay, TypeOK
<1>17. ASSUME NEW r \in Rows, Archive(r) PROVE TypeOK'
  <2>1. \A kind \in KindsOf[r] : [kind |-> kind, age |-> 0] \in Row
    BY MaxAgeNat, MaintenanceAssumption DEF Row
  <2>2. rows' \in [Rows -> Row \cup {None}]
    BY <1>17, <2>1 DEF Archive, TypeOK
  <2> QED
    BY <1>17, <2>2 DEF Archive, TypeOK
<1>18. CASE UNCHANGED vars
  BY <1>18 DEF vars, TypeOK
<1>19. CASE ClearExtensions
  <2>1. job' \in Jobs
    BY <1>19, JobMoves DEF ClearExtensions
  <2>2. noCounts \in Counts
    BY MaintenanceAssumption DEF noCounts, Counts
  <2> QED
    BY <1>19, <2>1, <2>2 DEF ClearExtensions, TypeOK, Jobs
<1>20. CASE ForgetNotice
  <2>1. job' \in Jobs
    BY <1>20, JobMoves DEF ForgetNotice
  <2> QED
    BY <1>20, <2>1 DEF ForgetNotice, TypeOK, Jobs
<1> QED
  BY <1>1, <1>2, <1>3, <1>4, <1>5, <1>6, <1>7, <1>8, <1>9, <1>10, <1>11, <1>12, <1>13,
     <1>14, <1>15, <1>16, <1>17, <1>18, <1>19, <1>20 DEF Next, Run

\* Every behaviour of the maintenance keeps the types: in particular no row is
\* extended more often than MaxExtensions, and no age passes the last deadline
\* (LifecycleManager.executeDeletion).
THEOREM TypeCorrect == Spec => []TypeOK
BY InitTypeOK, NextTypeOK, PTL DEF Spec

----------------------------------------------------------------------------
\* A run that has come past the lifecycle step, and records no error and no
\* notice of its own, found nothing announced that was not acknowledged; and a
\* digest that is being sent has something in it.
AnnouncedIsKept ==
    /\ job.pc \in {"clear", "list", "delete", "forget", "later", "flush", "send", "end"}
         /\ ~job.errors /\ ~job.preserve => ~notified \/ acknowledged
    /\ job.pc = "send" => job.digest # {}

\* The strengthening is inductive.
LEMMA NextAnnouncedIsKept == TypeOK /\ AnnouncedIsKept /\ [Next]_vars => AnnouncedIsKept'
<1> SUFFICES ASSUME TypeOK, AnnouncedIsKept, [Next]_vars PROVE AnnouncedIsKept'
  OBVIOUS
<1> USE DEF metadata, at, goto, failed, Idle
<1>0. job \in Jobs
  BY DEF TypeOK, Jobs
<1>1. CASE Begin
  BY <1>1 DEF Begin, AnnouncedIsKept
<1>2. CASE CheckPendingDeletions
  BY <1>2 DEF CheckPendingDeletions, AnnouncedIsKept
<1>3. CASE NotifyPendingDeletions
  BY <1>0, <1>3 DEF NotifyPendingDeletions, AnnouncedIsKept, Jobs
<1>4. CASE ListDeletions
  BY <1>0, <1>4 DEF ListDeletions, AnnouncedIsKept, Jobs
<1>5. ASSUME NEW m \in job.todo, KeepRow(m) PROVE AnnouncedIsKept'
  BY <1>0, <1>5 DEF KeepRow, AnnouncedIsKept, Jobs
<1>6. ASSUME NEW m \in job.todo, DeleteRow(m) PROVE AnnouncedIsKept'
  BY <1>0, <1>6 DEF DeleteRow, AnnouncedIsKept, Jobs
<1>7. CASE EndDeletion
  BY <1>7 DEF EndDeletion, AnnouncedIsKept
<1>8. CASE LifecycleFails
  BY <1>8 DEF LifecycleFails, AnnouncedIsKept
<1>9. CASE Later
  BY <1>0, <1>9 DEF Later, AnnouncedIsKept, Jobs
<1>10. CASE FlushDailyDigest
  BY <1>0, <1>10 DEF FlushDailyDigest, AnnouncedIsKept, Jobs
<1>11. CASE WriteDigest
  BY <1>0, <1>11 DEF WriteDigest, AnnouncedIsKept, Jobs
<1>12. CASE End
  BY <1>12 DEF End, AnnouncedIsKept
<1>13. CASE OllamaDown
  BY <1>13 DEF OllamaDown, AnnouncedIsKept
<1>14. CASE Restart
  BY <1>14 DEF Restart, AnnouncedIsKept
<1>15. CASE Export
  BY <1>15 DEF Export, AnnouncedIsKept, TypeOK
<1>16. CASE NextDay
  BY <1>16 DEF NextDay, AnnouncedIsKept
<1>17. ASSUME NEW r \in Rows, Archive(r) PROVE AnnouncedIsKept'
  BY <1>17 DEF Archive, AnnouncedIsKept
<1>18. CASE UNCHANGED vars
  BY <1>18 DEF vars, AnnouncedIsKept
<1>19. CASE ClearExtensions
  BY <1>19 DEF ClearExtensions, AnnouncedIsKept
<1>20. CASE ForgetNotice
  BY <1>20 DEF ForgetNotice, AnnouncedIsKept
<1> QED
  BY <1>1, <1>2, <1>3, <1>4, <1>5, <1>6, <1>7, <1>8, <1>9, <1>10, <1>11, <1>12, <1>13,
     <1>14, <1>15, <1>16, <1>17, <1>18, <1>19, <1>20 DEF Next, Run

\* Only the end of a run without errors removes the file, and not over a notice.
LEMMA NoticeStep ==
    ASSUME TypeOK, AnnouncedIsKept, [Next]_vars, alert # {}, alert' = {}
    PROVE  ~notified \/ acknowledged
<1>1. CASE WriteDigest
  BY <1>1 DEF WriteDigest, AnnouncedIsKept, at
<1>2. CASE End
  BY <1>2 DEF End, AnnouncedIsKept, at, keepsAlert, TypeOK
<1>3. CASE UNCHANGED alert
  BY <1>3
<1> QED
  BY <1>1, <1>2, <1>3 DEF Next, Run, vars, Begin, CheckPendingDeletions,
     ClearExtensions, NotifyPendingDeletions, ListDeletions, KeepRow, DeleteRow,
     EndDeletion, ForgetNotice, LifecycleFails, Later, FlushDailyDigest, OllamaDown, Restart, Export, NextDay, Archive

\* Whichever steps of a run fail, it does not remove the alert file while a
\* deletion is announced and not acknowledged (dailyMaintenance).
THEOREM NoticeKept == Spec => NoticeIsNotCleared
<1>1. Init => AnnouncedIsKept
  BY DEF Init, AnnouncedIsKept, Idle
<1>2. TypeOK /\ AnnouncedIsKept /\ [Next]_vars
        => [alert # {} /\ alert' = {} => ~notified \/ acknowledged]_vars
  BY NoticeStep
<1> QED
  BY <1>1, <1>2, InitTypeOK, NextTypeOK, NextAnnouncedIsKept, PTL
     DEF Spec, NoticeIsNotCleared

----------------------------------------------------------------------------
\* An acknowledgement is one of something announced, and what the deletion read
\* of it when it began still holds while it deletes.
AcknowledgedIsAnnounced ==
    /\ acknowledged => notified
    /\ job.pc = "delete" /\ job.exported => acknowledged

\* This is inductive.
LEMMA NextAcknowledged ==
    TypeOK /\ AcknowledgedIsAnnounced /\ [Next]_vars => AcknowledgedIsAnnounced'
<1> SUFFICES ASSUME TypeOK, AcknowledgedIsAnnounced, [Next]_vars
             PROVE  AcknowledgedIsAnnounced'
  OBVIOUS
<1> USE DEF metadata, at, goto, failed, Idle
<1>0. job \in Jobs
  BY DEF TypeOK, Jobs
<1>1. CASE Begin \/ ClearExtensions \/ EndDeletion
  <2>1. UNCHANGED <<notified, acknowledged>>
    BY <1>1 DEF Begin, ClearExtensions, EndDeletion
  <2>2. job'.pc # "delete"
    <3>1. CASE Begin
      BY <3>1 DEF Begin
    <3>2. CASE ClearExtensions
      BY <3>2 DEF ClearExtensions
    <3>3. CASE EndDeletion
      BY <3>3 DEF EndDeletion
    <3> QED
      BY <1>1, <3>1, <3>2, <3>3
  <2> QED
    BY <2>1, <2>2 DEF AcknowledgedIsAnnounced
<1>2. CASE NotifyPendingDeletions
  BY <1>0, <1>2 DEF NotifyPendingDeletions, AcknowledgedIsAnnounced, Jobs
<1>3. CASE ListDeletions
  BY <1>0, <1>3 DEF ListDeletions, AcknowledgedIsAnnounced, Jobs
<1>4. ASSUME NEW m \in job.todo, KeepRow(m) PROVE AcknowledgedIsAnnounced'
  BY <1>0, <1>4 DEF KeepRow, AcknowledgedIsAnnounced, Jobs
<1>5. ASSUME NEW m \in job.todo, DeleteRow(m) PROVE AcknowledgedIsAnnounced'
  BY <1>0, <1>5 DEF DeleteRow, AcknowledgedIsAnnounced, Jobs
<1>6. CASE LifecycleFails
  BY <1>6 DEF LifecycleFails, AcknowledgedIsAnnounced
<1>7. CASE Later
  BY <1>0, <1>7 DEF Later, AcknowledgedIsAnnounced, Jobs
<1>8. CASE FlushDailyDigest
  BY <1>0, <1>8 DEF FlushDailyDigest, AcknowledgedIsAnnounced, Jobs
<1>9. CASE WriteDigest
  BY <1>0, <1>9 DEF WriteDigest, AcknowledgedIsAnnounced, Jobs
<1>10. CASE End
  BY <1>10 DEF End, AcknowledgedIsAnnounced
<1>11. CASE OllamaDown \/ Restart \/ Export \/ NextDay
  BY <1>11 DEF OllamaDown, Restart, Export, NextDay, AcknowledgedIsAnnounced
<1>12. ASSUME NEW r \in Rows, Archive(r) PROVE AcknowledgedIsAnnounced'
  BY <1>12 DEF Archive, AcknowledgedIsAnnounced
<1>13. CASE UNCHANGED vars
  BY <1>13 DEF vars, AcknowledgedIsAnnounced
<1>14. CASE CheckPendingDeletions
  <2>1. job'.pc # "delete"
    BY <1>14 DEF CheckPendingDeletions
  <2>2. CASE pending = {}
    BY <1>14, <2>1, <2>2 DEF CheckPendingDeletions, AcknowledgedIsAnnounced
  <2>3. CASE UNCHANGED <<notified, acknowledged>>
    BY <2>1, <2>3 DEF AcknowledgedIsAnnounced
  <2> QED
    BY <1>14, <2>2, <2>3 DEF CheckPendingDeletions
<1>15. CASE ForgetNotice
  BY <1>15 DEF ForgetNotice, AcknowledgedIsAnnounced
<1> QED
  BY <1>1, <1>2, <1>3, <1>4, <1>5, <1>6, <1>7, <1>8, <1>9, <1>10,
     <1>11, <1>12, <1>13, <1>14, <1>15 DEF Next, Run

\* However days, failing runs, restarts, exports and other processes interleave
\* with it, a run deletes nothing but while a notice is out and was acknowledged.
THEOREM DeletionAcknowledged == Spec => DeletesOnlyAcknowledged
<1>1. Init => AcknowledgedIsAnnounced
  BY DEF Init, AcknowledgedIsAnnounced, Idle
<1>2. AcknowledgedIsAnnounced =>
        [\A m \in job.todo : DeleteRow(m) /\ rows' # rows => notified /\ acknowledged]_vars
  BY DEF AcknowledgedIsAnnounced, DeleteRow, at
<1> QED
  BY <1>1, <1>2, InitTypeOK, NextTypeOK, NextAcknowledged, PTL
     DEF Spec, DeletesOnlyAcknowledged
=============================================================================
