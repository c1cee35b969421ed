------------------------ MODULE ConsolidationProofs ------------------------
(***************************************************************************)
(* Consolidation keeps its types and its three safety promises, and its    *)
(* approval items implement ApprovalQueue: for any rows, claims, items,    *)
(* texts and detectors, and any number of calls and interruptions.         *)
(*                                                                         *)
(* The invariant has three parts that feed on each other: Data (rows and   *)
(* claims), Work (items, runs and the handler that runs), and Attempts     *)
(* (what is pending of a run's candidates, by the state of the run).       *)
(***************************************************************************)
EXTENDS Consolidation, FiniteSetTheorems, FunctionTheorems, TLAPS

Data ==
    /\ rows \in [Memories -> Row \cup {None}]
    /\ updated \in [Memories -> Nat]
    /\ claims \in [Claims -> Claim]

RunJob == [op: {"run"}, key: SUBSET Candidate, failed: BOOLEAN, doubt: SUBSET Claims,
           expire: SUBSET Items, submit: SUBSET Candidate]
ItemJob == [op: {"item"}, item: Items, outcome: {None, "approved", "execution_failed"}]

pendingItems == {i \in Items : items[i] # None /\ items[i].status = "pending"}

\* A run expires only what is pending; an item that is executed is marked, and
\* has taken effect when its outcome says so; what is pending was never executed.
Work ==
    /\ items \in [Items -> Item \cup {None}]
    /\ runs \subseteq Run
    /\ effective \subseteq Items /\ abandoned \subseteq Items
    /\ interrupted \subseteq SUBSET Candidate
    /\ \/ job = Idle
       \/ job \in RunJob /\ job.expire \subseteq pendingItems
       \/ /\ job \in ItemJob
          /\ items[job.item] # None
          /\ items[job.item].status = "approved_pending_execution"
          /\ job.outcome = "approved" => job.item \in effective
    /\ \A i \in pendingItems : ~items[i].executed

\* A key that has items has a recorded run, or one that is running or was
\* interrupted; and what is pending of a running key is about to expire, or is
\* not to be submitted again.
recorded == {r.key : r \in runs}

known(key) == key \in recorded \/ key \in interrupted \/ (job.op = "run" /\ job.key = key)
KeysKnown == \A i \in Items : items[i] # None => known(items[i].key)

replaced(i) ==
    i \in job.expire \/ items[i].candidate \notin job.submit \/ job.key \in interrupted
AttemptReplaced ==
    job.op = "run" => \A i \in pendingItems : items[i].key = job.key => replaced(i)

Attempts == KeysKnown /\ AttemptReplaced /\ NoDuplicatePending

Bounds == writes \in 0..MaxWrites /\ calls \in 0..MaxCalls

Inv == Data /\ Work /\ Attempts /\ Bounds

\* The kinds of handler are told apart by op.
LEMMA JobKinds ==
    ASSUME Work
    PROVE  /\ job.op = "run" => job \in RunJob /\ job.expire \subseteq pendingItems
           /\ job.op = "item" =>
                 /\ job \in ItemJob
                 /\ items[job.item] # None /\ items[job.item] \in Item
                 /\ items[job.item].status = "approved_pending_execution"
                 /\ job.outcome = "approved" => job.item \in effective
BY DEF Work, Idle, RunJob, ItemJob

\* The fixed order picks an element.
LEMMA OneOfIn == ASSUME NEW S, S # {} PROVE oneOf(S) \in S
BY DEF oneOf

----------------------------------------------------------------------------
(* Rows and claims                                                         *)

\* A touched row has a rank as the others do.
LEMMA TouchedType == ASSUME NEW S PROVE touched(S) \in [Memories -> Nat]
<1> DEFINE stamp == [m \in Memories |-> IF m \in S THEN Cardinality(Memories) + 1 ELSE updated[m]]
           below(m) == {k \in Memories : stamp[k] < stamp[m]}
           ranks(m) == {stamp[n] : n \in below(m)}
<1>1. ASSUME NEW m \in Memories PROVE Cardinality(ranks(m)) \in Nat
  <2> DEFINE f == [n \in below(m) |-> stamp[n]]
  <2> HIDE DEF stamp
  <2>1. IsFiniteSet(below(m))
    BY ConsolidationAssumption, FS_Subset
  <2>2. f \in Surjection(below(m), ranks(m))
    BY Fun_IsSurj
  <2> QED
    BY <2>1, <2>2, FS_Surjection, FS_CardinalityType
<1>2. touched(S) = [m \in Memories |-> Cardinality(ranks(m))]
  BY DEF touched
<1> QED
  BY <1>1, <1>2

\* Doubting and ending claims keeps the table, and makes no claim active.
LEMMA ClaimTables ==
    ASSUME NEW table \in [Claims -> Claim], NEW which
    PROVE  /\ doubted(table, which) \in [Claims -> Claim]
           /\ ended(table, which) \in [Claims -> Claim]
           /\ \A c \in Claims :
                 /\ doubted(table, which)[c].row = table[c].row
                 /\ ended(table, which)[c].row = table[c].row
                 /\ doubted(table, which)[c].status = "active" =>
                       table[c].status = "active" /\ c \notin which
                 /\ ended(table, which)[c].status = "active" =>
                       table[c].status = "active" /\ c \notin which
BY DEF doubted, ended, Claim, ClaimStatus

\* Archiving rows that exist keeps the table.
LEMMA ArchivedRows ==
    ASSUME NEW table \in [Memories -> Row \cup {None}], NEW S,
           \A m \in Memories : m \in S => table[m] # None
    PROVE  /\ archived(table, S) \in [Memories -> Row \cup {None}]
           /\ \A m \in Memories : m \notin S => archived(table, S)[m] = table[m]
BY DEF archived, Row

\* So does verifying them as well.
LEMMA RowTables ==
    ASSUME NEW table \in [Memories -> Row \cup {None}], NEW S, NEW T,
           \A m \in Memories : m \in S \cup T => table[m] # None
    PROVE  /\ verified(archived(table, S), T) \in [Memories -> Row \cup {None}]
           /\ \A m \in Memories :
                 /\ m \notin S /\ table[m] # None /\ table[m].active =>
                       /\ verified(archived(table, S), T)[m] # None
                       /\ verified(archived(table, S), T)[m].active
<1>1. archived(table, S) \in [Memories -> Row \cup {None}]
  BY DEF archived, Row
<1>2. \A m \in Memories : table[m] # None => archived(table, S)[m] # None
  BY NoneAssumption DEF archived, Row
<1>3. verified(archived(table, S), T) \in [Memories -> Row \cup {None}]
  BY <1>1, <1>2 DEF verified, Row
<1>4. \A m \in Memories : m \notin S => archived(table, S)[m] = table[m]
  BY DEF archived
<1>5. \A m \in Memories : table[m] # None => verified(archived(table, S), T)[m] # None
  BY <1>1, <1>2, NoneAssumption DEF verified, Row
<1>6. \A m \in Memories : archived(table, S)[m] # None =>
          verified(archived(table, S), T)[m].active = archived(table, S)[m].active
  BY <1>1 DEF verified, Row
<1> QED
  BY <1>1, <1>2, <1>3, <1>4, <1>5, <1>6

\* The detectors propose candidates.
LEMMA ReportsType ==
    ASSUME Data, NEW D, NEW alike, NEW lapsed, NEW key \in reports(D, alike, lapsed)
    PROVE  key \subseteq Candidate
<1>1. \A S \in duplicates : \A p \in S : mergeCandidate(p, p \in alike) \in Candidate
  BY ConsolidationAssumption DEF duplicates, mergeCandidate, Candidate
<1>2. conflicts \subseteq Candidate
  <2>1. rowGroups \subseteq SUBSET Memories
    BY DEF rowGroups, activeRows
  <2>2. claimsIn("conflict") \subseteq Claims
    BY DEF claimsIn
  <2>3. {claims[c].row : c \in claimsIn("conflict")} \ {None} \subseteq Memories
    BY <2>2 DEF Data, Claim
  <2> QED
    BY <2>1, <2>2, <2>3 DEF conflicts, Candidate
<1>3. \A c \in claimsIn("active") : outdated(c, lapsed) \subseteq Candidate
  <2> SUFFICES ASSUME NEW c \in claimsIn("active") PROVE outdated(c, lapsed) \subseteq Candidate
    OBVIOUS
  <2>1. c \in Claims /\ {c} \cup newer(c) \subseteq Claims
    BY DEF claimsIn, newer
  <2>2. sourceRow(c) \subseteq Memories
    BY <2>1 DEF sourceRow, Data, Claim
  <2> QED
    BY <2>1, <2>2 DEF outdated, Candidate
<1>4. PICK S \in duplicates : key =
        (IF "duplicate_merge" \in D THEN {mergeCandidate(p, p \in alike) : p \in S} ELSE {})
        \cup (IF "conflict_aggregation" \in D THEN conflicts ELSE {})
        \cup (IF "expired_fact" \in D
              THEN UNION {outdated(c, lapsed) : c \in claimsIn("active")} ELSE {})
  BY DEF reports
<1> QED
  BY <1>1, <1>2, <1>3, <1>4

\* A step that keeps the types of the tables leaves no claim behind if each claim
\* that is active after it has an active row, or was stray before.
LEMMA DataStep ==
    ASSUME rows' \in [Memories -> Row \cup {None}], updated' \in [Memories -> Nat],
           claims' \in [Claims -> Claim],
           \A c \in Claims : claims'[c].status = "active" =>
               \/ c \in stray
               \/ claims'[c].row \in Memories /\ rows'[claims'[c].row] # None
                      /\ rows'[claims'[c].row].active
    PROVE  Data' /\ stray' \subseteq stray
<1>1. Data'
  BY DEF Data
<1>2. ASSUME NEW c \in stray' PROVE c \in stray
  <2>1. c \in Claims /\ claims'[c].status = "active" /\ claims'[c].row \notin activeRows'
    BY <1>2 DEF stray, claimsIn
  <2> QED
    BY <2>1 DEF activeRows
<1> QED
  BY <1>1, <1>2

\* The row of an active claim that is not stray.
LEMMA ActiveRow ==
    ASSUME NEW c \in Claims, claims[c].status = "active", c \notin stray
    PROVE  claims[c].row \in Memories /\ rows[claims[c].row] # None
           /\ rows[claims[c].row].active
BY DEF stray, claimsIn, activeRows

\* What a merge makes of the rows: the kept one has the facts of them all, and a
\* row that is not of the merge is left alone.
LEMMA MergedRows ==
    ASSUME Data, mergeable, NEW kept \in candidate.rows,
           rows' = [archived(rows, candidate.rows \ {kept}) EXCEPT
                       ![kept].facts = UNION {rows[m].facts : m \in candidate.rows}]
    PROVE  /\ \A m \in candidate.rows : /\ m \in Memories /\ rows[m] \in Row
                                         /\ rows[m] # None /\ rows[m].active
           /\ rows' \in [Memories -> Row \cup {None}]
           /\ rows'[kept] # None /\ rows'[kept].active
           /\ rows'[kept].facts = UNION {rows[m].facts : m \in candidate.rows}
           /\ \A m \in Memories \ candidate.rows : rows'[m] = rows[m]
<1> DEFINE others == candidate.rows \ {kept}
           texts == UNION {rows[m].facts : m \in candidate.rows}
           moved == [archived(rows, others)[kept] EXCEPT !.facts = texts]
<1>1. candidate.rows \subseteq activeRows
  BY DEF mergeable
<1>2. \A m \in candidate.rows : /\ m \in Memories /\ rows[m] \in Row
                                /\ rows[m] # None /\ rows[m].active
  BY <1>1 DEF activeRows, Data
<1>3. /\ archived(rows, others) \in [Memories -> Row \cup {None}]
      /\ \A m \in Memories : m \notin others => archived(rows, others)[m] = rows[m]
  BY <1>2, ArchivedRows DEF Data
<1>4. texts \in SUBSET Facts
  BY <1>2 DEF Row
<1>5. moved \in Row /\ moved # None /\ moved.active /\ moved.facts = texts
  <2>1. archived(rows, others)[kept] = rows[kept] /\ rows[kept] \in Row /\ rows[kept].active
    BY <1>2, <1>3
  <2> HIDE DEF texts
  <2>2. moved \in Row /\ moved.active /\ moved.facts = texts
    BY <1>4, <2>1 DEF Row
  <2> QED
    BY <2>2, NoneAssumption
<1>6. rows' = [archived(rows, others) EXCEPT ![kept] = moved]
  OBVIOUS
<1> HIDE DEF moved
<1>7. /\ rows' \in [Memories -> Row \cup {None}] /\ rows'[kept] = moved
      /\ \A m \in Memories \ candidate.rows : rows'[m] = rows[m]
  BY <1>2, <1>3, <1>5, <1>6
<1> QED
  BY <1>2, <1>5, <1>7

\* A merge archives the other rows and takes their claims along.
LEMMA MergeData == ASSUME Inv, PerformMerge PROVE Data' /\ stray' \subseteq stray
<1>1. CASE ~mergeable
  BY <1>1 DEF PerformMerge, refused, data, Inv, Data, stray, claimsIn, activeRows
<1>2. ASSUME mergeable,
             NEW kept \in candidate.rows, isNewest(kept, candidate.rows),
             rows' = [archived(rows, candidate.rows \ {kept}) EXCEPT
                         ![kept].facts = UNION {rows[m].facts : m \in candidate.rows}],
             updated' = touched(candidate.rows),
             claims' = mergedClaims(kept, candidate.rows \ {kept})
      PROVE  Data' /\ stray' \subseteq stray
  <2> DEFINE others == candidate.rows \ {kept}
  <2>1. Data
    BY DEF Inv
  <2>2. /\ \A m \in candidate.rows : /\ m \in Memories /\ rows[m] \in Row
                                      /\ rows[m] # None /\ rows[m].active
        /\ rows' \in [Memories -> Row \cup {None}]
        /\ rows'[kept] # None /\ rows'[kept].active
        /\ \A m \in Memories \ candidate.rows : rows'[m] = rows[m]
    BY <1>2, <2>1, MergedRows
  <2>3. claims' \in [Claims -> Claim]
    BY <1>2, <2>1, <2>2 DEF mergedClaims, Data, Claim, ClaimStatus
  <2>4. ASSUME NEW c \in Claims, claims'[c].status = "active", c \notin stray
        PROVE  claims'[c].row \in Memories /\ rows'[claims'[c].row] # None
                   /\ rows'[claims'[c].row].active
    <3>1. claims[c].status = "active" /\ (claims'[c].row = kept \/
             (claims'[c].row = claims[c].row /\ claims[c].row \notin others))
      BY <1>2, <2>4 DEF mergedClaims
    <3>2. claims[c].row \in Memories /\ rows[claims[c].row] # None
            /\ rows[claims[c].row].active
      BY <2>4, <3>1, ActiveRow
    <3> QED
      BY <2>2, <3>1, <3>2
  <2>5. updated' \in [Memories -> Nat]
    BY <1>2, TouchedType
  <2> QED
    BY <2>2, <2>3, <2>4, <2>5, DataStep
<1> QED
  BY <1>1, <1>2 DEF PerformMerge

\* A review ends the claims it has, or archives rows and doubts their claims.
LEMMA ReviewData == ASSUME Inv, PerformReview PROVE Data' /\ stray' \subseteq stray
<1> USE DEF data
<1>0. Data /\ Work
  BY DEF Inv
<1>1. CASE refused
  BY <1>0, <1>1 DEF refused, Data, stray, claimsIn, activeRows
<1>2. ASSUME \A m \in candidate.rows : rows[m] # None, settleClaims
      PROVE  Data' /\ stray' \subseteq stray
  <2>1. /\ settledRows \subseteq activeRows /\ activeRows \subseteq Memories
        /\ \A m \in activeRows : rows[m] # None
    BY DEF settledRows, activeRows
  <2>2. rows \in [Memories -> Row \cup {None}]
    BY <1>0 DEF Data
  <2>3. /\ rows' \in [Memories -> Row \cup {None}]
        /\ \A m \in Memories : rows[m] # None /\ rows[m].active =>
                rows'[m] # None /\ rows'[m].active
    <3>1. archived(rows, {}) = rows
      BY <2>2 DEF archived
    <3> QED
      BY <1>2, <2>1, <2>2, <3>1, RowTables DEF settleClaims
  <2>4. /\ claims' \in [Claims -> Claim]
        /\ \A c \in Claims : /\ claims'[c].row = claims[c].row
                             /\ claims'[c].status = "active" => claims[c].status = "active"
    BY <1>0, <1>2, ClaimTables DEF settleClaims, Data
  <2>5. updated' \in [Memories -> Nat]
    BY <1>2, TouchedType DEF settleClaims
  <2> QED
    BY <1>0, <2>3, <2>4, <2>5, ActiveRow, DataStep
<1>3. ASSUME keepNewest PROVE Data' /\ stray' \subseteq stray
  <2>1. PICK kept \in candidate.rows :
            LET dropped == (candidate.rows \ {kept}) \cap activeRows
                settled == {m \in {kept} \cap activeRows : rows[m].conflict}
            IN  /\ claims' = doubted(claims, UNION {claimsOf(m) : m \in dropped})
                /\ rows' = verified(archived(rows, dropped), settled)
                /\ updated' = touched(dropped \cup settled)
    BY <1>3 DEF keepNewest
  <2> DEFINE dropped == (candidate.rows \ {kept}) \cap activeRows
             settled == {m \in {kept} \cap activeRows : rows[m].conflict}
             lost == UNION {claimsOf(m) : m \in dropped}
  <2>2. \A m \in Memories : m \in dropped \cup settled => rows[m] # None
    BY DEF activeRows
  <2>3. /\ rows' \in [Memories -> Row \cup {None}]
        /\ \A m \in Memories : m \notin dropped /\ rows[m] # None /\ rows[m].active =>
                rows'[m] # None /\ rows'[m].active
    BY <1>0, <2>1, <2>2, RowTables DEF Data
  <2>4. /\ claims' \in [Claims -> Claim]
        /\ \A c \in Claims :
               /\ claims'[c].row = claims[c].row
               /\ claims'[c].status = "active" =>
                      claims[c].status = "active" /\ c \notin lost
    BY <1>0, <2>1, ClaimTables DEF Data
  <2>5. \A c \in Claims : claims[c].row \in dropped => c \in lost
    BY DEF claimsOf
  <2>6. updated' \in [Memories -> Nat]
    BY <2>1, TouchedType
  <2> HIDE DEF dropped, settled, lost
  <2> QED
    BY <1>0, <2>3, <2>4, <2>5, <2>6, ActiveRow, DataStep
<1> QED
  BY <1>1, <1>2, <1>3 DEF PerformReview

\* Ending or doubting single claims leaves the rows as they are.
LEMMA ClaimData ==
    ASSUME Inv, AutoMark \/ PerformExpiry
    PROVE  Data' /\ stray' \subseteq stray
<1>0. Data
  BY DEF Inv
<1>1. /\ UNCHANGED <<rows, updated>>
      /\ \E which : claims' \in {claims, doubted(claims, which), ended(claims, which)}
  BY DEF AutoMark, PerformExpiry, refused, data
<1>2. /\ claims' \in [Claims -> Claim]
      /\ \A c \in Claims : /\ claims'[c].row = claims[c].row
                           /\ claims'[c].status = "active" => claims[c].status = "active"
  BY <1>0, <1>1, ClaimTables DEF Data
<1>3. rows' \in [Memories -> Row \cup {None}] /\ updated' \in [Memories -> Nat]
  BY <1>0, <1>1 DEF Data
<1> QED
  BY <1>0, <1>1, <1>2, <1>3, ActiveRow, DataStep

\* A merge keeps the table of claims.
LEMMA MergedClaims ==
    ASSUME Data, NEW kept \in Memories, NEW others
    PROVE  mergedClaims(kept, others) \in [Claims -> Claim]
BY DEF mergedClaims, Data, Claim, ClaimStatus

\* What the other services do to rows and claims.
elsewhere ==
    \/ \E m \in Memories, f \in Texts, conflict \in BOOLEAN : Rewrite(m, f, conflict)
    \/ \E m \in Memories : ArchiveElsewhere(m) \/ DeleteElsewhere(m)
    \/ \E c \in Claims, m \in Memories : \E rivals \in SUBSET Claims : Extract(c, m, rivals)
    \/ \E c \in Claims, status \in Decisions : Resolve(c, status)

\* The other services keep the types of rows and claims.
LEMMA WriteData == ASSUME Inv, elsewhere PROVE Data'
<1>0. Data /\ rows \in [Memories -> Row \cup {None}] /\ claims \in [Claims -> Claim]
      /\ updated \in [Memories -> Nat]
  BY DEF Inv, Data
<1>1. ASSUME NEW m \in Memories, NEW f \in Texts, NEW conflict \in BOOLEAN,
             Rewrite(m, f, conflict)
      PROVE  Data'
  <2>1. rows[m] \in Row /\ f \in SUBSET Facts
    BY <1>0, <1>1, ConsolidationAssumption DEF Rewrite, activeRows
  <2> DEFINE new == [rows[m] EXCEPT !.facts = f, !.conflict = conflict]
  <2>2. new \in Row
    BY <2>1 DEF Row
  <2>3. rows' = [rows EXCEPT ![m] = new] /\ claims' = claims
    BY <1>1 DEF Rewrite
  <2>4. updated' \in [Memories -> Nat]
    BY <1>1, TouchedType DEF Rewrite
  <2> QED
    BY <1>0, <2>2, <2>3, <2>4 DEF Data
<1>2. ASSUME NEW m \in Memories, ArchiveElsewhere(m) PROVE Data'
  <2>1. rows[m] # None
    BY <1>2 DEF ArchiveElsewhere, activeRows
  <2>2. rows' \in [Memories -> Row \cup {None}]
    BY <1>0, <1>2, <2>1, ArchivedRows DEF ArchiveElsewhere
  <2>3. claims' \in [Claims -> Claim]
    <3>1. doubted(claims, claimsOf(m)) \in [Claims -> Claim]
      BY <1>0, ClaimTables
    <3>2. ASSUME NEW kept \in activeRows PROVE mergedClaims(kept, {m}) \in [Claims -> Claim]
      BY <1>0, MergedClaims DEF activeRows
    <3> QED
      BY <1>0, <1>2, <3>1, <3>2 DEF ArchiveElsewhere
  <2>4. updated' \in [Memories -> Nat]
    BY <1>2, TouchedType DEF ArchiveElsewhere
  <2> QED
    BY <2>2, <2>3, <2>4 DEF Data
<1>3. ASSUME NEW m \in Memories, DeleteElsewhere(m) PROVE Data'
  <2>1. rows' = [rows EXCEPT ![m] = None] /\ updated' = updated
        /\ claims' = [c \in Claims |-> IF c \in claimsOf(m)
                                      THEN [doubted(claims, {c})[c] EXCEPT !.row = None]
                                      ELSE claims[c]]
    BY <1>3 DEF DeleteElsewhere
  <2>2. \A c \in Claims : doubted(claims, {c})[c] \in Claim
    BY <1>0, ClaimTables
  <2>3. claims' \in [Claims -> Claim]
    BY <1>0, <2>1, <2>2 DEF Claim
  <2> QED
    BY <1>0, <2>1, <2>3 DEF Data
<1>4. ASSUME NEW c \in Claims, NEW m \in Memories, NEW rivals \in SUBSET Claims,
             Extract(c, m, rivals)
      PROVE  Data'
  <2>1. rows' = rows /\ updated' = updated /\ claims' \in [Claims -> Claim]
    BY <1>0, <1>4 DEF Extract, Claim, ClaimStatus
  <2> QED
    BY <1>0, <2>1 DEF Data
<1>5. ASSUME NEW c \in Claims, NEW status \in Decisions, Resolve(c, status) PROVE Data'
  <2>1. status \in ClaimStatus
    BY ConsolidationAssumption DEF ClaimStatus
  <2>2. [claims EXCEPT ![c].status = status] \in [Claims -> Claim]
    BY <1>0, <2>1 DEF Claim
  <2>3. PICK ends : claims' = ended([claims EXCEPT ![c].status = status], ends)
    BY <1>5 DEF Resolve
  <2>4. claims' \in [Claims -> Claim]
    BY <2>2, <2>3, ClaimTables
  <2>5. rows' = rows /\ updated' = updated
    BY <1>5 DEF Resolve
  <2> QED
    BY <1>0, <2>4, <2>5 DEF Data
<1> QED
  BY <1>1, <1>2, <1>3, <1>4, <1>5 DEF elsewhere

----------------------------------------------------------------------------
(* Items, runs and handlers                                                *)

\* What writing one item does to the table and to what is pending.
LEMMA ItemWritten ==
    ASSUME Work, NEW i \in Items, NEW x \in Item, items' = [items EXCEPT ![i] = x]
    PROVE  /\ items' \in [Items -> Item \cup {None}]
           /\ items'[i] = x /\ x # None
           /\ \A j \in Items \ {i} : items'[j] = items[j]
           /\ pendingItems' = IF x.status = "pending" THEN pendingItems \cup {i}
                              ELSE pendingItems \ {i}
<1>1. items' \in [Items -> Item \cup {None}] /\ items'[i] = x /\ x # None
      /\ \A j \in Items \ {i} : items'[j] = items[j]
  BY NoneAssumption DEF Work
<1> QED
  BY <1>1 DEF pendingItems

\* A status can be overwritten.
LEMMA StatusWritten ==
    ASSUME Work, NEW i \in Items, items[i] # None, NEW status \in ItemStatus
    PROVE  /\ [items[i] EXCEPT !.status = status] \in Item
           /\ [items[i] EXCEPT !.status = status].status = status
           /\ [items[i] EXCEPT !.status = status].key = items[i].key
           /\ [items[i] EXCEPT !.status = status].candidate = items[i].candidate
           /\ [items[i] EXCEPT !.status = status].executed = items[i].executed
           /\ [items EXCEPT ![i].status = status] =
                 [items EXCEPT ![i] = [items[i] EXCEPT !.status = status]]
BY DEF Work, Item

\* Attempts survive a step that leaves runs and keys alone, in which nothing
\* becomes pending and the handler submits and expires no more than before.
LEMMA AttemptsKept ==
    ASSUME Work, Attempts, UNCHANGED <<runs, interrupted>>,
           \A i \in Items : items[i] = None <=> items'[i] = None,
           \A i \in Items : items[i] # None => items'[i].key = items[i].key
                                             /\ items'[i].candidate = items[i].candidate,
           pendingItems' \subseteq pendingItems,
           \/ job'.op # "run" /\ job.op # "run"
           \/ /\ job.op = "run" /\ job'.op = "run" /\ job'.key = job.key
              /\ job'.submit \subseteq job.submit
              /\ \/ job'.submit = {}
                 \/ \A i \in pendingItems' : i \in job.expire => i \in job'.expire
    PROVE  Attempts'
<1>1. recorded' = recorded
  BY DEF recorded
<1>2. \A i \in pendingItems' : i \in Items /\ items[i] # None /\ i \in pendingItems
  BY DEF pendingItems
<1>3. NoDuplicatePending'
  BY <1>2 DEF Attempts, NoDuplicatePending, pendingItems
<1>4. KeysKnown'
  BY <1>1 DEF Attempts, KeysKnown, known
<1>5. AttemptReplaced'
  <2> SUFFICES ASSUME job'.op = "run", NEW i \in pendingItems', items'[i].key = job'.key
               PROVE  replaced(i)'
    BY DEF AttemptReplaced
  <2>1. i \in pendingItems /\ items[i].key = job.key /\ items'[i].candidate = items[i].candidate
    BY <1>2
  <2>2. replaced(i)
    BY <2>1 DEF Attempts, AttemptReplaced
  <2> QED
    BY <2>1, <2>2 DEF replaced
<1> QED
  BY <1>3, <1>4, <1>5 DEF Attempts

\* A run begins.
LEMMA RunBeginStep ==
    ASSUME Inv, NEW s \in Settings, NEW lapsed,
           RunBegin(s.detectors, s.alike, s.autoExecute, lapsed)
    PROVE  Work' /\ Attempts'
<1>0. Work /\ Attempts /\ Data
  BY DEF Inv
<1>1. PICK key \in reports(s.detectors, s.alike, lapsed) :
        /\ job = Idle
        /\ job' = [op |-> "run", key |-> key,
                   failed |-> s.detectors # Detectors \/ ~s.autoExecute,
                   doubt |-> IF s.autoExecute
                             THEN UNION {c.claims : c \in {d \in key : d.action = "mark_expired"}}
                             ELSE {},
                   expire |-> IF runsOf(key) # {} THEN pendingOf(key) ELSE {},
                   submit |-> submitted(key)]
        /\ UNCHANGED <<data, items, runs, history, writes>>
  BY DEF RunBegin, call
<1>2. key \subseteq Candidate
  BY <1>0, ReportsType
<1>3. UNION {c.claims : c \in {d \in key : d.action = "mark_expired"}} \subseteq Claims
  BY <1>2 DEF Candidate
<1>4. pendingOf(key) \subseteq pendingItems
      /\ \A i \in pendingItems : items[i].key = key => i \in pendingOf(key)
  BY DEF pendingOf, pendingItems
<1>5. submitted(key) \subseteq Candidate
  BY <1>2 DEF submitted
<1>6. job' \in RunJob /\ job'.expire \subseteq pendingItems
  BY <1>1, <1>2, <1>3, <1>4, <1>5 DEF RunJob, pendingItems
<1>7. Work'
  BY <1>0, <1>1, <1>6 DEF Work, history, pendingItems
<1>8. recorded' = recorded /\ pendingItems' = pendingItems /\ job.op # "run"
      /\ items' = items /\ interrupted' = interrupted
  BY <1>1 DEF recorded, pendingItems, Idle, history
<1>9. KeysKnown' /\ NoDuplicatePending'
  BY <1>0, <1>8 DEF Attempts, KeysKnown, known, NoDuplicatePending
<1>10. AttemptReplaced'
  <2> SUFFICES ASSUME NEW i \in pendingItems, items[i].key = key PROVE replaced(i)'
    BY <1>1, <1>8 DEF AttemptReplaced
  <2>1. i \in Items /\ items[i] # None
    BY DEF pendingItems
  <2>2. CASE runsOf(key) # {}
    BY <1>1, <1>4, <2>2 DEF replaced
  <2>3. CASE runsOf(key) = {}
    <3>1. key \notin recorded
      BY <2>3 DEF recorded, runsOf
    <3>2. key \in interrupted
      BY <1>0, <1>8, <2>1, <3>1 DEF Attempts, KeysKnown, known
    <3> QED
      BY <1>1, <1>8, <3>2 DEF replaced
  <2> QED
    BY <2>2, <2>3
<1>11. Attempts'
  BY <1>9, <1>10 DEF Attempts
<1> QED
  BY <1>7, <1>11

\* Claims are marked.
LEMMA AutoMarkStep == ASSUME Inv, AutoMark PROVE Work' /\ Attempts'
<1>0. Work /\ Attempts /\ job \in RunJob /\ job.expire \subseteq pendingItems
  BY JobKinds DEF Inv, AutoMark
<1>1. job' = [job EXCEPT !.doubt = job.doubt \ {oneOf(job.doubt)}]
      /\ UNCHANGED <<items, runs, history>>
  BY DEF AutoMark
<1>2. job' \in RunJob /\ job'.expire = job.expire /\ job'.submit = job.submit
      /\ job'.key = job.key /\ job.op = "run" /\ job'.op = "run"
  BY <1>0, <1>1 DEF RunJob
<1>3. Work'
  BY <1>0, <1>1, <1>2 DEF Work, history, pendingItems
<1>4. Attempts'
  BY <1>0, <1>1, <1>2, AttemptsKept DEF history, pendingItems
<1> QED
  BY <1>3, <1>4

\* What fails is recorded, and what follows it is left out.
LEMMA FailureStep == ASSUME Inv, ExecutionFails \/ SubmissionFails PROVE Work' /\ Attempts'
<1>0. Work /\ Attempts /\ job \in RunJob /\ job.expire \subseteq pendingItems
      /\ UNCHANGED <<items, runs, history>>
  BY JobKinds DEF Inv, ExecutionFails, SubmissionFails
<1>1. /\ job' \in RunJob /\ job'.key = job.key /\ job.op = "run" /\ job'.op = "run"
      /\ job'.expire \subseteq job.expire /\ job'.submit \subseteq job.submit
      /\ job'.submit = {} \/ job'.expire = job.expire
  <2>1. CASE ExecutionFails
    BY <1>0, <2>1 DEF ExecutionFails, RunJob
  <2>2. CASE SubmissionFails
    BY <1>0, <2>2 DEF SubmissionFails, RunJob
  <2> QED
    BY <2>1, <2>2
<1>2. Work'
  BY <1>0, <1>1 DEF Work, history, pendingItems
<1>3. Attempts'
  BY <1>0, <1>1, AttemptsKept DEF history, pendingItems
<1> QED
  BY <1>2, <1>3

\* An item of an earlier attempt expires.
LEMMA ExpireStep == ASSUME Inv, ExpirePending PROVE Work' /\ Attempts'
<1>0. Work /\ Attempts /\ job \in RunJob /\ job.expire \subseteq pendingItems
  BY JobKinds DEF Inv, ExpirePending
<1> DEFINE i == oneOf(job.expire)
           x == [items[i] EXCEPT !.status = "expired"]
<1>1. i \in job.expire /\ i \in Items /\ items[i] # None
  BY <1>0, OneOfIn DEF ExpirePending, pendingItems
<1>2. items' = [items EXCEPT ![i].status = "expired"]
      /\ job' = [job EXCEPT !.expire = job.expire \ {i}]
      /\ UNCHANGED <<runs, history>>
  BY DEF ExpirePending
<1> HIDE DEF i
<1>a. "expired" \in ItemStatus
  BY DEF ItemStatus
<1>3. x \in Item /\ x.status = "expired" /\ x.key = items[i].key /\ items' = [items EXCEPT ![i] = x]
      /\ x.candidate = items[i].candidate
  BY <1>0, <1>1, <1>2, <1>a, StatusWritten
<1>4. /\ items' \in [Items -> Item \cup {None}]
      /\ items'[i] = x /\ x # None
      /\ \A j \in Items \ {i} : items'[j] = items[j]
      /\ pendingItems' = pendingItems \ {i}
  BY <1>0, <1>1, <1>3, ItemWritten
<1>5. job' \in RunJob /\ job'.expire = job.expire \ {i} /\ job'.submit = job.submit
      /\ job'.key = job.key /\ job.op = "run" /\ job'.op = "run"
  BY <1>0, <1>2 DEF RunJob
<1> HIDE DEF x
<1>6. \A j \in pendingItems' : j # i /\ items'[j] = items[j] /\ j \in pendingItems /\ j \in Items
  BY <1>4 DEF pendingItems
<1>7. Work'
  BY <1>0, <1>2, <1>4, <1>5, <1>6 DEF Work, history
<1>8. Attempts'
  BY <1>0, <1>1, <1>2, <1>3, <1>4, <1>5, AttemptsKept DEF history
<1> QED
  BY <1>7, <1>8

\* A candidate becomes an item: of its key nothing else is pending that is the
\* same, unless a first attempt was interrupted.
LEMMA SubmitStep ==
    ASSUME Inv, SubmitCandidate
    PROVE  Work' /\ Attempts'
<1>0. Work /\ Attempts /\ job \in RunJob /\ job.expire = {} /\ job.submit # {}
  BY JobKinds DEF Inv, SubmitCandidate
<1> DEFINE i == oneOf(freeItems)
           c == oneOf(job.submit)
           x == newItem(c)
<1>1. i \in Items /\ items[i] = None /\ c \in job.submit
  BY <1>0, OneOfIn DEF SubmitCandidate, freeItems
<1>2. items' = [items EXCEPT ![i] = x] /\ job' = [job EXCEPT !.submit = job.submit \ {c}]
      /\ UNCHANGED <<runs, history>>
  BY DEF SubmitCandidate
<1> HIDE DEF i, c
<1>3. x \in Item /\ x.status = "pending" /\ x.key = job.key /\ x.candidate = c /\ ~x.executed
  BY <1>0, <1>1 DEF newItem, Item, ItemStatus, RunJob
<1> HIDE DEF x
<1>4. /\ items' \in [Items -> Item \cup {None}]
      /\ items'[i] = x /\ x # None
      /\ \A j \in Items \ {i} : items'[j] = items[j]
      /\ pendingItems' = pendingItems \cup {i}
  BY <1>0, <1>1, <1>2, <1>3, ItemWritten
<1>5. job' \in RunJob /\ job'.expire = {} /\ job'.submit = job.submit \ {c}
      /\ job'.key = job.key /\ job.op = "run" /\ job'.op = "run"
  BY <1>0, <1>2 DEF RunJob
<1>6. i \notin pendingItems /\ \A j \in pendingItems : j \in Items /\ items'[j] = items[j]
  BY <1>1, <1>4 DEF pendingItems
<1>7. Work'
  BY <1>0, <1>2, <1>3, <1>4, <1>5, <1>6 DEF Work, history
<1>8. recorded' = recorded /\ interrupted' = interrupted
  BY <1>2 DEF recorded, history
<1>9. \A j \in pendingItems : items[j].key = job.key =>
          items[j].candidate # c \/ job.key \in interrupted
  BY <1>0, <1>1, <1>5 DEF Attempts, AttemptReplaced, replaced
<1>10. NoDuplicatePending'
  <2> SUFFICES ASSUME NEW j \in pendingItems', NEW k \in pendingItems', j # k,
                      items'[j].key = items'[k].key, items'[j].candidate = items'[k].candidate
               PROVE  items'[j].key \in interrupted
    BY <1>2 DEF NoDuplicatePending, pendingItems, history
  <2>1. CASE j \in pendingItems /\ k \in pendingItems
    BY <1>0, <1>6, <2>1 DEF Attempts, NoDuplicatePending, pendingItems
  <2>2. CASE j = i /\ k \in pendingItems
    BY <1>3, <1>4, <1>6, <1>9, <2>2
  <2>3. CASE k = i /\ j \in pendingItems
    BY <1>3, <1>4, <1>6, <1>9, <2>3
  <2> QED
    BY <1>4, <2>1, <2>2, <2>3
<1>11. KeysKnown'
  <2> SUFFICES ASSUME NEW j \in Items, items'[j] # None PROVE known(items[j].key)'
    BY DEF KeysKnown
  <2>1. CASE j = i
    BY <1>3, <1>4, <1>5, <2>1 DEF known
  <2>2. CASE j # i
    BY <1>0, <1>4, <1>5, <1>8, <2>2 DEF Attempts, KeysKnown, known
  <2> QED
    BY <2>1, <2>2
<1>12. AttemptReplaced'
  <2> SUFFICES ASSUME NEW j \in pendingItems', items'[j].key = job'.key PROVE replaced(j)'
    BY DEF AttemptReplaced
  <2>1. CASE j = i
    BY <1>3, <1>4, <1>5, <2>1 DEF replaced
  <2>2. CASE j # i
    BY <1>0, <1>4, <1>5, <1>6, <1>8, <2>2 DEF Attempts, AttemptReplaced, replaced
  <2> QED
    BY <2>1, <2>2
<1>13. Attempts'
  BY <1>10, <1>11, <1>12 DEF Attempts
<1> QED
  BY <1>7, <1>13

\* The run is recorded under its key.
LEMMA RecordStep == ASSUME Inv, RecordRun PROVE Work' /\ Attempts'
<1>0. Work /\ Attempts /\ job \in RunJob
  BY JobKinds DEF Inv, RecordRun
<1>1. /\ job' = Idle /\ UNCHANGED <<items, history>>
      /\ runs' = IF runsOf(job.key) # {} THEN runs
                 ELSE runs \cup {[key |-> job.key, failed |-> job.failed]}
  BY DEF RecordRun
<1>2. runs \subseteq Run /\ runs' \subseteq Run
  BY <1>0, <1>1 DEF Work, Run, RunJob
<1>3. recorded \subseteq recorded' /\ job.key \in recorded'
  <2>1. CASE runsOf(job.key) # {}
    <3>1. PICK r \in runs : r.key = job.key
      BY <2>1 DEF runsOf
    <3>2. runs' = runs
      BY <1>1, <2>1
    <3> QED
      BY <3>1, <3>2 DEF recorded
  <2>2. CASE runsOf(job.key) = {}
    <3> DEFINE new == [key |-> job.key, failed |-> job.failed]
    <3>1. new.key = job.key /\ runs' = runs \cup {new}
      BY <1>1, <2>2
    <3> HIDE DEF new
    <3> QED
      BY <3>1 DEF recorded
  <2> QED
    BY <2>1, <2>2
<1>4. pendingItems' = pendingItems /\ items' = items /\ interrupted' = interrupted
  BY <1>1 DEF pendingItems, history
<1>5. Work'
  BY <1>0, <1>1, <1>2, <1>4 DEF Work, history
<1>6. KeysKnown'
  BY <1>0, <1>3, <1>4 DEF Attempts, KeysKnown, known
<1>7. AttemptReplaced' /\ NoDuplicatePending'
  BY <1>0, <1>1, <1>4 DEF Attempts, AttemptReplaced, NoDuplicatePending, Idle
<1> QED
  BY <1>5, <1>6, <1>7 DEF Attempts

\* Outside a run, an item may get any status but pending.
LEMMA StatusStep ==
    ASSUME Inv, NEW i \in Items, NEW x \in Item, items[i] # None,
           x.key = items[i].key, x.candidate = items[i].candidate, x.status # "pending",
           items' = [items EXCEPT ![i] = x], UNCHANGED <<runs, interrupted>>,
           job.op # "run", job'.op # "run"
    PROVE  /\ Attempts'
           /\ items' \in [Items -> Item \cup {None}]
           /\ items'[i] = x /\ x # None
           /\ \A j \in pendingItems' : ~items'[j].executed
<1>0. Work /\ Attempts
  BY DEF Inv
<1>1. /\ items' \in [Items -> Item \cup {None}]
      /\ items'[i] = x /\ x # None
      /\ \A j \in Items \ {i} : items'[j] = items[j]
      /\ pendingItems' = pendingItems \ {i}
  BY <1>0, ItemWritten
<1>2. \A j \in pendingItems' : j \in Items \ {i} /\ j \in pendingItems
  BY <1>1 DEF pendingItems
<1>3. Attempts'
  <2>1. \A j \in Items : items[j] = None <=> items'[j] = None
    BY <1>1
  <2>2. \A j \in Items : items[j] # None => items'[j].key = items[j].key
                                         /\ items'[j].candidate = items[j].candidate
    BY <1>1
  <2> QED
    BY <1>0, <1>1, <2>1, <2>2, AttemptsKept
<1>4. \A j \in pendingItems' : ~items'[j].executed
  BY <1>0, <1>1, <1>2 DEF Work
<1> QED
  BY <1>1, <1>3, <1>4

\* A reviewer's request writes the item and may begin its execution.
LEMMA RequestStep ==
    ASSUME Inv, NEW i \in Items, items[i] # None, job = Idle,
           UNCHANGED <<runs, abandoned, interrupted>>,
           \/ executing(i)
           \/ \E decision \in {"approved", "rejected"} :
                 /\ items' = [items EXCEPT ![i].status = decision]
                 /\ UNCHANGED <<effective, job>>
    PROVE  Work' /\ Attempts'
<1>0. Work /\ Attempts /\ {"approved_pending_execution", "approved", "rejected"} \subseteq ItemStatus
      /\ job.op # "run"
  BY DEF Inv, ItemStatus, Idle
<1>1. PICK status \in {"approved_pending_execution", "approved", "rejected"} :
          /\ items' = [items EXCEPT ![i].status = status]
          /\ \/ UNCHANGED <<effective, job>>
             \/ /\ status = "approved_pending_execution"
                /\ effective' = effective \ {i}
                /\ job' = [op |-> "item", item |-> i, outcome |-> None]
  BY DEF executing
<1> DEFINE x == [items[i] EXCEPT !.status = status]
<1>2. x \in Item /\ x.status = status /\ x.key = items[i].key /\ x.candidate = items[i].candidate
      /\ items' = [items EXCEPT ![i] = x]
  BY <1>0, <1>1, StatusWritten
<1>3. job'.op # "run" /\ x.status # "pending" /\ UNCHANGED <<runs, interrupted>>
  BY <1>0, <1>1, <1>2
<1> HIDE DEF x
<1>4. /\ Attempts'
      /\ items' \in [Items -> Item \cup {None}]
      /\ items'[i] = x /\ x # None
      /\ \A j \in pendingItems' : ~items'[j].executed
  BY <1>0, <1>2, <1>3, StatusStep
<1>5. Work'
  <2>1. effective' \subseteq Items
    BY <1>0, <1>1 DEF Work
  <2>2. CASE job' = Idle
    BY <1>0, <1>4, <2>1, <2>2 DEF Work
  <2>3. CASE job' = [op |-> "item", item |-> i, outcome |-> None]
             /\ status = "approved_pending_execution"
    BY <1>0, <1>2, <1>4, <2>1, <2>3, NoneAssumption DEF Work, ItemJob
  <2> QED
    BY <1>1, <2>2, <2>3
<1> QED
  BY <1>4, <1>5

\* What is executed leaves items and runs alone until its outcome is written.
LEMMA PerformStep ==
    ASSUME Inv, PerformMerge \/ PerformReview \/ PerformExpiry \/ ExpiryDone
    PROVE  Work' /\ Attempts'
<1>0. Work /\ Attempts /\ job \in ItemJob /\ items[job.item] # None
      /\ items[job.item].status = "approved_pending_execution" /\ job.outcome = None
  BY JobKinds DEF Inv, PerformMerge, PerformReview, PerformExpiry, ExpiryDone, performing
<1>1. UNCHANGED <<items, runs, abandoned, interrupted>>
  BY DEF PerformMerge, PerformReview, PerformExpiry, ExpiryDone
<1>2. \/ tookEffect
      \/ refused
      \/ UNCHANGED <<effective, job>>
  BY DEF PerformMerge, PerformReview, PerformExpiry, ExpiryDone
<1>3. /\ job' \in ItemJob /\ job'.item = job.item
      /\ effective' \subseteq Items
      /\ job'.outcome = "approved" => job.item \in effective'
  <2>1. job.item \in Items /\ effective \subseteq Items
    BY <1>0 DEF Work, ItemJob
  <2>2. CASE tookEffect
    BY <1>0, <2>1, <2>2 DEF tookEffect, ItemJob
  <2>3. CASE refused
    BY <1>0, <2>1, <2>3 DEF refused, ItemJob
  <2>4. CASE UNCHANGED <<effective, job>>
    BY <1>0, <2>1, <2>4, NoneAssumption
  <2> QED
    BY <1>2, <2>2, <2>3, <2>4
<1>4. pendingItems' = pendingItems /\ items' = items
  BY <1>1 DEF pendingItems
<1>5. Work'
  BY <1>0, <1>1, <1>3, <1>4 DEF Work
<1>6. job.op # "run" /\ job'.op # "run"
  BY <1>0, <1>3 DEF ItemJob
<1>7. Attempts'
  BY <1>0, <1>1, <1>4, <1>6, AttemptsKept
<1> QED
  BY <1>5, <1>7

\* The outcome is written.
LEMMA ConcludeStep == ASSUME Inv, Conclude PROVE Work' /\ Attempts'
<1> DEFINE i == job.item
           x == [items[i] EXCEPT !.status = job.outcome,
                                 !.executed = items[i].executed \/ job.outcome = "approved"]
<1>0. Work /\ Attempts /\ job \in ItemJob /\ i \in Items /\ items[i] # None /\ items[i] \in Item
      /\ job.outcome \in {"approved", "execution_failed"}
  BY JobKinds DEF Inv, Conclude, ItemJob
<1>1. items' = [items EXCEPT ![i] = x] /\ job' = Idle /\ UNCHANGED <<runs, history>>
  BY <1>0 DEF Conclude, Work
<1>2. x.status = job.outcome /\ x.key = items[i].key /\ x.candidate = items[i].candidate
  BY <1>0 DEF Item
<1>3. x \in Item
  <2>1. (items[i].executed \/ job.outcome = "approved") \in BOOLEAN
    OBVIOUS
  <2>2. job.outcome \in ItemStatus
    BY <1>0 DEF ItemStatus
  <2> QED
    BY <1>0, <2>1, <2>2 DEF Item
<1>4. job.op # "run" /\ job'.op # "run"
  BY <1>0, <1>1 DEF ItemJob, Idle
<1> HIDE DEF x, i
<1>5. /\ Attempts'
      /\ items' \in [Items -> Item \cup {None}]
      /\ \A j \in pendingItems' : ~items'[j].executed
  <2>1. x.status # "pending"
    BY <1>0, <1>2
  <2> QED
    BY <1>0, <1>1, <1>2, <1>3, <1>4, <2>1, StatusStep DEF history
<1>6. Work'
  BY <1>0, <1>1, <1>5 DEF Work, history
<1> QED
  BY <1>5, <1>6

\* The handler is cut off.
LEMMA InterruptStep == ASSUME Inv, Interrupt PROVE Work' /\ Attempts'
<1>0. Work /\ Attempts
  BY DEF Inv
<1>1. /\ job' = Idle /\ UNCHANGED <<items, runs, effective>>
      /\ abandoned' = IF job.op = "item" THEN abandoned \cup {job.item} ELSE abandoned
      /\ interrupted' = IF job.op = "run" /\ runsOf(job.key) = {}
                        THEN interrupted \cup {job.key} ELSE interrupted
  BY DEF Interrupt
<1>2. abandoned' \subseteq Items /\ interrupted' \subseteq SUBSET Candidate
  BY <1>0, <1>1, JobKinds DEF Work, RunJob, ItemJob
<1>3. /\ pendingItems' = pendingItems /\ items' = items /\ recorded' = recorded
      /\ interrupted \subseteq interrupted' /\ job'.op # "run"
  BY <1>1 DEF pendingItems, recorded, Idle
<1>4. job.op = "run" => job.key \in recorded \/ job.key \in interrupted'
  BY <1>1 DEF recorded, runsOf
<1>5. Work'
  BY <1>0, <1>1, <1>2, <1>3 DEF Work
<1>6. KeysKnown' /\ NoDuplicatePending'
  BY <1>0, <1>3, <1>4 DEF Attempts, KeysKnown, known, NoDuplicatePending
<1> QED
  BY <1>3, <1>5, <1>6 DEF Attempts, AttemptReplaced

----------------------------------------------------------------------------
(* The invariant                                                           *)

LEMMA InitInv == ASSUME Init PROVE Inv
<1>0. PICK start \in Starts :
        /\ rows = [m \in Memories |-> [active |-> TRUE, conflict |-> m \in start.conflict,
                                       facts |-> FirstText[m]]]
        /\ claims = [c \in Claims |->
                        [status |-> IF start.source[c] = None THEN "absent" ELSE "active",
                         row |-> start.source[c]]]
  BY DEF Init
<1>1. rows \in [Memories -> Row \cup {None}]
  <2>1. \A m \in Memories : [active |-> TRUE, conflict |-> m \in start.conflict,
                             facts |-> FirstText[m]] \in Row
    <3>1. \A m \in Memories : (m \in start.conflict) \in BOOLEAN /\ FirstText[m] \in SUBSET Facts
      BY ConsolidationAssumption
    <3> QED
      BY <3>1 DEF Row
  <2> QED
    BY <1>0, <2>1
<1>2. claims \in [Claims -> Claim]
  BY <1>0, ConsolidationAssumption DEF Claim, ClaimStatus
<1>3. Data
  BY <1>1, <1>2 DEF Init, Data
<1>4. /\ items = [i \in Items |-> None] /\ runs = {} /\ job = Idle
      /\ effective = {} /\ abandoned = {} /\ interrupted = {}
  BY DEF Init
<1>5. Work
  BY <1>4 DEF Work, pendingItems
<1>6. Attempts
  BY <1>4 DEF Attempts, KeysKnown, AttemptReplaced, NoDuplicatePending, Idle
<1>7. Bounds
  BY ConsolidationAssumption DEF Init, Bounds
<1> QED
  BY <1>3, <1>5, <1>6, <1>7 DEF Inv

\* The bounds are guards.
LEMMA BoundsStep == ASSUME Inv, [Next]_vars PROVE Bounds'
<1>1. /\ writes' = writes \/ (writes < MaxWrites /\ writes' = writes + 1)
      /\ calls' = calls \/ (calls < MaxCalls /\ calls' = calls + 1)
  BY DEF Next, vars, data, history, call, write, RunBegin, Review, Retry, Execute, RunStep,
     ItemStep, AutoMark, ExecutionFails, ExpirePending, SubmitCandidate, SubmissionFails, RecordRun,
     PerformMerge, PerformReview,
     PerformExpiry, ExpiryDone, Conclude, Interrupt, Rewrite, ArchiveElsewhere, DeleteElsewhere,
     Extract, Resolve
<1> QED
  BY <1>1, ConsolidationAssumption DEF Inv, Bounds

\* Steps that leave a part of the state alone keep the part of the invariant
\* that is about it.
LEMMA DataKept == ASSUME Inv, UNCHANGED data PROVE Data'
BY DEF Inv, Data, data

LEMMA WorkKept ==
    ASSUME Inv, UNCHANGED <<items, runs, job, history>>
    PROVE  Work' /\ Attempts'
BY DEF Inv, Work, Attempts, KeysKnown, known, recorded, AttemptReplaced, replaced,
   NoDuplicatePending, pendingItems, history

\* The other services do not touch items, runs or the handler.
LEMMA WriteKeeps == ASSUME write PROVE UNCHANGED <<items, runs, job, history>>
BY DEF write

LEMMA NextInv == ASSUME Inv, [Next]_vars PROVE Inv'
<1>1. Bounds'
  BY BoundsStep
<1>2. ASSUME NEW s \in Settings, NEW lapsed, RunBegin(s.detectors, s.alike, s.autoExecute, lapsed)
      PROVE  Data' /\ Work' /\ Attempts'
  BY <1>2, RunBeginStep, DataKept DEF RunBegin
<1>3. ASSUME NEW i \in Items, NEW decision \in {"approved", "rejected"},
             NEW autoExecute \in BOOLEAN,
             Review(i, decision, autoExecute) \/ Retry(i) \/ Execute(i)
      PROVE  Data' /\ Work' /\ Attempts'
  <2>1. items[i] # None /\ job = Idle /\ UNCHANGED data /\ UNCHANGED <<runs, abandoned, interrupted>>
    BY <1>3 DEF Review, Retry, Execute, call
  <2>2. \/ executing(i)
        \/ items' = [items EXCEPT ![i].status = decision] /\ UNCHANGED <<effective, job>>
    BY <1>3 DEF Review, Retry, Execute
  <2> QED
    BY <2>1, <2>2, RequestStep, DataKept
<1>4. ASSUME RunStep PROVE Data' /\ Work' /\ Attempts'
  <2>1. CASE AutoMark
    BY <2>1, AutoMarkStep, ClaimData
  <2>2. CASE ExpirePending
    BY <2>2, ExpireStep, DataKept DEF ExpirePending
  <2>3. CASE SubmitCandidate
    BY <2>3, SubmitStep, DataKept DEF SubmitCandidate
  <2>4. CASE RecordRun
    BY <2>4, RecordStep, DataKept DEF RecordRun
  <2>5. CASE ExecutionFails \/ SubmissionFails
    BY <2>5, FailureStep, DataKept DEF ExecutionFails, SubmissionFails
  <2> QED
    BY <1>4, <2>1, <2>2, <2>3, <2>4, <2>5 DEF RunStep
<1>5. ASSUME ItemStep PROVE Data' /\ Work' /\ Attempts'
  <2>1. CASE PerformMerge
    BY <2>1, PerformStep, MergeData
  <2>2. CASE PerformReview
    BY <2>2, PerformStep, ReviewData
  <2>3. CASE PerformExpiry
    BY <2>3, PerformStep, ClaimData
  <2>4. CASE ExpiryDone
    BY <2>4, PerformStep, DataKept DEF ExpiryDone
  <2>5. CASE Conclude
    BY <2>5, ConcludeStep, DataKept DEF Conclude
  <2> QED
    BY <1>5, <2>1, <2>2, <2>3, <2>4, <2>5 DEF ItemStep
<1>6. CASE Interrupt
  BY <1>1, <1>6, InterruptStep, DataKept DEF Interrupt, Inv
<1>7. ASSUME elsewhere PROVE Data' /\ Work' /\ Attempts'
  <2>1. write
    BY <1>7 DEF elsewhere, Rewrite, ArchiveElsewhere, DeleteElsewhere, Extract, Resolve
  <2> QED
    BY <1>7, <2>1, WriteData, WriteKeeps, WorkKept
<1>8. CASE UNCHANGED vars
  BY <1>1, <1>8, DataKept, WorkKept DEF vars, Inv
<1> QED
  BY <1>1, <1>2, <1>3, <1>4, <1>5, <1>6, <1>7, <1>8 DEF Next, Inv, elsewhere

LEMMA InvHolds == Spec => []Inv
<1>1. Init => Inv
  BY InitInv
<1>2. Inv /\ [Next]_vars => Inv'
  BY NextInv
<1> QED
  BY <1>1, <1>2, PTL DEF Spec

----------------------------------------------------------------------------
(* What a reader should know of                                            *)

\* Type correctness: besides the types, an execution that runs is that of an
\* item marked approved_pending_execution (executeApproved, retry, review).
THEOREM TypeCorrect == Spec => []TypeOK
<1>1. Inv => TypeOK
  <2> SUFFICES ASSUME Inv PROVE TypeOK
    OBVIOUS
  <2>1. Data /\ Work /\ Bounds
    BY DEF Inv
  <2>2. \/ job = Idle
        \/ job \in RunJob /\ \A i \in job.expire : items[i] # None
        \/ /\ job \in ItemJob /\ items[job.item] # None
           /\ items[job.item].status = "approved_pending_execution"
    BY <2>1 DEF Work, pendingItems
  <2> QED
    BY <2>1, <2>2 DEF TypeOK, Data, Work, Bounds, RunJob, ItemJob
<1> QED
  BY <1>1, InvHolds, PTL

\* No step of a run or of an approval that is executed, however late, leaves an
\* active claim with a row that is not (executeMerge, archiveMemory).
THEOREM ClaimsTakenAlong == Spec => NoClaimLeftBehind
<1> DEFINE A == job # Idle => stray' \subseteq stray
<1>1. ASSUME Inv, [Next]_vars PROVE A
  <2>1. UNCHANGED <<rows, claims>> => A
    BY DEF stray, claimsIn, activeRows
  <2>2. AutoMark \/ PerformMerge \/ PerformReview \/ PerformExpiry => A
    BY <1>1, MergeData, ReviewData, ClaimData
  <2>3. job # Idle => ~call /\ ~write
    BY DEF call, write
  <2>4. Next => \/ call \/ write \/ UNCHANGED <<rows, claims>>
                \/ AutoMark \/ PerformMerge \/ PerformReview \/ PerformExpiry
    BY DEF Next, RunBegin, Review, Retry, Execute, Rewrite, ArchiveElsewhere,
           DeleteElsewhere, Extract, Resolve, RunStep, ItemStep, ExecutionFails, ExpirePending,
           SubmitCandidate, SubmissionFails, RecordRun, ExpiryDone, Conclude, Interrupt, data
  <2>5. ~A => job # Idle
    OBVIOUS
  <2>6. UNCHANGED vars => UNCHANGED <<rows, claims>>
    BY DEF vars, data
  <2> HIDE DEF A
  <2> QED
    BY <1>1, <2>1, <2>2, <2>3, <2>4, <2>5, <2>6
<1>2. Inv /\ [Next]_vars => [A]_vars
  BY <1>1
<1>3. Spec => [][A]_vars
  BY <1>2, InvHolds, PTL DEF Spec
<1> QED
  BY <1>3 DEF NoClaimLeftBehind

\* A candidate of a run is pending twice only if a first attempt of the run was
\* cut off between its submission and its record (ConsolidationScheduler.run).
THEOREM NoDuplicate == Spec => []NoDuplicatePending
<1>1. Inv => NoDuplicatePending
  BY DEF Inv, Attempts
<1> QED
  BY <1>1, InvHolds, PTL

\* No fact leaves the active rows by a run, a merge or an expiry that was
\* approved, however old the approval is (executeMerge, executeMarkExpired).
THEOREM FactsKept == Spec => NoFactLost
<1> DEFINE A == job.op = "run" \/ (job.op = "item" /\ candidate.action # "review_conflict")
                => activeFacts \subseteq activeFacts'
<1>1. UNCHANGED rows => A
  BY DEF activeFacts, activeRows
<1>2. ASSUME Inv, PerformMerge PROVE A
  <2>1. CASE ~mergeable
    <3>1. UNCHANGED rows
      BY <1>2, <2>1 DEF PerformMerge, refused, data
    <3> QED
      BY <1>1, <3>1
  <2>2. ASSUME mergeable, NEW kept \in candidate.rows,
               rows' = [archived(rows, candidate.rows \ {kept}) EXCEPT
                           ![kept].facts = UNION {rows[m].facts : m \in candidate.rows}]
        PROVE  activeFacts \subseteq activeFacts'
    <3>1. /\ kept \in Memories
          /\ rows'[kept] # None /\ rows'[kept].active
          /\ rows'[kept].facts = UNION {rows[m].facts : m \in candidate.rows}
          /\ \A m \in Memories \ candidate.rows : rows'[m] = rows[m]
      BY <1>2, <2>2, MergedRows DEF Inv
    <3>2. ASSUME NEW m \in activeRows, NEW f \in rows[m].facts
          PROVE  \E n \in activeRows' : f \in rows'[n].facts
      <4>1. CASE m \in candidate.rows
        BY <3>1, <4>1 DEF activeRows
      <4>2. CASE m \notin candidate.rows
        BY <3>1, <4>2 DEF activeRows
      <4> QED
        BY <4>1, <4>2
    <3> QED
      BY <3>2 DEF activeFacts
  <2> HIDE DEF A
  <2>3. activeFacts \subseteq activeFacts' => A
    BY DEF A
  <2> QED
    BY <1>2, <2>1, <2>2, <2>3 DEF PerformMerge
<1>3. ASSUME Inv, [Next]_vars PROVE A
  <2>1. job = Idle => A
    BY DEF Idle
  <2>2. job # Idle => /\ ~call /\ ~write
    BY DEF call, write
  <2>3. RunStep => UNCHANGED rows
    BY DEF RunStep, AutoMark, ExecutionFails, ExpirePending, SubmitCandidate,
           SubmissionFails, RecordRun, data
  <2>4. ItemStep => PerformMerge \/ candidate.action = "review_conflict" \/ UNCHANGED rows
    BY DEF ItemStep, PerformReview, performing, PerformExpiry, refused, ExpiryDone,
           Conclude, data
  <2>5. Interrupt \/ UNCHANGED vars => UNCHANGED rows
    BY DEF Interrupt, vars, data
  <2>6. Next => call \/ write \/ RunStep \/ (job.op = "item" /\ ItemStep) \/ Interrupt
    BY DEF Next, RunBegin, Review, Retry, Execute, Rewrite, ArchiveElsewhere,
           DeleteElsewhere, Extract, Resolve
  <2>7. job.op = "item" => job.op # "run"
    OBVIOUS
  <2> HIDE DEF A
  <2>8. candidate.action = "review_conflict" /\ job.op = "item" => A
    BY <2>7 DEF A
  <2> QED
    BY <1>1, <1>2, <1>3, <2>1, <2>2, <2>3, <2>4, <2>5, <2>6, <2>8
<1>4. Inv /\ [Next]_vars => [A]_vars
  BY <1>3
<1>5. Spec => [][A]_vars
  BY <1>4, InvHolds, PTL DEF Spec
<1> QED
  BY <1>5 DEF NoFactLost

----------------------------------------------------------------------------
(* Refinement: a step of Consolidation is a step of the queue, or none.    *)

\* Writing one item writes what is promised of it.
LEMMA PromiseWritten ==
    ASSUME Work, NEW i \in Items, NEW x \in Item, items' = [items EXCEPT ![i] = x]
    PROVE  queueStatus' = [queueStatus EXCEPT ![i] = promised(x)]
<1>1. items \in [Items -> Item \cup {None}]
  BY DEF Work
<1>2. queueStatus' = [j \in Items |-> promised(items'[j])]
  BY DEF queueStatus, promised
<1>3. \A j \in Items : items'[j] = IF j = i THEN x ELSE items[j]
  BY <1>1
<1>4. \A j \in Items : promised(items'[j]) = IF j = i THEN promised(x) ELSE promised(items[j])
  BY <1>3
<1> QED
  BY <1>2, <1>4 DEF queueStatus

\* Leaving the items alone leaves the promises alone.
LEMMA PromiseKept == ASSUME UNCHANGED items PROVE UNCHANGED queueStatus
BY DEF queueStatus, promised

LEMMA PromiseOf == ASSUME NEW i \in Items PROVE queueStatus[i] = promised(items[i])
BY DEF queueStatus

\* A new item is submitted; one that is pending is decided.
LEMMA SubmitQueue ==
    ASSUME Inv, SubmitCandidate
    PROVE  \E i \in Items : Queue!Submit(i)
<1> DEFINE i == oneOf(freeItems)
           x == newItem(oneOf(job.submit))
<1>0. Work /\ job \in RunJob /\ job.submit # {} /\ freeItems # {}
  BY JobKinds DEF Inv, SubmitCandidate
<1>1. i \in Items /\ items[i] = None /\ oneOf(job.submit) \in job.submit
  BY <1>0, OneOfIn DEF freeItems
<1>2. items' = [items EXCEPT ![i] = x] /\ UNCHANGED effective
  BY DEF SubmitCandidate, history
<1>3. x \in Item /\ x.status = "pending"
  BY <1>0, <1>1 DEF newItem, Item, ItemStatus, RunJob
<1> HIDE DEF i, x
<1>4. queueStatus' = [queueStatus EXCEPT ![i] = "pending"] /\ queueStatus[i] = "absent"
  <2>1. promised(x) = "pending" /\ promised(None) = "absent"
    BY <1>3, NoneAssumption DEF promised
  <2>2. queueStatus' = [queueStatus EXCEPT ![i] = promised(x)]
    BY <1>0, <1>1, <1>2, <1>3, PromiseWritten
  <2>3. queueStatus[i] = promised(items[i])
    BY <1>1, PromiseOf
  <2> QED
    BY <1>1, <2>1, <2>2, <2>3
<1> QED
  BY <1>1, <1>2, <1>4 DEF Queue!Submit, Queue!move

\* What is pending, and so was never executed, is decided.
LEMMA DecideQueue ==
    ASSUME Inv, NEW i \in pendingItems, NEW decision \in {"approved", "rejected", "expired"},
           items' = [items EXCEPT ![i].status = decision], UNCHANGED effective
    PROVE  Queue!Decide(i)
<1> DEFINE x == [items[i] EXCEPT !.status = decision]
<1>0. Work /\ i \in Items /\ items[i] # None /\ items[i].status = "pending" /\ ~items[i].executed
  BY DEF Inv, Work, pendingItems
<1>1. decision \in ItemStatus
  BY DEF ItemStatus
<1>2. x \in Item /\ x.status = decision /\ x.executed = items[i].executed
      /\ items' = [items EXCEPT ![i] = x]
  BY <1>0, <1>1, StatusWritten
<1> HIDE DEF x
<1>3. promised(x) = decision /\ promised(items[i]) = "pending"
  BY <1>0, <1>2, NoneAssumption DEF promised
<1>4. queueStatus' = [queueStatus EXCEPT ![i] = promised(x)]
  BY <1>0, <1>2, PromiseWritten
<1>5. queueStatus[i] = promised(items[i])
  BY <1>0, PromiseOf
<1> QED
  BY <1>3, <1>4, <1>5 DEF Queue!Decide, Queue!move

\* An execution starts from what may be executed.
LEMMA StartQueue ==
    ASSUME Inv, NEW i \in Items, items[i] # None, executing(i),
           items[i].status \in {"pending", "approved", "execution_failed"}
    PROVE  Queue!Start(i)
<1> DEFINE x == [items[i] EXCEPT !.status = "approved_pending_execution"]
<1>0. Work /\ "approved_pending_execution" \in ItemStatus
  BY DEF Inv, ItemStatus
<1>1. x \in Item /\ x.status = "approved_pending_execution" /\ items' = [items EXCEPT ![i] = x]
  BY <1>0, StatusWritten DEF executing
<1> HIDE DEF x
<1>2. promised(x) = "executing"
      /\ promised(items[i]) \in {"pending", "approved", "failed", "executed"}
  BY <1>1, NoneAssumption DEF promised
<1>3. queueStatus' = [queueStatus EXCEPT ![i] = "executing"]
      /\ queueStatus[i] \in {"pending", "approved", "failed", "executed"}
  BY <1>0, <1>1, <1>2, PromiseWritten, PromiseOf
<1> QED
  BY <1>3 DEF Queue!Start, Queue!move, executing

\* What is executed takes effect, or nothing happens to it.
LEMMA PerformQueue ==
    ASSUME Inv, PerformMerge \/ PerformReview \/ PerformExpiry \/ ExpiryDone
    PROVE  Queue!TakeEffect(job.item) \/ UNCHANGED Queue!vars
<1>0. job.item \in Items /\ items[job.item] # None
      /\ items[job.item].status = "approved_pending_execution"
  BY JobKinds DEF Inv, PerformMerge, PerformReview, PerformExpiry, ExpiryDone, performing, ItemJob
<1>1. UNCHANGED queueStatus
  BY PromiseKept DEF PerformMerge, PerformReview, PerformExpiry, ExpiryDone
<1>2. queueStatus[job.item] = "executing"
  BY <1>0, PromiseOf DEF promised
<1>3. effective' = effective \cup {job.item} \/ UNCHANGED effective
  BY DEF PerformMerge, PerformReview, PerformExpiry, ExpiryDone, tookEffect, refused
<1> QED
  BY <1>1, <1>2, <1>3 DEF Queue!TakeEffect, Queue!vars

\* The outcome is what has happened.
LEMMA ConcludeQueue ==
    ASSUME Inv, Conclude
    PROVE  Queue!Finish(job.item) \/ Queue!Fail(job.item)
<1> DEFINE i == job.item
           x == [items[i] EXCEPT !.status = job.outcome,
                                 !.executed = items[i].executed \/ job.outcome = "approved"]
<1>0. Work /\ job \in ItemJob /\ i \in Items /\ items[i] # None /\ items[i] \in Item
      /\ items[i].status = "approved_pending_execution"
      /\ job.outcome \in {"approved", "execution_failed"}
      /\ (job.outcome = "approved" => i \in effective)
  BY JobKinds DEF Inv, Conclude, ItemJob
<1>1. items' = [items EXCEPT ![i] = x] /\ UNCHANGED effective
  BY <1>0 DEF Conclude, Work, history
<1>2. x \in Item /\ x.status = job.outcome
  <2>1. (items[i].executed \/ job.outcome = "approved") \in BOOLEAN
    OBVIOUS
  <2>2. job.outcome \in ItemStatus
    BY <1>0 DEF ItemStatus
  <2> QED
    BY <1>0, <2>1, <2>2 DEF Item
<1>3. job.outcome = "approved" => x.executed
  BY <1>0 DEF Item
<1>4. queueStatus[i] = "executing"
  BY <1>0, PromiseOf DEF promised
<1> HIDE DEF x
<1>5. queueStatus' = [queueStatus EXCEPT ![i] = promised(x)]
  BY <1>0, <1>1, <1>2, PromiseWritten
<1>6. CASE job.outcome = "approved"
  <2>1. promised(x) = "executed"
    BY <1>2, <1>3, <1>6, NoneAssumption DEF promised
  <2> QED
    BY <1>0, <1>1, <1>4, <1>5, <1>6, <2>1 DEF Queue!Finish, Queue!move
<1>7. CASE job.outcome = "execution_failed"
  <2>1. promised(x) = "failed"
    BY <1>2, <1>7, NoneAssumption DEF promised
  <2> QED
    BY <1>1, <1>4, <1>5, <2>1 DEF Queue!Fail, Queue!move
<1> QED
  BY <1>0, <1>6, <1>7

\* The queue stutters when items and effects are left alone.
LEMMA QueueStutters == ASSUME UNCHANGED <<items, effective>> PROVE UNCHANGED Queue!vars
BY PromiseKept DEF Queue!vars

LEMMA QueueStep == ASSUME Inv, [Next]_vars PROVE [Queue!Next]_(Queue!vars)
<1>1. ASSUME NEW i \in Items, NEW decision \in {"approved", "rejected"},
             NEW autoExecute \in BOOLEAN, Review(i, decision, autoExecute)
      PROVE  Queue!Next
  <2>1. items[i] # None /\ items[i].status = "pending" /\ i \in pendingItems
    BY <1>1 DEF Review, pendingItems
  <2>2. CASE executing(i)
    BY <2>1, <2>2, StartQueue DEF Queue!Next
  <2>3. CASE items' = [items EXCEPT ![i].status = decision] /\ UNCHANGED effective
    BY <2>1, <2>3, DecideQueue DEF Queue!Next
  <2> QED
    BY <1>1, <2>2, <2>3 DEF Review
<1>2. ASSUME NEW i \in Items, Retry(i) \/ Execute(i) PROVE Queue!Next
  BY <1>2, StartQueue DEF Retry, Execute, Queue!Next
<1>3. ASSUME job.op = "run", ExpirePending PROVE Queue!Next
  <2>1. oneOf(job.expire) \in pendingItems
    BY <1>3, JobKinds, OneOfIn DEF Inv, ExpirePending
  <2>2. Queue!Decide(oneOf(job.expire))
    BY <1>3, <2>1, DecideQueue DEF ExpirePending, history
  <2> QED
    BY <2>1, <2>2 DEF Queue!Next, pendingItems
<1>4. ASSUME SubmitCandidate PROVE Queue!Next
  BY <1>4, SubmitQueue DEF Queue!Next
<1>5. ASSUME ItemStep PROVE Queue!Next \/ UNCHANGED Queue!vars
  <2>1. job.item \in Items
    BY <1>5, JobKinds DEF Inv, ItemStep, PerformMerge, PerformReview, PerformExpiry, ExpiryDone,
       Conclude, performing, ItemJob
  <2> QED
    BY <1>5, <2>1, PerformQueue, ConcludeQueue DEF ItemStep, Queue!Next
<1>6. ASSUME \/ \E s \in Settings, lapsed \in {{}, Lapsed} :
                   RunBegin(s.detectors, s.alike, s.autoExecute, lapsed)
             \/ AutoMark \/ ExecutionFails \/ SubmissionFails \/ RecordRun \/ Interrupt
             \/ UNCHANGED vars
      PROVE  UNCHANGED Queue!vars
  BY <1>6, QueueStutters DEF RunBegin, AutoMark, ExecutionFails, SubmissionFails, RecordRun,
     Interrupt, vars, history
<1>7. ASSUME elsewhere PROVE UNCHANGED Queue!vars
  BY <1>7, QueueStutters DEF elsewhere, Rewrite, ArchiveElsewhere, DeleteElsewhere, Extract,
     Resolve, write, history
<1> QED
  BY <1>1, <1>2, <1>3, <1>4, <1>5, <1>6, <1>7 DEF Next, RunStep, elsewhere

\* Consolidation implements the approval queue: nothing takes effect without an
\* approval, decisions are final, and what counts as executed has taken effect
\* (ConsolidationApprovalService, expirePendingForRunPrefix).
THEOREM QueueRefined == Spec => QueueImplemented
<1>1. Init => Queue!Init
  BY DEF Init, Queue!Init, queueStatus, promised
<1>2. Inv /\ [Next]_vars => [Queue!Next]_(Queue!vars)
  BY QueueStep
<1> QED
  BY <1>1, <1>2, InvHolds, PTL DEF Spec, QueueImplemented, Queue!Spec

\* A step of the queue keeps what the queue promises of its items.
LEMMA PromisesKept ==
    ASSUME Queue!OnlyApprovedTakesEffect, [Queue!Next]_(Queue!vars)
    PROVE  /\ Queue!OnlyApprovedTakesEffect'
           /\ \A i \in Items :
                queueStatus[i] \in {"rejected", "expired"} => queueStatus'[i] = queueStatus[i]
<1> DEFINE safe(i) == /\ i \in effective => queueStatus[i] \in {"executing", "failed", "executed"}
                      /\ queueStatus[i] = "executed" => i \in effective
           final(i) == queueStatus[i] \in {"rejected", "expired"} =>
                           queueStatus'[i] = queueStatus[i]
<1>1. queueStatus \in [Items -> {queueStatus[i] : i \in Items}]
  BY DEF queueStatus
<1>2. ASSUME NEW j \in Items,
             \/ Queue!Submit(j) \/ Queue!Decide(j) \/ Queue!Start(j)
             \/ Queue!TakeEffect(j) \/ Queue!Finish(j) \/ Queue!Fail(j),
             NEW i \in Items
      PROVE  safe(i)' /\ final(i)
  <2>1. safe(i) /\ safe(j)
    BY DEF Queue!OnlyApprovedTakesEffect
  <2>2. CASE i # j
    <3>1. queueStatus'[i] = queueStatus[i] /\ (i \in effective' <=> i \in effective)
      BY <1>1, <1>2, <2>2 DEF Queue!Submit, Queue!Decide, Queue!Start, Queue!TakeEffect,
         Queue!Finish, Queue!Fail, Queue!move
    <3> QED
      BY <2>1, <3>1
  <2>3. CASE i = j
    BY <1>1, <1>2, <2>1, <2>3 DEF Queue!Submit, Queue!Decide, Queue!Start, Queue!TakeEffect,
       Queue!Finish, Queue!Fail, Queue!move
  <2> QED
    BY <2>2, <2>3
<1>3. CASE UNCHANGED Queue!vars
  BY <1>3 DEF Queue!vars, Queue!OnlyApprovedTakesEffect
<1>4. CASE Queue!Next
  BY <1>2, <1>4 DEF Queue!Next, Queue!OnlyApprovedTakesEffect
<1> QED
  BY <1>3, <1>4

\* No item of the consolidation takes effect that nobody approved, and none counts
\* as executed that has not (ConsolidationApprovalService.review, execute, retry).
THEOREM OnlyApprovedActs == Spec => []Queue!OnlyApprovedTakesEffect
<1>1. Queue!Init => Queue!OnlyApprovedTakesEffect
  BY DEF Queue!Init, Queue!OnlyApprovedTakesEffect
<1>2. Queue!OnlyApprovedTakesEffect /\ [Queue!Next]_(Queue!vars)
        => Queue!OnlyApprovedTakesEffect'
  BY PromisesKept
<1> QED
  BY <1>1, <1>2, QueueRefined, PTL DEF QueueImplemented, Queue!Spec

\* What a reviewer rejected or a run let expire stays so, whatever is executed,
\* retried, interrupted or submitted later.
THEOREM RefusalsAreFinal == Spec => Queue!DecisionsAreFinal
<1> DEFINE kept == \A i \in Items :
             queueStatus[i] \in {"rejected", "expired"} => queueStatus'[i] = queueStatus[i]
<1>1. Queue!OnlyApprovedTakesEffect /\ [Queue!Next]_(Queue!vars) => [kept]_(Queue!vars)
  BY PromisesKept
<1> HIDE DEF kept
<1>2. Spec => [][kept]_(Queue!vars)
  BY <1>1, OnlyApprovedActs, QueueRefined, PTL DEF QueueImplemented, Queue!Spec
<1> QED
  BY <1>2 DEF kept, Queue!DecisionsAreFinal
=============================================================================
