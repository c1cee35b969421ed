-------------------------- MODULE FactClaimsProofs --------------------------
(***************************************************************************)
(* Proofs about FactClaims, for any rows, claims, facts and texts: what    *)
(* holds of claims, and which compactions keep every text.                 *)
(***************************************************************************)
EXTENDS FactClaims, TLAPS

ClaimTable == [ClaimIds -> Claim \cup {None}]

\* What the system may do to a table of claims: doubt active ones.
Doubts(table, after) ==
    /\ after \in ClaimTable
    /\ \A i \in ClaimIds :
        /\ table[i] = None => after[i] = None
        /\ table[i] # None =>
            /\ after[i] # None
            /\ after[i].fact = table[i].fact
            /\ after[i].to = table[i].to
            /\ \/ after[i].status = table[i].status
               \/ /\ table[i].status = "active"
                  /\ after[i].status \in {"suspected_expired", "conflict"}

\* Claims stay with the row and the archive they come from.
SameSource(table, after) ==
    \A i \in ClaimIds : table[i] # None =>
        after[i].memory = table[i].memory /\ after[i].evidenced = table[i].evidenced

----------------------------------------------------------------------------
(* Operators. *)

\* A change of status leaves the rest of a claim alone, and its end as well
\* unless it becomes active or expired.
LEMMA StatusChange ==
    ASSUME NEW c \in Claim, NEW status \in Statuses
    PROVE  /\ withStatus(c, status) \in Claim
           /\ withStatus(c, status).status = status
           /\ withStatus(c, status).fact = c.fact
           /\ withStatus(c, status).memory = c.memory
           /\ withStatus(c, status).evidenced = c.evidenced
           /\ status \notin {"active", "expired"} => withStatus(c, status).to = c.to
<1> DEFINE end == CASE status = "expired" /\ c.to = Open -> Now
                    [] status = "active" -> Open
                    [] OTHER -> c.to
<1>1. end \in Ends /\ (status \notin {"active", "expired"} => end = c.to)
  BY FactAssumption DEF Ends, Claim
<1>2. withStatus(c, status) = [c EXCEPT !.status = status, !.to = end]
  BY DEF withStatus
<1> HIDE DEF end
<1> QED  BY <1>1, <1>2 DEF Claim

\* marked changes the claims it is told to and no other.
LEMMA MarkedClaims ==
    ASSUME NEW table \in ClaimTable, NEW which \in SUBSET ClaimIds, NEW status \in Statuses,
           \A i \in which : table[i] # None
    PROVE  /\ marked(table, which, status) \in ClaimTable
           /\ \A i \in which : marked(table, which, status)[i] = withStatus(table[i], status)
           /\ \A i \in ClaimIds \ which : marked(table, which, status)[i] = table[i]
<1>1. \A i \in which : table[i] \in Claim /\ withStatus(table[i], status) \in Claim
  BY StatusChange DEF ClaimTable
<1> QED  BY <1>1 DEF marked, ClaimTable

\* Doubting active claims.
LEMMA MarkedDoubts ==
    ASSUME NEW table \in ClaimTable, NEW which \in SUBSET ClaimIds,
           NEW status \in {"suspected_expired", "conflict"},
           \A i \in which : table[i] # None /\ table[i].status = "active"
    PROVE  /\ Doubts(table, marked(table, which, status))
           /\ SameSource(table, marked(table, which, status))
           /\ \A i \in which : marked(table, which, status)[i].status = status
<1> DEFINE after == marked(table, which, status)
<1>0. status \in Statuses  BY DEF Statuses
<1>1. /\ after \in ClaimTable
      /\ \A i \in which : after[i] = withStatus(table[i], status)
      /\ \A i \in ClaimIds \ which : after[i] = table[i]
  BY <1>0, MarkedClaims
<1>2. \A i \in which : /\ table[i] \in Claim
                       /\ after[i] \in Claim
                       /\ after[i].status = status
                       /\ after[i].fact = table[i].fact
                       /\ after[i].to = table[i].to
                       /\ after[i].memory = table[i].memory
                       /\ after[i].evidenced = table[i].evidenced
  BY <1>0, <1>1, StatusChange DEF ClaimTable
<1> HIDE DEF after
<1>3. Doubts(table, after)  BY <1>1, <1>2, NullAssumption DEF Doubts
<1>4. SameSource(table, after)  BY <1>1, <1>2 DEF SameSource
<1> QED  BY <1>2, <1>3, <1>4 DEF after

LEMMA DoubtsTwice ==
    ASSUME NEW t, NEW u, NEW v, Doubts(t, u), Doubts(u, v)
    PROVE  Doubts(t, v)
BY DEF Doubts

\* Archived rows: no claim of theirs stays active.
LEMMA ArchivedClaims ==
    ASSUME NEW table \in ClaimTable, NEW rows \in SUBSET Memories
    PROVE  LET after == archivedClaims(table, rows) IN
           /\ Doubts(table, after)
           /\ SameSource(table, after)
           /\ \A i \in ClaimIds : after[i] # None /\ after[i].memory \in rows
                                  => after[i].status # "active"
<1> DEFINE which == activeIn(table, UNION {claimsOf(table, m) : m \in rows})
           after == marked(table, which, "suspected_expired")
<1>1. /\ which \in SUBSET ClaimIds
      /\ \A i \in which : table[i] # None /\ table[i].status = "active"
      /\ \A i \in ClaimIds : table[i] # None /\ table[i].memory \in rows
                             /\ table[i].status = "active" => i \in which
  BY DEF activeIn, claimsOf
<1> HIDE DEF which
<1>2. /\ Doubts(table, after)
      /\ SameSource(table, after)
      /\ \A i \in which : after[i].status = "suspected_expired"
  BY <1>1, MarkedDoubts
<1> HIDE DEF after
<1>3. \A i \in ClaimIds : after[i] # None /\ after[i].memory \in rows => after[i].status # "active"
  BY <1>1, <1>2 DEF Doubts, SameSource
<1>4. archivedClaims(table, rows) = after  BY DEF archivedClaims, after, which
<1> QED  BY <1>2, <1>3, <1>4

\* A merge: the claims of the merged row move to the kept one.
LEMMA RelinkedClaims ==
    ASSUME NEW table \in ClaimTable, NEW kept \in Memories, NEW merged \in Memories
    PROVE  LET after == relinked(table, kept, merged) IN
           /\ Doubts(table, after)
           /\ \A i \in ClaimIds : table[i] # None =>
                /\ after[i].evidenced = table[i].evidenced
                /\ after[i].memory = IF table[i].memory = merged THEN kept ELSE table[i].memory
<1> DEFINE moved == claimsOf(table, merged)
           duplicate(i) == \E j \in activeIn(table, claimsOf(table, kept) \cup moved) :
                              /\ j \in moved => j < i
                              /\ identity(table[j]) = identity(table[i])
           again == {i \in activeIn(table, moved) : duplicate(i)}
           doubted == marked(table, again, "suspected_expired")
           after == [i \in ClaimIds |-> IF i \in moved THEN [doubted[i] EXCEPT !.memory = kept]
                                        ELSE table[i]]
<1>0. relinked(table, kept, merged) = after  BY DEF relinked
<1>1. /\ moved \in SUBSET ClaimIds
      /\ \A i \in ClaimIds : i \in moved <=> table[i] # None /\ table[i].memory = merged
  BY DEF claimsOf
<1>2. /\ again \in SUBSET ClaimIds
      /\ \A i \in again : table[i] # None /\ table[i].status = "active"
  BY DEF activeIn, claimsOf
<1> HIDE DEF moved, again
<1>3. Doubts(table, doubted) /\ SameSource(table, doubted)
  BY <1>2, MarkedDoubts
<1> HIDE DEF doubted
<1>4. \A i \in moved : doubted[i] \in Claim
  BY <1>1, <1>3 DEF Doubts, ClaimTable
<1>5. \A i \in moved : /\ after[i] \in Claim
                       /\ after[i].memory = kept
                       /\ after[i].fact = doubted[i].fact
                       /\ after[i].to = doubted[i].to
                       /\ after[i].status = doubted[i].status
                       /\ after[i].evidenced = doubted[i].evidenced
  BY <1>1, <1>4 DEF Claim
<1>6. \A i \in ClaimIds \ moved : after[i] = table[i]
  OBVIOUS
<1>7. after \in ClaimTable
  <2>1. \A i \in ClaimIds : after[i] \in Claim \cup {None}
    BY <1>5, <1>6 DEF ClaimTable
  <2> QED  BY <2>1 DEF ClaimTable
<1> HIDE DEF after
<1>8. Doubts(table, after)
  BY <1>1, <1>3, <1>5, <1>6, <1>7, NullAssumption DEF Doubts
<1>9. \A i \in ClaimIds : table[i] # None =>
        /\ after[i].evidenced = table[i].evidenced
        /\ after[i].memory = IF table[i].memory = merged THEN kept ELSE table[i].memory
  BY <1>1, <1>3, <1>5, <1>6 DEF SameSource
<1> QED  BY <1>0, <1>8, <1>9

\* A deletion: no claim keeps the row, each that did is anchored in an archive.
LEMMA DetachedClaims ==
    ASSUME NEW table \in ClaimTable, NEW m \in Memories
    PROVE  LET after == detachedClaims(table, m) IN
           /\ Doubts(table, after)
           /\ claimsOf(after, m) = {}
           /\ \A i \in ClaimIds : table[i] # None =>
                IF table[i].memory = m THEN after[i].memory = None /\ after[i].evidenced
                ELSE after[i].memory = table[i].memory /\ after[i].evidenced = table[i].evidenced
<1> DEFINE doubted == archivedClaims(table, {m})
           after == [i \in ClaimIds |->
                        IF i \in claimsOf(table, m)
                        THEN [doubted[i] EXCEPT !.memory = None, !.evidenced = TRUE]
                        ELSE table[i]]
<1>0. detachedClaims(table, m) = after  BY DEF detachedClaims
<1>1. Doubts(table, doubted) /\ SameSource(table, doubted)
  BY ArchivedClaims
<1> HIDE DEF doubted
<1>2. \A i \in ClaimIds : i \in claimsOf(table, m) <=> table[i] # None /\ table[i].memory = m
  BY DEF claimsOf
<1>3. \A i \in claimsOf(table, m) : i \in ClaimIds /\ doubted[i] \in Claim
  BY <1>1 DEF Doubts, ClaimTable, claimsOf
<1>4. \A i \in claimsOf(table, m) : /\ after[i] \in Claim
                                    /\ after[i].memory = None
                                    /\ after[i].evidenced = TRUE
                                    /\ after[i].fact = doubted[i].fact
                                    /\ after[i].to = doubted[i].to
                                    /\ after[i].status = doubted[i].status
  BY <1>3 DEF Claim
<1>5. \A i \in ClaimIds \ claimsOf(table, m) : after[i] = table[i]
  OBVIOUS
<1>6. after \in ClaimTable
  <2>1. \A i \in ClaimIds : after[i] \in Claim \cup {None}
    BY <1>4, <1>5 DEF ClaimTable
  <2> QED  BY <2>1 DEF ClaimTable
<1> HIDE DEF after
<1>7. Doubts(table, after)
  BY <1>1, <1>2, <1>4, <1>5, <1>6, NullAssumption DEF Doubts
<1>8. \A i \in ClaimIds : table[i] # None =>
        IF table[i].memory = m THEN after[i].memory = None /\ after[i].evidenced
        ELSE after[i].memory = table[i].memory /\ after[i].evidenced = table[i].evidenced
  BY <1>2, <1>4, <1>5
<1>9. \A i \in ClaimIds : after[i] # None => after[i].memory # m
  BY <1>7, <1>8, FactAssumption DEF Doubts
<1>10. claimsOf(after, m) = {}
  BY <1>9 DEF claimsOf
<1> QED  BY <1>0, <1>7, <1>8, <1>10

----------------------------------------------------------------------------
(* The inductive invariant. *)

\* The rows a compaction has still to compare exist, and so do those that it is
\* merging or archiving.
CompactRows ==
    isCompacting =>
        /\ \A p \in job.todo : isRow(p[1]) /\ isRow(p[2])
        /\ job.phase \in {"archive", "relink"} => job.kept \in Memories /\ isRow(job.kept)
        /\ job.phase \in {"archive", "relink", "doubt"} =>
              job.merged \in Memories /\ isRow(job.merged)

\* What a reconciliation has still to repair.
ReconcileLeft ==
    job # Idle /\ job.kind = "reconcile" =>
        \A i \in live : claims[i].memory = None \/ hasStatus(claims[i].memory, "active")
                        \/ claims[i].memory \in job.todo

IInv == TypeOK /\ Traceable /\ CompactRows /\ ReconcileLeft

\* Each job has the fields of its kind.
LEMMA JobKinds ==
    ASSUME TypeOK, job # Idle
    PROVE  /\ job.kind \in {"extract", "delete", "reconcile", "compact"}
           /\ job.kind = "extract" =>
                job \in [kind: {"extract"}, memory: Memories, todo: SUBSET Facts]
           /\ job.kind = "delete" => job \in [kind: {"delete"}, memory: Memories]
           /\ job.kind = "reconcile" => job \in [kind: {"reconcile"}, todo: SUBSET Memories]
           /\ job.kind = "compact" => job \in Compaction
BY DEF TypeOK, Job, Compaction

\* The first part of Traceable, for tables of rows and claims.
Anchored(rows, table) ==
    \A i \in ClaimIds : table[i] # None =>
        IF table[i].memory = None THEN table[i].evidenced
        ELSE rows[table[i].memory] \notin {None, Gone} /\ ~table[i].evidenced

LEMMA TraceableIs ==
    Traceable <=> /\ Anchored(memories, claims)
                  /\ job # Idle /\ job.kind = "delete" => claimsOf(claims, job.memory) = {}
BY DEF Traceable, Anchored, isRow

\* Doubt that leaves every claim where it is keeps the claims anchored, as long
\* as the rows they come from remain.
LEMMA AnchoredByDoubt ==
    ASSUME NEW rows, NEW rowsAfter, NEW table \in ClaimTable, NEW after,
           Doubts(table, after), SameSource(table, after), Anchored(rows, table),
           \A m \in Memories : rows[m] \notin {None, Gone} /\ rowsAfter[m] \in {None, Gone}
                              => claimsOf(table, m) = {}
    PROVE  Anchored(rowsAfter, after)
<1> SUFFICES ASSUME NEW i \in ClaimIds, after[i] # None
             PROVE  IF after[i].memory = None THEN after[i].evidenced
                    ELSE rowsAfter[after[i].memory] \notin {None, Gone} /\ ~after[i].evidenced
  BY DEF Anchored
<1>1. /\ table[i] # None
      /\ table[i] \in Claim
      /\ after[i].memory = table[i].memory
      /\ after[i].evidenced = table[i].evidenced
  BY DEF Doubts, SameSource, ClaimTable
<1>2. table[i].memory # None => /\ table[i].memory \in Memories
                                /\ rows[table[i].memory] \notin {None, Gone}
                                /\ ~table[i].evidenced
                                /\ i \in claimsOf(table, table[i].memory)
  BY <1>1 DEF Anchored, Claim, claimsOf
<1> QED  BY <1>1, <1>2 DEF Anchored

\* The same for a merge into a row that remains.
LEMMA AnchoredByMerge ==
    ASSUME NEW rows, NEW rowsAfter, NEW table \in ClaimTable,
           NEW kept \in Memories, NEW merged \in Memories,
           Anchored(rows, table), rowsAfter[kept] \notin {None, Gone},
           \A m \in Memories : rows[m] \notin {None, Gone} => rowsAfter[m] \notin {None, Gone}
    PROVE  Anchored(rowsAfter, relinked(table, kept, merged))
<1> DEFINE after == relinked(table, kept, merged)
<1>1. /\ Doubts(table, after)
      /\ \A i \in ClaimIds : table[i] # None =>
            /\ after[i].evidenced = table[i].evidenced
            /\ after[i].memory = IF table[i].memory = merged THEN kept ELSE table[i].memory
  BY RelinkedClaims
<1> HIDE DEF after
<1> SUFFICES ASSUME NEW i \in ClaimIds, after[i] # None
             PROVE  IF after[i].memory = None THEN after[i].evidenced
                    ELSE rowsAfter[after[i].memory] \notin {None, Gone} /\ ~after[i].evidenced
  BY DEF Anchored, after
<1>2. /\ table[i] # None
      /\ table[i] \in Claim
      /\ after[i].evidenced = table[i].evidenced
      /\ after[i].memory = IF table[i].memory = merged THEN kept ELSE table[i].memory
  BY <1>1 DEF Doubts, ClaimTable
<1>3. table[i].memory # None => /\ table[i].memory \in Memories
                                /\ rows[table[i].memory] \notin {None, Gone}
                                /\ ~table[i].evidenced
  BY <1>2 DEF Anchored, Claim
<1> QED  BY <1>2, <1>3, FactAssumption DEF Anchored

----------------------------------------------------------------------------
(* What the two transactions of a reconciliation do for one archived row. *)

LEMMA RelinkStep ==
    ASSUME TypeOK, Traceable, NEW m \in Memories, ReconcileRelink(m)
    PROVE  /\ Doubts(claims, claims')
           /\ Anchored(memories, claims')
           /\ \A i \in ClaimIds : claims[i] # None =>
                claims'[i].memory = claims[i].memory \/ hasStatus(claims'[i].memory, "active")
<1> DEFINE target == CHOOSE t \in Memories : mergeTargets(m) = {t}
<1>1. claims \in ClaimTable /\ Anchored(memories, claims)
  BY TraceableIs DEF TypeOK, ClaimTable
<1>2. target \in Memories /\ mergeTargets(m) = {target}
  BY DEF ReconcileRelink, hasTarget
<1>3. hasStatus(target, "active") /\ isRow(target)
  BY <1>2 DEF mergeTargets, hasStatus
<1>4. claims' = relinked(claims, target, m)
  BY DEF ReconcileRelink
<1> HIDE DEF target
<1>5. Anchored(memories, claims')
  BY <1>1, <1>2, <1>3, <1>4, AnchoredByMerge DEF isRow
<1> QED  BY <1>1, <1>2, <1>3, <1>4, <1>5, RelinkedClaims

LEMMA ReconciledClaims ==
    ASSUME TypeOK, Traceable, NEW m \in Memories
    PROVE  /\ Doubts(claims, reconciled(m))
           /\ Anchored(memories, reconciled(m))
           /\ \A i \in ClaimIds : reconciled(m)[i] # None /\ reconciled(m)[i].status = "active" =>
                /\ reconciled(m)[i].memory # m
                /\ reconciled(m)[i].memory = claims[i].memory
<1> DEFINE after == archivedClaims(claims, {m})
<1>0. reconciled(m) = after  BY DEF reconciled
<1>1. claims \in ClaimTable /\ Anchored(memories, claims)
  BY TraceableIs DEF TypeOK, ClaimTable
<1>2. /\ Doubts(claims, after)
      /\ SameSource(claims, after)
      /\ \A i \in ClaimIds : after[i] # None /\ after[i].memory \in {m} => after[i].status # "active"
  BY <1>1, ArchivedClaims
<1> HIDE DEF after
<1>3. Anchored(memories, after)
  BY <1>1, <1>2, AnchoredByDoubt
<1>4. \A i \in ClaimIds : after[i] # None /\ after[i].status = "active" =>
        after[i].memory # m /\ after[i].memory = claims[i].memory
  BY <1>2 DEF Doubts, SameSource
<1> QED  BY <1>0, <1>2, <1>3, <1>4

----------------------------------------------------------------------------
(* What each kind of step does to the claims. *)

LEMMA DoubtsNothing ==
    ASSUME NEW table \in ClaimTable
    PROVE  Doubts(table, table) /\ SameSource(table, table)
BY DEF Doubts, SameSource

\* A new claim, beside active claims that it puts into conflict.
LEMMA CreatedClaims ==
    ASSUME TypeOK, NEW f \in Facts, CreateClaim(f)
    PROVE  \E i \in ClaimIds, after \in ClaimTable :
              /\ claims[i] = None
              /\ Doubts(claims, after) /\ SameSource(claims, after)
              /\ newClaim(f) \in Claim
              /\ claims' = [after EXCEPT ![i] = newClaim(f)]
<1>1. PICK i \in ClaimIds, done \in SUBSET rivals(f) :
        /\ claims[i] = None
        /\ claims' = [marked(claims, done, "conflict") EXCEPT ![i] = newClaim(f)]
  BY DEF CreateClaim
<1>2. done \in SUBSET ClaimIds /\ \A j \in done : claims[j] # None /\ claims[j].status = "active"
  BY DEF rivals, live
<1>3. claims \in ClaimTable  BY DEF TypeOK, ClaimTable
<1> DEFINE after == marked(claims, done, "conflict")
<1>4. Doubts(claims, after) /\ SameSource(claims, after)
  BY <1>2, <1>3, MarkedDoubts
<1>5. newClaim(f) \in Claim
  <2>1. job # Idle /\ job.kind = "extract"  BY DEF CreateClaim, isExtracting
  <2>2. job.memory \in Memories  BY <2>1, JobKinds
  <2> QED  BY <2>2, FactAssumption DEF newClaim, Claim, Statuses, Ends
<1> HIDE DEF after
<1>6. after \in ClaimTable  BY <1>4 DEF Doubts
<1> QED  BY <1>1, <1>4, <1>5, <1>6 DEF after

\* A user's decision about a claim, and the competing claims it expires.
LEMMA ResolvedClaims ==
    ASSUME TypeOK, NEW i \in ClaimIds, Resolve(i)
    PROVE  \E status \in Statuses, done \in SUBSET ClaimIds :
              /\ i \notin done
              /\ claims[i] # None
              /\ \A j \in done : claims[j] # None
              /\ claims' \in ClaimTable
              /\ claims'[i] = withStatus(claims[i], status)
              /\ \A j \in done : claims'[j] = withStatus(claims[j], "expired")
              /\ \A j \in ClaimIds \ (done \cup {i}) : claims'[j] = claims[j]
              /\ confirmed' = IF status = "active" THEN confirmed \cup {i} ELSE confirmed
<1>1. PICK status \in Statuses :
        LET table  == [claims EXCEPT ![i] = withStatus(@, status)]
            losers == IF claims[i].status = "conflict" /\ status = "active"
                      THEN competing(table, i) ELSE {}
            stuck  == {j \in losers : expiryThrows(table[j])}
        IN  /\ claims[i] # None
            /\ \E done \in SUBSET (losers \ stuck) : claims' = marked(table, done, "expired")
            /\ confirmed' = IF status = "active" THEN confirmed \cup {i} ELSE confirmed
  BY DEF Resolve
<1> DEFINE table == [claims EXCEPT ![i] = withStatus(@, status)]
<1>2. PICK done \in SUBSET competing(table, i) : claims' = marked(table, done, "expired")
  BY <1>1
<1>3. claims \in ClaimTable /\ claims[i] \in Claim
  BY <1>1 DEF TypeOK, ClaimTable
<1>4. withStatus(claims[i], status) \in Claim  BY <1>3, StatusChange
<1>5. /\ table \in ClaimTable
      /\ table[i] = withStatus(claims[i], status)
      /\ \A j \in ClaimIds \ {i} : table[j] = claims[j]
  BY <1>3, <1>4 DEF ClaimTable
<1>6. done \in SUBSET ClaimIds /\ i \notin done /\ \A j \in done : table[j] # None
  BY <1>2 DEF competing
<1> HIDE DEF table
<1>7. "expired" \in Statuses  BY DEF Statuses
<1>8. /\ claims' \in ClaimTable
      /\ \A j \in done : claims'[j] = withStatus(table[j], "expired")
      /\ \A j \in ClaimIds \ done : claims'[j] = table[j]
  BY <1>2, <1>5, <1>6, <1>7, MarkedClaims
<1> QED  BY <1>1, <1>5, <1>6, <1>8

\* Every step but an extraction's insert and a user's decision only doubts.
LEMMA StepDoubts ==
    ASSUME IInv, [Next]_vars
    PROVE  \/ Doubts(claims, claims') /\ confirmed' = confirmed
           \/ \E f \in Facts : CreateClaim(f)
           \/ \E i \in ClaimIds : Resolve(i)
<1>0. claims \in ClaimTable  BY DEF IInv, TypeOK, ClaimTable
<1>1. ASSUME UNCHANGED <<claims, confirmed>>  PROVE Doubts(claims, claims') /\ confirmed' = confirmed
  BY <1>0, <1>1, DoubtsNothing
<1>2. ASSUME NEW m \in Memories, Store(m) \/ Rewrite(m) \/ Supersede(m)
      PROVE  UNCHANGED <<claims, confirmed>>
  BY <1>2 DEF Store, Rewrite, Supersede
<1>3. ASSUME NEW m \in Memories, DeleteBegin(m)  PROVE Doubts(claims, claims') /\ confirmed' = confirmed
  BY <1>0, <1>3, DetachedClaims DEF DeleteBegin
<1>4. ASSUME NEW m \in Memories, ReconcileRelink(m) \/ ReconcileNext(m)
      PROVE  Doubts(claims, claims') /\ confirmed' = confirmed
  <2>1. CASE ReconcileRelink(m)
    BY <2>1, RelinkStep DEF ReconcileRelink, IInv
  <2>2. CASE ReconcileNext(m)
    BY <2>2, ReconciledClaims DEF ReconcileNext, IInv
  <2> QED  BY <1>4, <2>1, <2>2
<1>5. ASSUME NEW e \in extracting, ExtractBegin(e)  PROVE Doubts(claims, claims') /\ confirmed' = confirmed
  <2>1. PICK done \in SUBSET activeIn(claims, claimsOf(claims, e.memory)) :
          claims' = marked(claims, done, "suspected_expired")
    BY <1>5 DEF ExtractBegin, stale
  <2>2. /\ done \in SUBSET ClaimIds
        /\ \A i \in done : claims[i] # None /\ claims[i].status = "active"
    BY DEF activeIn, claimsOf
  <2> QED  BY <1>0, <1>5, <2>1, <2>2, MarkedDoubts DEF ExtractBegin
<1>6. ASSUME NEW f \in Facts, SkipCandidate(f) \/ CreateFails(f)
      PROVE  UNCHANGED <<claims, confirmed>>
  BY <1>6 DEF SkipCandidate, CreateFails
<1>7. ASSUME \/ \E p \in Memories \X Memories : CompactSkip(p) \/ CompactMerge(p)
             \/ \E m \in Memories : CompactCool(m)
             \/ CompactArchive \/ CompactEnd
      PROVE  UNCHANGED <<claims, confirmed>>
  BY <1>7 DEF CompactSkip, CompactMerge, CompactCool, CompactArchive, CompactEnd
<1>8. ASSUME CompactRelink  PROVE Doubts(claims, claims') /\ confirmed' = confirmed
  <2>1. job.kept \in Memories /\ job.merged \in Memories
    BY <1>8 DEF CompactRelink, atPhase, IInv, CompactRows
  <2> QED  BY <1>0, <1>8, <2>1, RelinkedClaims DEF CompactRelink
<1>9. ASSUME CompactDoubt  PROVE Doubts(claims, claims') /\ confirmed' = confirmed
  <2>1. job.merged \in Memories
    BY <1>9 DEF CompactDoubt, atPhase, IInv, CompactRows
  <2> QED  BY <1>0, <1>9, <2>1, ArchivedClaims DEF CompactDoubt
<1>10. ASSUME DeleteEnd \/ ReconcileBegin \/ CompactBegin \/ ExecuteDeletion \/ Crash
       PROVE  UNCHANGED <<claims, confirmed>>
  BY <1>10 DEF DeleteEnd, ReconcileBegin, CompactBegin, ExecuteDeletion, Crash
<1>11. ASSUME UNCHANGED vars  PROVE UNCHANGED <<claims, confirmed>>
  BY <1>11 DEF vars
<1> QED
  BY <1>1, <1>2, <1>3, <1>4, <1>5, <1>6, <1>7, <1>8, <1>9, <1>10, <1>11 DEF Next

----------------------------------------------------------------------------
(* Types. *)

\* Everything but the job, and the rows never lose their shape.
Stores ==
    /\ memories \in [Memories -> Row \cup {None, Gone}]
    /\ extracting \subseteq [memory: Memories, text: SUBSET Facts]
    /\ confirmed \subseteq ClaimIds
    /\ calls \in 0..MaxCalls

LEMMA ClaimsTyped ==
    ASSUME IInv, [Next]_vars
    PROVE  claims' \in ClaimTable
<1>1. ASSUME NEW f \in Facts, CreateClaim(f)  PROVE claims' \in ClaimTable
  BY <1>1, CreatedClaims DEF ClaimTable, IInv
<1>2. ASSUME NEW i \in ClaimIds, Resolve(i)  PROVE claims' \in ClaimTable
  BY <1>2, ResolvedClaims DEF IInv
<1> QED  BY <1>1, <1>2, StepDoubts DEF Doubts

\* A row that exists is a Row, and stays one when a field of it is set.
LEMMA RowTyped ==
    ASSUME TypeOK, NEW m \in Memories, isRow(m)
    PROVE  /\ memories[m] \in Row
           /\ \A text \in SUBSET Facts, b \in BOOLEAN :
                [memories[m] EXCEPT !.text = text, !.embedded = b] \in Row
           /\ [memories[m] EXCEPT !.status = "archived"] \in Row
BY DEF TypeOK, isRow, Row

\* Archiving a row leaves it a row, and every other one alone.
LEMMA ArchivedRow ==
    ASSUME TypeOK, NEW m \in Memories, isRow(m),
           memories' = [memories EXCEPT ![m].status = "archived"]
    PROVE  /\ memories' \in [Memories -> Row \cup {None, Gone}]
           /\ memories'[m] \in Row
           /\ memories'[m].text = memories[m].text
           /\ \A n \in Memories \ {m} : memories'[n] = memories[n]
<1>1. memories[m] \in Row /\ [memories[m] EXCEPT !.status = "archived"] \in Row
  BY RowTyped
<1>2. memories' = [memories EXCEPT ![m] = [memories[m] EXCEPT !.status = "archived"]]
  OBVIOUS
<1>3. [memories[m] EXCEPT !.status = "archived"].text = memories[m].text
  BY <1>1 DEF Row
<1> QED  BY <1>1, <1>2, <1>3 DEF TypeOK

\* The types are kept by the writes of the memory service.
LEMMA WritesTyped ==
    ASSUME IInv, NEW m \in Memories,
           \/ Store(m) \/ Rewrite(m) \/ Supersede(m) \/ DeleteBegin(m)
           \/ ReconcileRelink(m) \/ ReconcileNext(m)
    PROVE  Stores' /\ job' \in Job \cup {Idle}
<1> USE DEF IInv, TypeOK, Stores
<1>0. Texts \subseteq SUBSET Facts /\ MaxCalls \in Nat  BY FactAssumption
<1>1. CASE Store(m)
  <2>1. \A text \in Texts : [text |-> text, status |-> "active", embedded |-> TRUE] \in Row
    BY <1>0 DEF Row
  <2> QED  BY <1>0, <1>1, <2>1 DEF Store, call, syncFactClaims
<1>2. CASE Rewrite(m)
  <2>1. memories[m] \in Row  BY <1>2, RowTyped DEF Rewrite
  <2>2. PICK text \in Texts :
          /\ memories' = [memories EXCEPT ![m].text = text, ![m].embedded = TRUE]
          /\ extracting' = extracting \/ extracting' = extracting \cup {[memory |-> m, text |-> text]}
          /\ job = Idle /\ calls < MaxCalls /\ calls' = calls + 1
          /\ job' = job /\ confirmed' = confirmed
    BY <1>2 DEF Rewrite, syncFactClaims, call
  <2>3. memories' = [memories EXCEPT ![m] = [memories[m] EXCEPT !.text = text, !.embedded = TRUE]]
    BY <2>2
  <2>4. [memories[m] EXCEPT !.text = text, !.embedded = TRUE] \in Row
    BY <1>0, <2>1 DEF Row
  <2>5. memories' \in [Memories -> Row \cup {None, Gone}]  BY <2>3, <2>4
  <2>6. extracting' \subseteq [memory: Memories, text: SUBSET Facts]
    <3>1. text \in SUBSET Facts  BY <1>0
    <3> QED  BY <2>2, <3>1
  <2>7. job' = Idle /\ calls' \in 0..MaxCalls /\ confirmed' = confirmed
    BY <1>0, <2>2
  <2> QED  BY <2>5, <2>6, <2>7
<1>3. CASE Supersede(m)
  <2>1. [memories[m] EXCEPT !.status = "archived"] \in Row
    BY <1>3, RowTyped DEF Supersede, hasStatus
  <2> QED  BY <1>0, <1>3, <2>1 DEF Supersede, call
<1>4. CASE DeleteBegin(m)
  <2>1. [kind |-> "delete", memory |-> m] \in Job  BY DEF Job
  <2> QED  BY <1>0, <1>4, <2>1 DEF DeleteBegin, call
<1>5. CASE ReconcileNext(m)
  <2>1. job \in [kind: {"reconcile"}, todo: SUBSET Memories]
    BY <1>5, JobKinds DEF ReconcileNext, isReconciling
  <2>2. [job EXCEPT !.todo = @ \ {m}] \in [kind: {"reconcile"}, todo: SUBSET Memories]
    BY <2>1
  <2>3. job' \in Job \cup {Idle}  BY <1>5, <2>2 DEF ReconcileNext, Job
  <2> QED  BY <1>5, <2>3 DEF ReconcileNext
<1>6. CASE ReconcileRelink(m)
  BY <1>6 DEF ReconcileRelink
<1> QED  BY <1>1, <1>2, <1>3, <1>4, <1>5, <1>6

\* The types are kept by extractions and decisions.
LEMMA ExtractionsTyped ==
    ASSUME IInv,
           \/ \E e \in extracting : ExtractBegin(e)
           \/ \E f \in Facts : SkipCandidate(f) \/ CreateClaim(f) \/ CreateFails(f)
           \/ \E i \in ClaimIds : Resolve(i)
    PROVE  Stores' /\ job' \in Job \cup {Idle}
<1> USE DEF IInv, TypeOK, Stores
<1>1. ASSUME NEW e \in extracting, ExtractBegin(e)  PROVE Stores' /\ job' \in Job \cup {Idle}
  <2>1. \A yields \in {e.text, {}} :
          [kind |-> "extract", memory |-> e.memory, todo |-> yields] \in Job
    BY DEF Job
  <2> QED  BY <1>1, <2>1 DEF ExtractBegin
<1>2. ASSUME NEW f \in Facts, SkipCandidate(f) \/ CreateClaim(f) \/ CreateFails(f)
      PROVE  Stores' /\ job' \in Job \cup {Idle}
  <2>1. job \in [kind: {"extract"}, memory: Memories, todo: SUBSET Facts]
    BY <1>2, JobKinds DEF SkipCandidate, CreateClaim, CreateFails, isExtracting
  <2>2. [job EXCEPT !.todo = @ \ {f}] \in [kind: {"extract"}, memory: Memories, todo: SUBSET Facts]
    BY <2>1
  <2>3. job' \in Job \cup {Idle}
    BY <1>2, <2>2 DEF SkipCandidate, CreateClaim, CreateFails, candidateDone, Job
  <2> QED  BY <1>2, <2>3 DEF SkipCandidate, CreateClaim, CreateFails
<1>3. ASSUME NEW i \in ClaimIds, Resolve(i)  PROVE Stores' /\ job' \in Job \cup {Idle}
  BY <1>3, FactAssumption DEF Resolve, call
<1> QED  BY <1>1, <1>2, <1>3

\* A merge of a compaction begins with the text of the kept row, and touches no
\* other.
MergesInto(p, kept, merged) ==
    /\ {kept, merged} = {p[1], p[2]}
    /\ isRow(kept) /\ isRow(merged)
    /\ memories' \in [Memories -> Row \cup {None, Gone}]
    /\ memories'[kept] \in Row
    /\ memories'[kept].text = job.snapshot[kept] \cup job.snapshot[merged]
    /\ memories'[kept].status = memories[kept].status
    /\ \A m \in Memories \ {kept} : memories'[m] = memories[m]
    /\ job' = [job EXCEPT !.todo = @ \ {p}, !.left = p[1], !.phase = "archive",
                          !.kept = kept, !.merged = merged]
    /\ UNCHANGED <<claims, extracting, confirmed, calls>>

LEMMA MergedRows ==
    ASSUME IInv, NEW p \in Memories \X Memories, CompactMerge(p)
    PROVE  \E kept, merged \in Memories : MergesInto(p, kept, merged)
<1> DEFINE newer == IF job.age[p[1]] >= job.age[p[2]] THEN p[1] ELSE p[2]
           older == IF newer = p[1] THEN p[2] ELSE p[1]
           text == job.snapshot[newer] \cup job.snapshot[older]
           row == [memories[newer] EXCEPT !.text = text, !.embedded = FALSE]
<1>1. job \in Compaction
  BY JobKinds DEF CompactMerge, atPhase, isCompacting, IInv
<1>2. newer \in Memories /\ older \in Memories /\ isRow(newer) /\ isRow(older)
  BY DEF CompactMerge, isNextPair, IInv, CompactRows, atPhase
<1>3. /\ memories' = [memories EXCEPT ![newer].text = text, ![newer].embedded = FALSE]
      /\ job' = [job EXCEPT !.todo = @ \ {p}, !.left = p[1], !.phase = "archive",
                            !.kept = newer, !.merged = older]
      /\ UNCHANGED <<claims, extracting, confirmed, calls>>
  BY DEF CompactMerge
<1>4. text \in SUBSET Facts  BY <1>1, <1>2 DEF Compaction
<1>5. {newer, older} = {p[1], p[2]}  OBVIOUS
<1> HIDE DEF newer, older
<1>6. memories[newer] \in Row  BY <1>2, RowTyped DEF IInv
<1>7. row.text = text /\ row.status = memories[newer].status  BY <1>6 DEF Row
<1> HIDE DEF text
<1>8. row \in Row  BY <1>2, <1>4, RowTyped DEF IInv
<1>9. memories' = [memories EXCEPT ![newer] = row]
  BY <1>2, <1>3 DEF IInv, TypeOK
<1> HIDE DEF row
<1>10. /\ memories' \in [Memories -> Row \cup {None, Gone}]
       /\ memories'[newer] = row
       /\ \A m \in Memories \ {newer} : memories'[m] = memories[m]
  BY <1>2, <1>8, <1>9 DEF IInv, TypeOK
<1>11. MergesInto(p, newer, older)
  BY <1>2, <1>3, <1>5, <1>7, <1>8, <1>10 DEF text, MergesInto
<1> QED  BY <1>2, <1>11

\* The later commits of a compaction change at most the status of one row, and
\* the phase of the job.
LEMMA CompactionSteps ==
    ASSUME IInv, \/ CompactArchive \/ CompactRelink \/ CompactDoubt
                 \/ \E m \in Memories : CompactCool(m)
    PROVE  /\ job \in Compaction /\ job' \in Compaction
           /\ job'.todo = job.todo /\ job'.snapshot = job.snapshot
           /\ memories' \in [Memories -> Row \cup {None, Gone}]
           /\ \A m \in Memories : isRow(m) => memories'[m] \in Row
           /\ \A m \in Memories : ~isRow(m) => memories'[m] = memories[m]
           /\ UNCHANGED <<extracting, confirmed, calls>>
<1>0. job \in Compaction
  BY JobKinds DEF CompactArchive, CompactRelink, CompactDoubt, CompactCool, atPhase,
     isCompacting, IInv
<1>1. \A m \in Memories : isRow(m) => memories[m] \in Row
  BY RowTyped DEF IInv
<1>2. CASE CompactArchive
  <2>1. job.merged \in Memories /\ isRow(job.merged)
    BY <1>2 DEF CompactArchive, atPhase, IInv, CompactRows
  <2>2. /\ memories' \in [Memories -> Row \cup {None, Gone}]
        /\ memories'[job.merged] \in Row
        /\ \A n \in Memories \ {job.merged} : memories'[n] = memories[n]
    BY <1>2, <2>1, ArchivedRow DEF CompactArchive, IInv
  <2>3. /\ job' = [job EXCEPT !.phase = "relink"]
        /\ UNCHANGED <<extracting, confirmed, calls>>
    BY <1>2 DEF CompactArchive
  <2>4. job' \in Compaction /\ job'.todo = job.todo /\ job'.snapshot = job.snapshot
    BY <1>0, <2>3 DEF Compaction
  <2> QED  BY <1>0, <1>1, <2>1, <2>2, <2>3, <2>4
<1>3. CASE CompactRelink
  <2>1. job.merged \in Memories
    BY <1>3 DEF CompactRelink, atPhase, IInv, CompactRows
  <2>2. /\ job' = [job EXCEPT !.phase = "pairs", !.archived = @ \cup {job.merged},
                              !.kept = None, !.merged = None]
        /\ UNCHANGED <<memories, extracting, confirmed, calls>>
    BY <1>3 DEF CompactRelink
  <2>3. job' \in Compaction /\ job'.todo = job.todo /\ job'.snapshot = job.snapshot
    BY <1>0, <2>1, <2>2 DEF Compaction
  <2> QED  BY <1>0, <1>1, <2>2, <2>3 DEF IInv, TypeOK
<1>4. CASE CompactDoubt
  <2>1. /\ job' = [job EXCEPT !.phase = "cool", !.merged = None]
        /\ UNCHANGED <<memories, extracting, confirmed, calls>>
    BY <1>4 DEF CompactDoubt
  <2>2. job' \in Compaction /\ job'.todo = job.todo /\ job'.snapshot = job.snapshot
    BY <1>0, <2>1 DEF Compaction
  <2> QED  BY <1>0, <1>1, <2>1, <2>2 DEF IInv, TypeOK
<1>5. ASSUME NEW m \in Memories, CompactCool(m)
      PROVE  /\ job' \in Compaction
             /\ job'.todo = job.todo /\ job'.snapshot = job.snapshot
             /\ memories' \in [Memories -> Row \cup {None, Gone}]
             /\ \A n \in Memories : isRow(n) => memories'[n] \in Row
             /\ \A n \in Memories : ~isRow(n) => memories'[n] = memories[n]
             /\ UNCHANGED <<extracting, confirmed, calls>>
  <2>1. isRow(m)
    BY <1>5 DEF CompactCool, hasStatus
  <2>2. /\ memories' \in [Memories -> Row \cup {None, Gone}]
        /\ memories'[m] \in Row
        /\ \A n \in Memories \ {m} : memories'[n] = memories[n]
    BY <1>5, <2>1, ArchivedRow DEF CompactCool, IInv
  <2>3. /\ job' = [job EXCEPT !.phase = "doubt", !.merged = m]
        /\ UNCHANGED <<extracting, confirmed, calls>>
    BY <1>5 DEF CompactCool
  <2>4. job' \in Compaction /\ job'.todo = job.todo /\ job'.snapshot = job.snapshot
    BY <1>0, <2>3 DEF Compaction
  <2> QED  BY <1>1, <2>1, <2>2, <2>3, <2>4
<1> QED  BY <1>0, <1>2, <1>3, <1>4, <1>5

\* The types are kept by compaction.
LEMMA CompactionTyped ==
    ASSUME IInv,
           \/ CompactBegin \/ CompactArchive \/ CompactRelink \/ CompactDoubt \/ CompactEnd
           \/ \E m \in Memories : CompactCool(m)
           \/ \E p \in Memories \X Memories : CompactSkip(p) \/ CompactMerge(p)
    PROVE  Stores' /\ job' \in Job \cup {Idle}
<1> USE DEF IInv, TypeOK, Stores
<1>0. Compaction \subseteq Job  BY DEF Job
<1>1. CASE CompactBegin
  <2> DEFINE snapshot == [m \in Memories |-> IF hasStatus(m, "active") /\ memories[m].embedded
                                             THEN memories[m].text ELSE {}]
             listed == {m \in Memories : snapshot[m] # {}}
  <2>1. snapshot \in [Memories -> SUBSET Facts]
    <3>1. \A m \in Memories : hasStatus(m, "active") => memories[m] \in Row
      BY RowTyped DEF hasStatus
    <3> QED  BY <3>1 DEF Row
  <2> HIDE DEF snapshot
  <2>2. {p \in listed \X listed : p[1] < p[2]} \in SUBSET (Memories \X Memories)
    OBVIOUS
  <2>3. \E age \in [Memories -> Memories] :
          job' = [kind |-> "compact", snapshot |-> snapshot, age |-> age, left |-> None,
                  todo |-> {p \in listed \X listed : p[1] < p[2]}, archived |-> {},
                  phase |-> "pairs", kept |-> None, merged |-> None]
    BY <1>1 DEF CompactBegin, snapshot
  <2>4. job' \in Compaction  BY <2>1, <2>2, <2>3 DEF Compaction
  <2> HIDE DEF listed
  <2>5. Stores'  BY <1>1, FactAssumption DEF CompactBegin, call
  <2> QED  BY <1>0, <2>4, <2>5
<1>2. CASE CompactEnd
  BY <1>2 DEF CompactEnd
<1>3. ASSUME NEW p \in Memories \X Memories, CompactSkip(p)  PROVE Stores' /\ job' \in Job \cup {Idle}
  <2>1. job \in Compaction  BY <1>3, JobKinds DEF CompactSkip, atPhase, isCompacting
  <2>2. /\ [job EXCEPT !.todo = {q \in @ : q[1] # p[1]}] \in Compaction
        /\ [job EXCEPT !.todo = @ \ {p}, !.left = p[1]] \in Compaction
    BY <2>1 DEF Compaction
  <2> QED  BY <1>0, <1>3, <2>2 DEF CompactSkip
<1>4. ASSUME NEW p \in Memories \X Memories, CompactMerge(p)  PROVE Stores' /\ job' \in Job \cup {Idle}
  <2>1. job \in Compaction  BY <1>4, JobKinds DEF CompactMerge, atPhase, isCompacting
  <2>2. PICK kept \in Memories, merged \in Memories : MergesInto(p, kept, merged)
    BY <1>4, MergedRows
  <2>3. job' \in Compaction  BY <2>1, <2>2 DEF Compaction, MergesInto
  <2>4. job' \in Job  BY <1>0, <2>3
  <2>5. Stores'  BY <1>0, <2>2 DEF MergesInto
  <2> QED  BY <2>4, <2>5
<1>5. CASE CompactArchive \/ CompactRelink \/ CompactDoubt \/ \E m \in Memories : CompactCool(m)
  <2>1. /\ job' \in Compaction
        /\ memories' \in [Memories -> Row \cup {None, Gone}]
        /\ UNCHANGED <<extracting, confirmed, calls>>
    BY <1>5, CompactionSteps
  <2> QED  BY <1>0, <2>1
<1> QED  BY <1>1, <1>2, <1>3, <1>4, <1>5

LEMMA TypeKept ==
    ASSUME IInv, [Next]_vars
    PROVE  TypeOK'
<1>1. claims' \in ClaimTable  BY ClaimsTyped
<1>2. Stores' /\ job' \in Job \cup {Idle}
  <2> USE DEF IInv, TypeOK, Stores
  <2>1. CASE DeleteEnd \/ Crash
    BY <2>1 DEF DeleteEnd, Crash
  <2>2. CASE ReconcileBegin
    <3>1. [kind |-> "reconcile", todo |-> {m \in Memories : hasStatus(m, "archived")}] \in Job
      BY DEF Job
    <3> QED  BY <2>2, <3>1, FactAssumption DEF ReconcileBegin, call
  <2>3. CASE ExecuteDeletion
    BY <2>3, FactAssumption DEF ExecuteDeletion, call
  <2>4. CASE UNCHANGED vars
    BY <2>4 DEF vars
  <2> QED
    BY <2>1, <2>2, <2>3, <2>4, WritesTyped, ExtractionsTyped, CompactionTyped DEF Next
<1> QED  BY <1>1, <1>2 DEF TypeOK, Stores, ClaimTable

----------------------------------------------------------------------------
(* Sources of claims, and what the jobs still have to do. *)

\* Rows are only lost when no claim comes from them.
KeepsRows(table) ==
    \A m \in Memories : isRow(m) /\ memories'[m] \in {None, Gone} => claimsOf(table, m) = {}

LEMMA AnchoredStays ==
    ASSUME IInv, Doubts(claims, claims'), SameSource(claims, claims'), KeepsRows(claims)
    PROVE  Anchored(memories', claims')
BY AnchoredByDoubt, TraceableIs DEF IInv, TypeOK, ClaimTable, KeepsRows, isRow

LEMMA AnchoredKept ==
    ASSUME IInv, [Next]_vars
    PROVE  Anchored(memories, claims) /\ Anchored(memories', claims')
<1>0. claims \in ClaimTable /\ Anchored(memories, claims)
  BY TraceableIs DEF IInv, TypeOK, ClaimTable
<1>a. Doubts(claims, claims) /\ SameSource(claims, claims)  BY <1>0, DoubtsNothing
<1>1. ASSUME NEW m \in Memories, Store(m)  PROVE Anchored(memories', claims')
  <2>1. \A text \in Texts : [text |-> text, status |-> "active", embedded |-> TRUE] \in Row
    BY FactAssumption DEF Row
  <2>2. KeepsRows(claims)
    BY <1>1, <2>1, NullAssumption DEF Store, KeepsRows, isRow, IInv, TypeOK
  <2> QED  BY <1>1, <1>a, <2>2, AnchoredStays DEF Store
<1>2. ASSUME NEW m \in Memories, Rewrite(m) \/ Supersede(m)  PROVE Anchored(memories', claims')
  <2>1. isRow(m)  BY <1>2 DEF Rewrite, Supersede, hasStatus
  <2>2. memories'[m] \in Row
    <3>1. CASE Supersede(m)
      BY <2>1, <3>1, RowTyped DEF Supersede, IInv, TypeOK
    <3>2. CASE Rewrite(m)
      <4>1. PICK text \in Texts : memories' = [memories EXCEPT ![m].text = text, ![m].embedded = TRUE]
        BY <3>2 DEF Rewrite
      <4>2. memories'[m] = [memories[m] EXCEPT !.text = text, !.embedded = TRUE]
        BY <4>1 DEF IInv, TypeOK
      <4>3. text \in SUBSET Facts  BY FactAssumption
      <4> QED  BY <2>1, <4>2, <4>3, RowTyped DEF IInv
    <3> QED  BY <1>2, <3>1, <3>2
  <2>3. \A n \in Memories : n # m => memories'[n] = memories[n]
    BY <1>2 DEF Rewrite, Supersede, IInv, TypeOK
  <2>4. KeepsRows(claims)  BY <2>2, <2>3, NullAssumption DEF KeepsRows, isRow
  <2> QED  BY <1>2, <1>a, <2>4, AnchoredStays DEF Rewrite, Supersede
<1>3. ASSUME NEW m \in Memories, DeleteBegin(m)  PROVE Anchored(memories', claims')
  <2>1. /\ Doubts(claims, claims')
        /\ \A i \in ClaimIds : claims[i] # None =>
              IF claims[i].memory = m THEN claims'[i].memory = None /\ claims'[i].evidenced
              ELSE claims'[i].memory = claims[i].memory /\ claims'[i].evidenced = claims[i].evidenced
    BY <1>0, <1>3, DetachedClaims DEF DeleteBegin
  <2>2. memories' = memories  BY <1>3 DEF DeleteBegin
  <2> QED  BY <1>0, <2>1, <2>2 DEF Doubts, Anchored
<1>4. ASSUME NEW m \in Memories, ReconcileRelink(m) \/ ReconcileNext(m)
      PROVE  Anchored(memories', claims')
  <2>1. CASE ReconcileRelink(m)
    BY <2>1, RelinkStep DEF ReconcileRelink, IInv
  <2>2. CASE ReconcileNext(m)
    BY <2>2, ReconciledClaims DEF ReconcileNext, IInv
  <2> QED  BY <1>4, <2>1, <2>2
<1>5. ASSUME NEW e \in extracting, ExtractBegin(e)  PROVE Anchored(memories', claims')
  <2>1. PICK done \in SUBSET activeIn(claims, claimsOf(claims, e.memory)) :
          claims' = marked(claims, done, "suspected_expired")
    BY <1>5 DEF ExtractBegin, stale
  <2>2. /\ done \in SUBSET ClaimIds
        /\ \A i \in done : claims[i] # None /\ claims[i].status = "active"
    BY DEF activeIn, claimsOf
  <2>3. Doubts(claims, claims') /\ SameSource(claims, claims')
    BY <1>0, <2>1, <2>2, MarkedDoubts
  <2>4. KeepsRows(claims)  BY <1>5 DEF ExtractBegin, KeepsRows, isRow
  <2> QED  BY <2>3, <2>4, AnchoredStays
<1>6. ASSUME NEW f \in Facts, CreateClaim(f)  PROVE Anchored(memories', claims')
  <2>1. PICK i \in ClaimIds, after \in ClaimTable :
          /\ claims[i] = None
          /\ Doubts(claims, after) /\ SameSource(claims, after)
          /\ newClaim(f) \in Claim
          /\ claims' = [after EXCEPT ![i] = newClaim(f)]
    BY <1>6, CreatedClaims DEF IInv
  <2>2. memories' = memories /\ isRow(job.memory)  BY <1>6 DEF CreateClaim
  <2>3. Anchored(memories, after)
    BY <1>0, <2>1, AnchoredByDoubt
  <2>4. newClaim(f).memory = job.memory /\ ~newClaim(f).evidenced  BY DEF newClaim
  <2>5. job.memory \in Memories
    BY <1>6, JobKinds DEF CreateClaim, isExtracting, IInv
  <2>6. \A j \in ClaimIds : claims'[j] = IF j = i THEN newClaim(f) ELSE after[j]
    BY <2>1 DEF ClaimTable
  <2> QED
    BY <2>2, <2>3, <2>4, <2>5, <2>6, FactAssumption DEF Anchored, isRow
<1>7. ASSUME NEW i \in ClaimIds, Resolve(i)  PROVE Anchored(memories', claims')
  <2>1. PICK status \in Statuses, done \in SUBSET ClaimIds :
          /\ claims[i] # None
          /\ \A j \in done : claims[j] # None
          /\ claims'[i] = withStatus(claims[i], status)
          /\ \A j \in done : claims'[j] = withStatus(claims[j], "expired")
          /\ \A j \in ClaimIds \ (done \cup {i}) : claims'[j] = claims[j]
    BY <1>7, ResolvedClaims DEF IInv
  <2>2. \A j \in ClaimIds : claims'[j] # None =>
          claims[j] # None /\ claims'[j].memory = claims[j].memory
                          /\ claims'[j].evidenced = claims[j].evidenced
    <3>1. \A j \in ClaimIds : claims[j] # None => claims[j] \in Claim
      BY <1>0 DEF ClaimTable
    <3>2. "expired" \in Statuses  BY DEF Statuses
    <3> QED  BY <2>1, <3>1, <3>2, StatusChange
  <2>3. memories' = memories  BY <1>7 DEF Resolve
  <2> QED  BY <1>0, <2>2, <2>3 DEF Anchored
<1>8. ASSUME NEW p \in Memories \X Memories, CompactMerge(p)  PROVE Anchored(memories', claims')
  <2>0. PICK kept \in Memories, merged \in Memories : MergesInto(p, kept, merged)
    BY <1>8, MergedRows
  <2>1. /\ memories'[kept] \in Row
        /\ \A m \in Memories \ {kept} : memories'[m] = memories[m]
        /\ claims' = claims
    BY <2>0 DEF MergesInto
  <2>2. KeepsRows(claims)  BY <2>1, NullAssumption DEF KeepsRows, isRow
  <2> QED  BY <1>a, <2>1, <2>2, AnchoredStays
<1>9. ASSUME CompactArchive \/ CompactRelink \/ CompactDoubt \/ \E m \in Memories : CompactCool(m)
      PROVE  Anchored(memories', claims')
  <2>1. \A m \in Memories : isRow(m) => memories'[m] \notin {None, Gone}
    BY <1>9, CompactionSteps, NullAssumption
  <2>2. KeepsRows(claims)
    BY <2>1 DEF KeepsRows
  <2>3. CASE claims' = claims
    BY <1>a, <2>2, <2>3, AnchoredStays
  <2>4. CASE CompactRelink
    <3>1. job.kept \in Memories /\ job.merged \in Memories /\ isRow(job.kept)
      BY <2>4 DEF CompactRelink, atPhase, IInv, CompactRows
    <3>2. claims' = relinked(claims, job.kept, job.merged) /\ memories' = memories
      BY <2>4 DEF CompactRelink
    <3> QED  BY <1>0, <3>1, <3>2, AnchoredByMerge DEF isRow
  <2>5. CASE CompactDoubt
    <3>1. job.merged \in Memories
      BY <2>5 DEF CompactDoubt, atPhase, IInv, CompactRows
    <3>2. Doubts(claims, claims') /\ SameSource(claims, claims')
      BY <1>0, <2>5, <3>1, ArchivedClaims DEF CompactDoubt
    <3> QED  BY <2>2, <3>2, AnchoredStays
  <2> QED  BY <1>9, <2>3, <2>4, <2>5 DEF CompactArchive, CompactCool
<1>10. ASSUME DeleteEnd  PROVE Anchored(memories', claims')
  <2>1. KeepsRows(claims)  BY <1>10 DEF DeleteEnd, KeepsRows, isRow, IInv, TypeOK
  <2> QED  BY <1>10, <1>a, <2>1, AnchoredStays DEF DeleteEnd
<1>11. ASSUME ExecuteDeletion  PROVE Anchored(memories', claims')
  <2>1. KeepsRows(claims)  BY <1>11 DEF ExecuteDeletion, KeepsRows, isRow
  <2> QED  BY <1>11, <1>a, <2>1, AnchoredStays DEF ExecuteDeletion
<1>12. ASSUME UNCHANGED <<memories, claims>>  PROVE Anchored(memories', claims')
  BY <1>0, <1>12
<1>13. ASSUME \/ \E f \in Facts : SkipCandidate(f) \/ CreateFails(f)
              \/ \E p \in Memories \X Memories : CompactSkip(p)
              \/ ReconcileBegin \/ CompactBegin \/ CompactEnd \/ Crash \/ UNCHANGED vars
       PROVE  UNCHANGED <<memories, claims>>
  BY <1>13 DEF SkipCandidate, CreateFails, CompactSkip, ReconcileBegin, CompactBegin, CompactEnd,
     Crash, vars
<1> QED
  BY <1>0, <1>1, <1>2, <1>3, <1>4, <1>5, <1>6, <1>7, <1>8, <1>9, <1>10, <1>11, <1>12, <1>13 DEF Next

\* The steps after which a job other than an extraction is running, with the
\* kind of the job.
LEMMA RunningJobs ==
    ASSUME IInv, Next, job' # Idle, job'.kind # "extract"
    PROVE  \/ job'.kind = "delete" /\ \E m \in Memories : DeleteBegin(m)
           \/ /\ job'.kind = "reconcile"
              /\ ReconcileBegin \/ \E m \in Memories : ReconcileRelink(m) \/ ReconcileNext(m)
           \/ /\ job'.kind = "compact"
              /\ \/ CompactBegin \/ CompactArchive \/ CompactRelink \/ CompactDoubt
                 \/ \E m \in Memories : CompactCool(m)
                 \/ \E p \in Memories \X Memories : CompactSkip(p) \/ CompactMerge(p)
<1>1. ASSUME NEW m \in Memories, Store(m) \/ Rewrite(m) \/ Supersede(m)  PROVE job' = Idle
  BY <1>1 DEF Store, Rewrite, Supersede, call
<1>2. ASSUME NEW m \in Memories, DeleteBegin(m)  PROVE job'.kind = "delete"
  BY <1>2 DEF DeleteBegin
<1>3. ASSUME NEW m \in Memories, ReconcileRelink(m) \/ ReconcileNext(m)
      PROVE  job'.kind = "reconcile"
  <2>1. job \in [kind: {"reconcile"}, todo: SUBSET Memories]
    BY <1>3, JobKinds DEF ReconcileRelink, ReconcileNext, isReconciling, IInv
  <2> QED  BY <1>3, <2>1 DEF ReconcileRelink, ReconcileNext
<1>4. ASSUME NEW e \in extracting, ExtractBegin(e)  PROVE FALSE
  BY <1>4 DEF ExtractBegin
<1>5. ASSUME NEW f \in Facts, SkipCandidate(f) \/ CreateClaim(f) \/ CreateFails(f)  PROVE FALSE
  <2>1. job \in [kind: {"extract"}, memory: Memories, todo: SUBSET Facts]
    BY <1>5, JobKinds DEF SkipCandidate, CreateClaim, CreateFails, isExtracting, IInv
  <2> QED  BY <1>5, <2>1 DEF SkipCandidate, CreateClaim, CreateFails, candidateDone
<1>6. ASSUME NEW i \in ClaimIds, Resolve(i)  PROVE job' = Idle
  BY <1>6 DEF Resolve, call
<1>7. ASSUME NEW p \in Memories \X Memories, CompactSkip(p) \/ CompactMerge(p)
      PROVE  job'.kind = "compact"
  <2>1. job \in Compaction
    BY <1>7, JobKinds DEF CompactSkip, CompactMerge, atPhase, isCompacting, IInv
  <2>2. CASE CompactSkip(p)  BY <2>1, <2>2 DEF CompactSkip, Compaction
  <2>3. CASE CompactMerge(p)
    <3>1. PICK kept \in Memories, merged \in Memories : MergesInto(p, kept, merged)
      BY <2>3, MergedRows
    <3> QED  BY <2>1, <3>1 DEF Compaction, MergesInto
  <2> QED  BY <1>7, <2>2, <2>3
<1>8. ASSUME ReconcileBegin  PROVE job'.kind = "reconcile"
  BY <1>8 DEF ReconcileBegin
<1>9. ASSUME CompactBegin  PROVE job'.kind = "compact"
  BY <1>9 DEF CompactBegin
<1>10. ASSUME DeleteEnd \/ CompactEnd \/ ExecuteDeletion \/ Crash  PROVE job' = Idle
  BY <1>10 DEF DeleteEnd, CompactEnd, ExecuteDeletion, Crash, call
<1>11. ASSUME CompactArchive \/ CompactRelink \/ CompactDoubt \/ \E m \in Memories : CompactCool(m)
       PROVE  job'.kind = "compact"
  BY <1>11, CompactionSteps DEF Compaction
<1> QED
  BY <1>1, <1>2, <1>3, <1>4, <1>5, <1>6, <1>7, <1>8, <1>9, <1>10, <1>11 DEF Next

\* The claims of a row that is being deleted are gone.
LEMMA DeleteKept ==
    ASSUME IInv, [Next]_vars, job' # Idle, job'.kind = "delete"
    PROVE  claimsOf(claims', job'.memory) = {}
<1>1. CASE Next
  <2>1. PICK m \in Memories : DeleteBegin(m)  BY <1>1, RunningJobs
  <2>2. claims \in ClaimTable  BY DEF IInv, TypeOK, ClaimTable
  <2>3. claimsOf(detachedClaims(claims, m), m) = {}  BY <2>2, DetachedClaims
  <2> QED  BY <2>1, <2>3 DEF DeleteBegin
<1>2. CASE UNCHANGED vars
  BY <1>2, TraceableIs DEF vars, IInv
<1> QED  BY <1>1, <1>2

\* The rows that a compaction has to compare, to merge and to archive exist.
LEMMA CompactKept ==
    ASSUME IInv, [Next]_vars, job' # Idle, job'.kind = "compact"
    PROVE  CompactRows'
<1>1. CASE CompactBegin
  <2> DEFINE listed == {m \in Memories : hasStatus(m, "active")}
  <2>1. /\ job'.todo \subseteq listed \X listed /\ memories' = memories
        /\ job'.phase = "pairs"
    BY <1>1 DEF CompactBegin
  <2> QED  BY <2>1 DEF hasStatus, isRow, CompactRows
<1>2. ASSUME NEW p \in Memories \X Memories, CompactSkip(p)  PROVE CompactRows'
  <2>1. job \in Compaction
    BY <1>2, JobKinds DEF CompactSkip, atPhase, isCompacting, IInv
  <2>2. /\ job'.todo \subseteq job.todo /\ memories' = memories
        /\ job'.phase = job.phase /\ job.phase = "pairs"
    BY <1>2, <2>1 DEF CompactSkip, atPhase, Compaction
  <2> QED  BY <1>2, <2>2 DEF CompactSkip, atPhase, IInv, CompactRows, isRow
<1>3. ASSUME NEW p \in Memories \X Memories, CompactMerge(p)  PROVE CompactRows'
  <2>1. job \in Compaction
    BY <1>3, JobKinds DEF CompactMerge, atPhase, isCompacting, IInv
  <2>0. PICK kept \in Memories, merged \in Memories : MergesInto(p, kept, merged)
    BY <1>3, MergedRows
  <2>2. /\ isRow(kept) /\ isRow(merged)
        /\ memories'[kept] \in Row
        /\ \A m \in Memories \ {kept} : memories'[m] = memories[m]
        /\ job' = [job EXCEPT !.todo = @ \ {p}, !.left = p[1], !.phase = "archive",
                              !.kept = kept, !.merged = merged]
    BY <2>0 DEF MergesInto
  <2>3. /\ job'.todo \subseteq job.todo /\ job'.kept = kept /\ job'.merged = merged
        /\ job.todo \subseteq Memories \X Memories
    BY <2>1, <2>2 DEF Compaction
  <2>4. \A m \in Memories : isRow(m) => memories'[m] \notin {None, Gone}
    BY <2>2, NullAssumption DEF isRow
  <2>5. \A q \in job.todo : isRow(q[1]) /\ isRow(q[2])
    BY <1>3 DEF CompactMerge, atPhase, IInv, CompactRows
  <2> QED  BY <2>2, <2>3, <2>4, <2>5 DEF CompactRows, isRow
<1>4. CASE CompactArchive \/ CompactRelink \/ CompactDoubt \/ \E m \in Memories : CompactCool(m)
  <2>1. /\ job \in Compaction /\ job'.todo = job.todo
        /\ \A m \in Memories : isRow(m) => memories'[m] \notin {None, Gone}
    BY <1>4, CompactionSteps, NullAssumption
  <2>2. CompactRows /\ isCompacting /\ job.todo \subseteq Memories \X Memories
    BY <1>4, <2>1 DEF CompactArchive, CompactRelink, CompactDoubt, CompactCool, atPhase, IInv,
       Compaction
  <2>3. CASE CompactArchive
    <3>1. job' = [job EXCEPT !.phase = "relink"] /\ job.phase = "archive"
      BY <2>3 DEF CompactArchive, atPhase
    <3>2. job'.kept = job.kept /\ job'.merged = job.merged
      BY <2>1, <3>1 DEF Compaction
    <3> QED  BY <2>1, <2>2, <3>1, <3>2 DEF CompactRows, isRow
  <2>4. CASE CompactRelink \/ CompactDoubt
    <3>1. job'.phase \in {"pairs", "cool"}
      BY <2>1, <2>4 DEF CompactRelink, CompactDoubt, Compaction
    <3> QED  BY <2>1, <2>2, <3>1 DEF CompactRows, isRow
  <2>5. ASSUME NEW m \in Memories, CompactCool(m)  PROVE CompactRows'
    <3>1. job'.phase = "doubt" /\ job'.merged = m
      BY <2>1, <2>5 DEF CompactCool, Compaction
    <3>2. isRow(m)
      BY <2>5 DEF CompactCool, hasStatus
    <3> QED  BY <2>1, <2>2, <3>1, <3>2 DEF CompactRows, isRow
  <2> QED  BY <1>4, <2>3, <2>4, <2>5
<1>5. CASE UNCHANGED vars
  BY <1>5 DEF vars, IInv, CompactRows, isRow, isCompacting
<1> QED  BY <1>1, <1>2, <1>3, <1>4, <1>5, RunningJobs

\* What a reconciliation has still to repair.
LEMMA ReconcileKept ==
    ASSUME IInv, [Next]_vars, job' # Idle, job'.kind = "reconcile"
    PROVE  ReconcileLeft'
<1>0. claims \in ClaimTable /\ Anchored(memories, claims)
  BY TraceableIs DEF IInv, TypeOK, ClaimTable
<1>1. CASE ReconcileBegin
  <2>1. /\ job'.todo = {m \in Memories : hasStatus(m, "archived")}
        /\ memories' = memories /\ claims' = claims
    BY <1>1 DEF ReconcileBegin
  <2>2. \A i \in live : claims[i].memory # None =>
          claims[i].memory \in Memories /\ isRow(claims[i].memory)
    BY <1>0 DEF live, Anchored, isRow, ClaimTable, Claim
  <2>3. \A m \in Memories : isRow(m) => hasStatus(m, "active") \/ hasStatus(m, "archived")
    BY DEF IInv, TypeOK, isRow, hasStatus, Row
  <2> QED  BY <2>1, <2>2, <2>3 DEF ReconcileLeft, live, hasStatus, isRow
<1>2. ASSUME NEW m \in Memories, ReconcileNext(m)  PROVE ReconcileLeft'
  <2>1. job \in [kind: {"reconcile"}, todo: SUBSET Memories]
    BY <1>2, JobKinds DEF ReconcileNext, isReconciling, IInv
  <2>2. /\ job'.todo = job.todo \ {m}
        /\ memories' = memories
        /\ claims' = reconciled(m)
    BY <1>2, <2>1 DEF ReconcileNext
  <2>3. /\ Doubts(claims, claims')
        /\ \A i \in ClaimIds : claims'[i] # None /\ claims'[i].status = "active" =>
             claims'[i].memory # m /\ claims'[i].memory = claims[i].memory
    BY <2>2, ReconciledClaims DEF IInv
  <2>4. \A i \in ClaimIds : claims[i] # None /\ claims[i].status = "active" =>
          \/ claims[i].memory = None
          \/ hasStatus(claims[i].memory, "active")
          \/ claims[i].memory \in job.todo
    BY <1>2 DEF ReconcileNext, isReconciling, IInv, ReconcileLeft, live
  <2>5. \A i \in ClaimIds : claims'[i] # None /\ claims'[i].status = "active" =>
          \/ claims'[i].memory = None
          \/ hasStatus(claims'[i].memory, "active")
          \/ claims'[i].memory \in job'.todo
    BY <2>2, <2>3, <2>4 DEF Doubts
  <2> QED  BY <2>2, <2>5 DEF ReconcileLeft, live, hasStatus, isRow
<1>3. ASSUME NEW m \in Memories, ReconcileRelink(m)  PROVE ReconcileLeft'
  <2>1. memories' = memories /\ job' = job
    BY <1>3 DEF ReconcileRelink
  <2>2. /\ Doubts(claims, claims')
        /\ \A i \in ClaimIds : claims[i] # None =>
             claims'[i].memory = claims[i].memory \/ hasStatus(claims'[i].memory, "active")
    BY <1>3, RelinkStep DEF IInv
  <2>3. \A i \in ClaimIds : claims[i] # None /\ claims[i].status = "active" =>
          \/ claims[i].memory = None
          \/ hasStatus(claims[i].memory, "active")
          \/ claims[i].memory \in job.todo
    BY <1>3 DEF ReconcileRelink, isReconciling, IInv, ReconcileLeft, live
  <2>4. \A i \in ClaimIds : claims'[i] # None /\ claims'[i].status = "active" =>
          \/ claims'[i].memory = None
          \/ hasStatus(claims'[i].memory, "active")
          \/ claims'[i].memory \in job'.todo
    BY <2>1, <2>2, <2>3 DEF Doubts
  <2> QED  BY <2>1, <2>4 DEF ReconcileLeft, live, hasStatus, isRow
<1>4. CASE UNCHANGED vars
  BY <1>4 DEF vars, IInv, ReconcileLeft, live, hasStatus, isRow
<1> QED  BY <1>1, <1>2, <1>3, <1>4, RunningJobs

----------------------------------------------------------------------------
(* The theorems. *)

THEOREM Invariant == Spec => []IInv
<1>1. Init => IInv
  <2> SUFFICES ASSUME Init  PROVE IInv
    OBVIOUS
  <2>1. TypeOK  BY FactAssumption DEF Init, TypeOK
  <2>2. Traceable /\ CompactRows /\ ReconcileLeft
    BY DEF Init, Traceable, CompactRows, ReconcileLeft, isCompacting
  <2> QED  BY <2>1, <2>2 DEF IInv
<1>2. IInv /\ [Next]_vars => IInv'
  <2> SUFFICES ASSUME IInv, [Next]_vars  PROVE IInv'
    OBVIOUS
  <2>1. TypeOK'  BY TypeKept
  <2>2. Traceable'  BY AnchoredKept, DeleteKept DEF Traceable, Anchored, isRow
  <2>3. CompactRows'  BY CompactKept DEF CompactRows, isCompacting
  <2>4. ReconcileLeft'  BY ReconcileKept DEF ReconcileLeft
  <2> QED  BY <2>1, <2>2, <2>3, <2>4 DEF IInv
<1> QED  BY <1>1, <1>2, PTL DEF Spec

\* Every reachable state has the declared types.
THEOREM ClaimsTypeCorrect == Spec => []TypeOK
<1>1. IInv => TypeOK  BY DEF IInv
<1> QED  BY <1>1, Invariant, PTL

\* A claim can always be traced, and none holds back a row that is deleted.
THEOREM ClaimsTraceable == Spec => []Traceable
<1>1. IInv => Traceable  BY DEF IInv
<1> QED  BY <1>1, Invariant, PTL

\* No claim is lost or reworded, and the system only doubts active ones.
THEOREM ClaimsOnlyDoubted == Spec => SystemOnlyDoubts
<1> DEFINE Step(i) ==
        claims[i] # None =>
            /\ claims'[i] # None
            /\ claims'[i].fact = claims[i].fact
            /\ \/ claims'[i].status = claims[i].status
               \/ claims[i].status = "active" /\ claims'[i].status \in {"suspected_expired", "conflict"}
               \/ \E k \in ClaimIds : Resolve(k)
<1>1. IInv /\ [Next]_vars => [\A i \in ClaimIds : Step(i)]_vars
  <2> SUFFICES ASSUME IInv, [Next]_vars, NEW i \in ClaimIds, claims[i] # None  PROVE Step(i)
    OBVIOUS
  <2>0. claims \in ClaimTable  BY DEF IInv, TypeOK, ClaimTable
  <2>1. CASE Doubts(claims, claims')
    BY <2>1 DEF Doubts
  <2>2. ASSUME NEW f \in Facts, CreateClaim(f)  PROVE Step(i)
    <3>1. PICK j \in ClaimIds, after \in ClaimTable :
            /\ claims[j] = None
            /\ Doubts(claims, after)
            /\ claims' = [after EXCEPT ![j] = newClaim(f)]
      BY <2>2, CreatedClaims DEF IInv
    <3>2. claims'[i] = after[i]  BY <3>1 DEF ClaimTable
    <3> QED  BY <3>1, <3>2 DEF Doubts
  <2>3. ASSUME NEW k \in ClaimIds, Resolve(k)  PROVE Step(i)
    <3>1. PICK status \in Statuses, done \in SUBSET ClaimIds :
            /\ claims[k] # None
            /\ \A j \in done : claims[j] # None
            /\ claims'[k] = withStatus(claims[k], status)
            /\ \A j \in done : claims'[j] = withStatus(claims[j], "expired")
            /\ \A j \in ClaimIds \ (done \cup {k}) : claims'[j] = claims[j]
      BY <2>3, ResolvedClaims DEF IInv
    <3>2. claims[i] \in Claim /\ "expired" \in Statuses
      BY <2>0 DEF ClaimTable, Statuses
    <3>3. \A s \in Statuses : /\ withStatus(claims[i], s) \in Claim
                               /\ withStatus(claims[i], s).fact = claims[i].fact
      BY <3>2, StatusChange
    <3>4. claims'[i] \in Claim /\ claims'[i].fact = claims[i].fact
      BY <3>1, <3>2, <3>3
    <3> QED  BY <2>3, <3>4, NullAssumption
  <2> QED  BY <2>1, <2>2, <2>3, StepDoubts
<1> QED  BY <1>1, Invariant, PTL DEF Spec, SystemOnlyDoubts

\* A reconciliation that has come to its last row leaves no active claim on an
\* archived one.
THEOREM ReconciliationRepairs == Spec => ReconcileRepairs
<1> DEFINE Step(m) ==
        ReconcileNext(m) /\ job.todo = {m} =>
            \A i \in ClaimIds :
                claims'[i] # None /\ claims'[i].status = "active" /\ claims'[i].memory # None
                => hasStatus(claims'[i].memory, "active")
<1>1. IInv => [\A m \in Memories : Step(m)]_vars
  <2> SUFFICES ASSUME IInv, NEW m \in Memories, ReconcileNext(m), job.todo = {m},
                      NEW i \in ClaimIds, claims'[i] # None, claims'[i].status = "active",
                      claims'[i].memory # None
               PROVE  hasStatus(claims'[i].memory, "active")
    OBVIOUS
  <2>1. /\ Doubts(claims, claims')
        /\ claims'[i].memory # m /\ claims'[i].memory = claims[i].memory
    BY ReconciledClaims DEF ReconcileNext, IInv
  <2>2. i \in live  BY <2>1 DEF Doubts, live
  <2>3. \/ claims[i].memory = None
        \/ hasStatus(claims[i].memory, "active")
        \/ claims[i].memory \in {m}
    BY <2>2 DEF ReconcileNext, isReconciling, IInv, ReconcileLeft
  <2> QED  BY <2>1, <2>3
<1> QED  BY <1>1, Invariant, PTL DEF Spec, ReconcileRepairs

\* Overlapping active claims of one slot exist only by a user's decision.
THEOREM SlotsStaySingle == Spec => []OneActivePerSlot
<1>1. Init => OneActivePerSlot
  BY DEF Init, OneActivePerSlot, live
<1>2. IInv /\ OneActivePerSlot /\ [Next]_vars => OneActivePerSlot'
  <2> SUFFICES ASSUME IInv, OneActivePerSlot, [Next]_vars,
                      NEW i \in ClaimIds, NEW j \in ClaimIds, i # j,
                      claims'[i] # None, claims'[i].status = "active",
                      claims'[j] # None, claims'[j].status = "active",
                      sameSlot(claims'[i], claims'[j]), overlap(claims'[i], claims'[j])
               PROVE  i \in confirmed' \/ j \in confirmed'
    BY DEF OneActivePerSlot, live, sameSlot, overlap, before
  <2>0. claims \in ClaimTable  BY DEF IInv, TypeOK, ClaimTable
  <2> DEFINE Stays(k) == /\ claims[k] # None /\ claims[k].status = "active"
                         /\ claims'[k].fact = claims[k].fact /\ claims'[k].to = claims[k].to
  <2>a. ASSUME Stays(i), Stays(j), confirmed \subseteq confirmed'
        PROVE  i \in confirmed' \/ j \in confirmed'
    BY <2>a DEF OneActivePerSlot, live, sameSlot, overlap, before
  <2>1. CASE Doubts(claims, claims') /\ confirmed' = confirmed
    <3>1. Stays(i) /\ Stays(j)  BY <2>1 DEF Doubts
    <3> QED  BY <2>1, <2>a, <3>1
  <2>2. ASSUME NEW f \in Facts, CreateClaim(f)  PROVE i \in confirmed' \/ j \in confirmed'
    <3>1. PICK n \in ClaimIds, after \in ClaimTable :
            /\ claims[n] = None
            /\ Doubts(claims, after)
            /\ claims' = [after EXCEPT ![n] = newClaim(f)]
      BY <2>2, CreatedClaims DEF IInv
    <3>2. \A k \in ClaimIds : claims'[k] = IF k = n THEN newClaim(f) ELSE after[k]
      BY <3>1 DEF ClaimTable
    <3>3. \A k \in {i, j} : k # n => Stays(k)
      BY <3>1, <3>2 DEF Doubts
    <3>4. CASE i # n /\ j # n
      BY <2>2, <2>a, <3>3, <3>4 DEF CreateClaim
    <3>5. ASSUME NEW k \in ClaimIds, Stays(k), claims'[n] = newClaim(f), claims'[n].status = "active",
                 \/ sameSlot(claims'[n], claims'[k]) /\ overlap(claims'[n], claims'[k])
                 \/ sameSlot(claims'[k], claims'[n]) /\ overlap(claims'[k], claims'[n])
          PROVE  FALSE
      <4>1. newClaim(f).fact = f /\ newClaim(f).to = FactOf[f].to  BY DEF newClaim
      <4>2. sameSlot(claims[k], candidate(f)) /\ overlap(claims[k], candidate(f))
        BY <3>5, <4>1 DEF sameSlot, overlap, candidate
      <4>3. k \in duplicates(f) \/ k \in rivals(f)
        BY <3>5, <4>2 DEF duplicates, rivals, contradicts, live
      <4>4. rivals(f) = {}  BY <3>5 DEF newClaim
      <4>5. duplicates(f) = {}  BY <2>2 DEF CreateClaim
      <4> QED  BY <4>3, <4>4, <4>5
    <3>6. CASE i = n
      BY <3>2, <3>3, <3>5, <3>6
    <3>7. CASE j = n
      BY <3>2, <3>3, <3>5, <3>7
    <3> QED  BY <3>4, <3>6, <3>7
  <2>3. ASSUME NEW u \in ClaimIds, Resolve(u)  PROVE i \in confirmed' \/ j \in confirmed'
    <3>1. PICK status \in Statuses, done \in SUBSET ClaimIds :
            /\ claims[u] # None
            /\ \A k \in done : claims[k] # None
            /\ claims'[u] = withStatus(claims[u], status)
            /\ \A k \in done : claims'[k] = withStatus(claims[k], "expired")
            /\ \A k \in ClaimIds \ (done \cup {u}) : claims'[k] = claims[k]
            /\ confirmed' = IF status = "active" THEN confirmed \cup {u} ELSE confirmed
      BY <2>3, ResolvedClaims DEF IInv
    <3>2. "expired" \in Statuses /\ \A k \in ClaimIds : claims[k] # None => claims[k] \in Claim
      BY <2>0 DEF ClaimTable, Statuses
    <3>3. \A k \in done : claims'[k].status = "expired"
      BY <3>1, <3>2, StatusChange
    <3>4. claims'[u].status = status \/ u \in done
      BY <3>1, <3>2, StatusChange
    <3>5. \A k \in {i, j} : k # u => Stays(k)
      BY <3>1, <3>3
    <3>6. CASE i # u /\ j # u
      BY <2>a, <3>1, <3>5, <3>6
    <3>7. CASE i = u \/ j = u
      BY <3>1, <3>3, <3>4, <3>7
    <3> QED  BY <3>6, <3>7
  <2>4. ASSUME UNCHANGED vars  PROVE Doubts(claims, claims') /\ confirmed' = confirmed
    BY <2>0, <2>4, DoubtsNothing DEF vars
  <2> QED  BY <2>1, <2>2, <2>3, <2>4, StepDoubts
<1> QED  BY <1>1, <1>2, Invariant, PTL DEF Spec

----------------------------------------------------------------------------
(* Compaction of rows that are similar in pairs. *)

isMerging == isCompacting /\ job.phase \in {"pairs", "archive", "relink"}

\* The text that row m had in the snapshot is in the active row n, which is m or
\* the row it was merged into.
holds(m, n) ==
    /\ hasStatus(n, "active")
    /\ job.snapshot[m] \subseteq memories[n].text
    /\ n # m => similar(<<m, n>>) /\ {<<m, n>>, <<n, m>>} \cap job.todo = {}

\* Before the older row of a pair is archived, the newer one has both texts.
TextsHeld ==
    isMerging =>
        /\ \A q \in job.todo : q[1] < q[2]
        /\ inPairs => \A m \in Memories :
                        job.snapshot[m] # {} => \E n \in Memories : holds(m, n)
        /\ job.phase = "archive" =>
              /\ job.kept # job.merged
              /\ similar(<<job.kept, job.merged>>)
              /\ inPairs => holds(job.kept, job.kept) /\ holds(job.merged, job.kept)

\* Two rows that are merged have not been merged before: they hold their own texts.
LEMMA OwnText ==
    ASSUME TextsHeld, isMerging, inPairs, NEW m \in Memories, NEW r \in Memories,
           m # r, similar(<<m, r>>), {<<m, r>>, <<r, m>>} \cap job.todo # {}
    PROVE  hasStatus(m, "active")
<1>1. PICK n \in Memories : holds(m, n)
  BY DEF TextsHeld, similar
<1>2. n # m => n = r
  BY <1>1 DEF holds, inPairs, similar
<1> QED  BY <1>1, <1>2 DEF holds

\* Writing both texts to the newer row leaves every text held.
LEMMA TextsMerged ==
    ASSUME IInv, TextsHeld, NEW p \in Memories \X Memories, CompactMerge(p)
    PROVE  TextsHeld'
<1>1. job \in Compaction
  BY JobKinds DEF CompactMerge, atPhase, isCompacting, IInv
<1>0. PICK kept \in Memories, merged \in Memories : MergesInto(p, kept, merged)
  BY MergedRows
<1>2. /\ {kept, merged} = {p[1], p[2]}
      /\ isRow(kept)
      /\ memories'[kept] \in Row
      /\ memories'[kept].text = job.snapshot[kept] \cup job.snapshot[merged]
      /\ memories'[kept].status = memories[kept].status
      /\ \A m \in Memories \ {kept} : memories'[m] = memories[m]
      /\ job' = [job EXCEPT !.todo = @ \ {p}, !.left = p[1], !.phase = "archive",
                            !.kept = kept, !.merged = merged]
  BY <1>0 DEF MergesInto
<1>11. p = <<p[1], p[2]>>
  OBVIOUS
<1>3. isMerging /\ p \in job.todo /\ similar(p)
  BY DEF CompactMerge, isNextPair, atPhase, isMerging
<1>4. /\ job'.todo = job.todo \ {p} /\ job'.snapshot = job.snapshot
      /\ job'.kept = kept /\ job'.merged = merged
  BY <1>1, <1>2 DEF Compaction
<1>5. \A q \in job.todo : q[1] < q[2]
  BY <1>3 DEF TextsHeld
<1>6. kept # merged
  BY <1>2, <1>3, <1>5, FactAssumption
<1>7. similar(<<kept, merged>>)
  BY <1>2, <1>3, <1>6, <1>11 DEF similar
<1>8. {<<kept, merged>>, <<merged, kept>>} \cap job.todo # {}
  BY <1>2, <1>3, <1>6, <1>11
<1>9. {<<kept, merged>>, <<merged, kept>>} \cap job'.todo = {}
  BY <1>2, <1>3, <1>4, <1>5, <1>6, <1>11, FactAssumption
<1>10. ASSUME inPairs'
       PROVE  /\ holds(kept, kept)' /\ holds(merged, kept)'
              /\ \A m \in Memories : job'.snapshot[m] # {} => \E n \in Memories : holds(m, n)'
  <2>0. inPairs
    BY <1>4, <1>10 DEF inPairs, similar
  <2>1. hasStatus(kept, "active")
    BY <1>3, <1>6, <1>7, <1>8, <2>0, OwnText
  <2>2. hasStatus(kept, "active")'
    BY <1>2, <2>1, NullAssumption DEF hasStatus, isRow
  <2>3. holds(kept, kept)' /\ holds(merged, kept)'
    BY <1>2, <1>4, <1>6, <1>7, <1>9, <2>2 DEF holds, similar
  <2>4. ASSUME NEW m \in Memories \ {kept, merged}, job'.snapshot[m] # {}
        PROVE  \E n \in Memories : holds(m, n)'
    <3>1. PICK n \in Memories : holds(m, n)
      BY <1>3, <1>4, <2>0, <2>4 DEF TextsHeld
    <3>2. n # kept
      BY <1>6, <1>7, <2>0, <3>1 DEF holds, inPairs, similar
    <3>3. holds(m, n)'
      BY <1>2, <1>4, <3>1, <3>2 DEF holds, similar, hasStatus, isRow
    <3> QED  BY <3>3
  <2> QED  BY <2>3, <2>4
<1>12. similar(<<kept, merged>>)'
  BY <1>4, <1>7 DEF similar
<1> QED  BY <1>4, <1>5, <1>6, <1>10, <1>12 DEF TextsHeld

\* Archiving the older row takes no text away: the newer one has it, and no third
\* row was merged into it.
LEMMA TextsArchived ==
    ASSUME IInv, TextsHeld, CompactArchive
    PROVE  TextsHeld'
<1>1. /\ job \in Compaction /\ isMerging /\ job.phase = "archive"
      /\ job.kept \in Memories /\ job.merged \in Memories /\ isRow(job.merged)
  BY JobKinds DEF CompactArchive, atPhase, isCompacting, isMerging, IInv, CompactRows
<1>2. /\ \A n \in Memories \ {job.merged} : memories'[n] = memories[n]
      /\ job' = [job EXCEPT !.phase = "relink"]
  BY <1>1, ArchivedRow DEF CompactArchive, IInv
<1>3. job'.todo = job.todo /\ job'.snapshot = job.snapshot /\ job'.phase = "relink"
  BY <1>1, <1>2 DEF Compaction
<1>4. ASSUME inPairs', NEW m \in Memories, job'.snapshot[m] # {}
      PROVE  \E n \in Memories : holds(m, n)'
  <2>0. inPairs
    BY <1>3, <1>4 DEF inPairs, similar
  <2>1. \A n \in Memories \ {job.merged} : holds(m, n) => holds(m, n)'
    BY <1>2, <1>3 DEF holds, similar, hasStatus, isRow
  <2>2. CASE m \in {job.kept, job.merged}
    <3>1. holds(m, job.kept) /\ job.kept # job.merged
      BY <1>1, <2>0, <2>2 DEF TextsHeld
    <3> QED  BY <1>1, <2>1, <3>1
  <2>3. CASE m \notin {job.kept, job.merged}
    <3>1. PICK n \in Memories : holds(m, n)
      BY <1>1, <1>3, <1>4, <2>0 DEF TextsHeld
    <3>2. n # job.merged
      BY <1>1, <2>0, <2>3, <3>1 DEF TextsHeld, holds, inPairs, similar
    <3> QED  BY <2>1, <3>1, <3>2
  <2> QED  BY <2>2, <2>3
<1> QED  BY <1>1, <1>3, <1>4 DEF TextsHeld

\* The texts of a compaction stay held.
LEMMA TextsKept ==
    ASSUME IInv, TextsHeld, [Next]_vars
    PROVE  TextsHeld'
<1>1. CASE CompactBegin
  <2>1. /\ memories' = memories
        /\ \A m \in Memories : job'.snapshot[m] # {} =>
              hasStatus(m, "active") /\ job'.snapshot[m] = memories[m].text
        /\ \A q \in job'.todo : q[1] < q[2]
        /\ job'.phase = "pairs"
    BY <1>1 DEF CompactBegin
  <2>2. \A m \in Memories : job'.snapshot[m] # {} => holds(m, m)'
    BY <2>1 DEF holds, hasStatus, isRow
  <2> QED  BY <2>1, <2>2 DEF TextsHeld
<1>2. ASSUME \/ CompactRelink
             \/ \E p \in Memories \X Memories : CompactSkip(p)
      PROVE  TextsHeld'
  <2>1. job \in Compaction /\ isMerging
    BY <1>2, JobKinds DEF CompactSkip, CompactRelink, atPhase, isCompacting, isMerging, IInv
  <2>2. /\ job'.todo \subseteq job.todo /\ job'.snapshot = job.snapshot /\ memories' = memories
        /\ job'.phase = "pairs"
    <3>1. CASE CompactRelink
      BY <2>1, <3>1 DEF CompactRelink, Compaction
    <3>2. ASSUME NEW p \in Memories \X Memories, CompactSkip(p)
          PROVE  /\ job'.todo \subseteq job.todo /\ job'.snapshot = job.snapshot
                 /\ memories' = memories /\ job'.phase = "pairs"
      BY <2>1, <3>2 DEF CompactSkip, atPhase, Compaction
    <3> QED  BY <1>2, <3>1, <3>2
  <2>3. \A m, n \in Memories : holds(m, n) => holds(m, n)'
    BY <2>2 DEF holds, similar, hasStatus, isRow
  <2>4. inPairs' => inPairs
    BY <2>2 DEF inPairs, similar
  <2> QED  BY <2>1, <2>2, <2>3, <2>4 DEF TextsHeld
<1>3. ASSUME NEW p \in Memories \X Memories, CompactMerge(p)  PROVE TextsHeld'
  BY <1>3, TextsMerged
<1>4. CASE CompactArchive
  BY <1>4, TextsArchived
<1>5. ASSUME CompactDoubt \/ \E m \in Memories : CompactCool(m)  PROVE ~isMerging'
  <2>1. job \in Compaction
    BY <1>5, CompactionSteps
  <2> QED  BY <1>5, <2>1 DEF CompactDoubt, CompactCool, Compaction, isMerging
<1>6. CASE UNCHANGED vars
  BY <1>6 DEF vars, TextsHeld, holds, inPairs, similar, hasStatus, isRow, isMerging, isCompacting
<1> QED  BY <1>1, <1>2, <1>3, <1>4, <1>5, <1>6, RunningJobs DEF TextsHeld, isMerging, isCompacting

\* A compaction of rows that are similar in pairs takes no text out of the active
\* rows, for any number of rows and in any order of their ages.
THEOREM PairsKeepTexts == Spec => []PairsStayActive
<1>1. Init => TextsHeld
  BY DEF Init, TextsHeld, isMerging, isCompacting
<1>2. TextsHeld => PairsStayActive
  BY DEF TextsHeld, PairsStayActive, MergedTextStaysActive, holds, isMerging
<1> QED  BY <1>1, <1>2, TextsKept, Invariant, PTL DEF Spec
=============================================================================
