----------------------------- MODULE FactClaims -----------------------------
(***************************************************************************)
(* The claims that are extracted from memories, and what becomes of them   *)
(* when their memory is rewritten, merged, archived or deleted             *)
(* (src/core/fact-claim-service.ts, sidecar-reconciler.ts, compact.ts,     *)
(* lifecycle.ts and the fact_claims part of src/db/repository.ts).         *)
(*                                                                         *)
(* An extraction awaits the chat provider; everything else is synchronous. *)
(* The synchronous handlers that commit several times are jobs: while one  *)
(* runs nothing else does, but the process may end between two commits.    *)
(*                                                                         *)
(* Data.  A text is the set of facts it states, so that concatenation is   *)
(* union and containment is the subset relation.  A fact is a value of a   *)
(* slot (a subject and a predicate) over an interval.  One project and one *)
(* type; confidence, precision, topics and audit entries are left out.     *)
(***************************************************************************)
EXTENDS Naturals, FiniteSets

CONSTANTS Memories,   \* row ids, numbers in the order a table scan lists them
          ClaimIds,   \* claim ids, numbers in the order of creation
          Facts, Slots, Values,
          FactOf,     \* what each fact says
          Texts,      \* the texts that callers write
          Now,        \* the instant at which claims expire
          Open,       \* a valid_to of null
          MaxCalls,   \* bound: calls made
          None, Gone, \* no row yet, a deleted row
          Idle        \* no job

Ends == Nat \cup {Open}
Statuses == {"active", "suspected_expired", "conflict", "expired"}

ASSUME FactAssumption ==
    /\ Memories \subseteq Nat /\ ClaimIds \subseteq Nat
    /\ FactOf \in [Facts -> [slot: Slots, value: Values, from: Nat, to: Ends]]
    /\ Texts \subseteq (SUBSET Facts) \ {{}}
    /\ Now \in Nat /\ MaxCalls \in Nat
    /\ Open \notin Nat
    /\ None \notin Memories

Row == [text: SUBSET Facts, status: {"active", "archived"}, embedded: BOOLEAN]

\* evidenced: evidence_archive_id is set.  FactOf gives slot, value and valid_from.
Claim == [fact: Facts, to: Ends, status: Statuses, memory: Memories \cup {None},
          evidenced: BOOLEAN]

ASSUME NullAssumption == None \notin Row /\ None \notin Claim /\ Gone \notin Row

VARIABLES memories,   \* the memories table
          claims,     \* fact_claims
          extracting, \* extractions that await the chat provider
          job,        \* the synchronous handler that is running
          confirmed,  \* history: the claims a user has set active
          calls       \* calls made, up to MaxCalls

vars == <<memories, claims, extracting, job, confirmed, calls>>

isRow(m) == memories[m] \notin {None, Gone}
hasStatus(m, status) == isRow(m) /\ memories[m].status = status
claimsOf(table, m) == {i \in ClaimIds : table[i] # None /\ table[i].memory = m}

call == job = Idle /\ calls < MaxCalls /\ calls' = calls + 1

----------------------------------------------------------------------------
(* Facts, claims and the status machine of fact_claims. *)

before(instant, end) == end = Open \/ instant < end

\* A claim is compared with a candidate or a claim as [fact, to].
overlap(c, d) ==
    before(FactOf[d.fact].from, c.to) /\ before(FactOf[c.fact].from, d.to)

sameSlot(c, d) == FactOf[c.fact].slot = FactOf[d.fact].slot
sameValue(c, d) == FactOf[c.fact].value = FactOf[d.fact].value

contradicts(c, d) == sameSlot(c, d) /\ ~sameValue(c, d) /\ overlap(c, d)

\* claimIdentity.
identity(c) == <<FactOf[c.fact].slot, FactOf[c.fact].value, FactOf[c.fact].from, c.to>>

candidate(f) == [fact |-> f, to |-> FactOf[f].to]

\* validateFactClaimTransition for a user; the system's transitions are those
\* from active.
userMay(from, to) ==
    \/ from = to
    \/ <<from, to>> \in ({"active"} \X Statuses)
                        \cup ({"suspected_expired", "conflict"} \X {"active", "expired"})

\* updateFactClaimStatus.
withStatus(c, status) ==
    [c EXCEPT !.status = status,
              !.to = CASE status = "expired" /\ @ = Open -> Now
                       [] status = "active" -> Open
                       [] OTHER -> @]

\* CHECK (valid_to >= valid_from) makes an expiry throw that would end a claim
\* before it begins.
expiryThrows(c) == ~before(FactOf[c.fact].from, withStatus(c, "expired").to)
                   /\ FactOf[c.fact].from # withStatus(c, "expired").to

marked(table, which, status) ==
    [i \in ClaimIds |-> IF i \in which THEN withStatus(table[i], status) ELSE table[i]]

activeIn(table, which) == {i \in which : table[i].status = "active"}

----------------------------------------------------------------------------
(* MemoryService: the writes, which end with the start of an extraction. *)

syncFactClaims(m, text) == extracting' = extracting \cup {[memory |-> m, text |-> text]}

Store(m) == \E text \in Texts :
    /\ call
    /\ memories[m] = None
    /\ memories' = [memories EXCEPT ![m] = [text |-> text, status |-> "active", embedded |-> TRUE]]
    /\ syncFactClaims(m, text)
    /\ UNCHANGED <<claims, job, confirmed>>

\* update(), or a store that merges; an archived row is not extracted from.
Rewrite(m) == \E text \in Texts :
    /\ call
    /\ isRow(m)
    /\ memories' = [memories EXCEPT ![m].text = text, ![m].embedded = TRUE]
    /\ IF hasStatus(m, "active") THEN syncFactClaims(m, text) ELSE UNCHANGED extracting
    /\ UNCHANGED <<claims, job, confirmed>>

\* archiveSupersededTaskStates does not tell the sidecar.
Supersede(m) ==
    /\ call
    /\ hasStatus(m, "active")
    /\ memories' = [memories EXCEPT ![m].status = "archived"]
    /\ UNCHANGED <<claims, extracting, job, confirmed>>

----------------------------------------------------------------------------
(* FactClaimService.extractClaims, once the provider has answered. *)

\* The claims of the row that the answer no longer has.
stale(m, yields) ==
    {i \in activeIn(claims, claimsOf(claims, m)) :
        \A f \in yields : ~(sameSlot(claims[i], candidate(f)) /\ sameValue(claims[i], candidate(f)))}

\* The provider yields the facts of the text, or nothing when it fails.  The
\* process may end before every stale claim is marked.
ExtractBegin(e) == \E yields \in {e.text, {}} : \E done \in SUBSET stale(e.memory, yields) :
    /\ job = Idle
    /\ Cardinality(yields) <= Cardinality({i \in ClaimIds : claims[i] = None})
    /\ claims' = marked(claims, done, "suspected_expired")
    /\ IF done = stale(e.memory, yields)
       THEN /\ extracting' = extracting \ {e}
            /\ job' = IF yields = {} THEN Idle
                      ELSE [kind |-> "extract", memory |-> e.memory, todo |-> yields]
       ELSE extracting' = {} /\ job' = Idle
    /\ UNCHANGED <<memories, confirmed, calls>>

live == {i \in ClaimIds : claims[i] # None /\ claims[i].status = "active"}

duplicates(f) ==
    {i \in live : /\ sameSlot(claims[i], candidate(f)) /\ sameValue(claims[i], candidate(f))
                  /\ overlap(claims[i], candidate(f))}

rivals(f) == {i \in live : contradicts(claims[i], candidate(f))}

isExtracting == job # Idle /\ job.kind = "extract"

candidateDone(f) ==
    job' = IF job.todo = {f} THEN Idle ELSE [job EXCEPT !.todo = @ \ {f}]

SkipCandidate(f) ==
    /\ isExtracting /\ f \in job.todo
    /\ duplicates(f) # {}
    /\ candidateDone(f)
    /\ UNCHANGED <<memories, claims, extracting, confirmed, calls>>

\* Mutant: a claim is created active whatever it contradicts.
newClaim_Active(f) ==
    [fact |-> f, to |-> FactOf[f].to, status |-> "active", memory |-> job.memory,
     evidenced |-> FALSE]

newClaim(f) ==
    [fact |-> f, to |-> FactOf[f].to, status |-> IF rivals(f) = {} THEN "active" ELSE "conflict",
     memory |-> job.memory, evidenced |-> FALSE]

\* The process may end before every rival is marked.
CreateClaim(f) == \E i \in ClaimIds, done \in SUBSET rivals(f) :
    /\ isExtracting /\ f \in job.todo
    /\ duplicates(f) = {}
    /\ isRow(job.memory)
    /\ claims[i] = None
    /\ \A j \in ClaimIds : claims[j] = None => i <= j
    /\ claims' = [marked(claims, done, "conflict") EXCEPT ![i] = newClaim(f)]
    /\ IF done = rivals(f) THEN candidateDone(f) /\ UNCHANGED extracting
                           ELSE job' = Idle /\ extracting' = {}
    /\ UNCHANGED <<memories, confirmed, calls>>

\* The row was deleted during the await: its foreign key makes the insert throw.
CreateFails(f) ==
    /\ isExtracting /\ f \in job.todo
    /\ duplicates(f) = {}
    /\ ~isRow(job.memory)
    /\ job' = Idle
    /\ UNCHANGED <<memories, claims, extracting, confirmed, calls>>

----------------------------------------------------------------------------
(* FactClaimService.resolveClaim. *)

\* findConflictingClaims, of which resolveClaim expires those in conflict.
competing(table, i) ==
    LET rows == {j \in ClaimIds : /\ table[j] # None /\ table[j].status # "expired"
                                  /\ sameSlot(table[i], table[j])}
    IN  {j \in rows \ {i} : /\ table[j].status = "conflict"
                            /\ \E k \in rows : contradicts(table[j], table[k])}

\* A user sets a status.  Settling a conflict expires the competing claims one
\* by one, up to the first whose expiry throws, or until the process ends.
Resolve(i) == \E status \in Statuses :
    LET table  == [claims EXCEPT ![i] = withStatus(@, status)]
        losers == IF claims[i].status = "conflict" /\ status = "active"
                  THEN competing(table, i) ELSE {}
        stuck  == {j \in losers : expiryThrows(table[j])}
    IN
    /\ call
    /\ claims[i] # None
    /\ userMay(claims[i].status, status)
    /\ status = "expired" => ~expiryThrows(claims[i])
    /\ \E done \in SUBSET (losers \ stuck) :
        /\ claims' = marked(table, done, "expired")
        /\ IF stuck = {} /\ done # losers THEN extracting' = {} ELSE UNCHANGED extracting
    /\ confirmed' = IF status = "active" THEN confirmed \cup {i} ELSE confirmed
    /\ UNCHANGED <<memories, job>>

----------------------------------------------------------------------------
(* SidecarReconciler. *)

\* onMemoryMerged: claims move to the kept row; an active one that the kept row
\* already has is suspected.
relinked(table, kept, merged) ==
    LET moved == claimsOf(table, merged)
        duplicate(i) == \E j \in activeIn(table, claimsOf(table, kept) \cup moved) :
                           /\ j \in moved => j < i
                           /\ identity(table[j]) = identity(table[i])
        again == {i \in activeIn(table, moved) : duplicate(i)}
    IN  [i \in ClaimIds |-> IF i \in moved
                            THEN [marked(table, again, "suspected_expired")[i] EXCEPT !.memory = kept]
                            ELSE table[i]]

\* Mutant: a claim ends with the row it came from.
archivedClaims_Expired(table, rows) ==
    marked(table, activeIn(table, UNION {claimsOf(table, m) : m \in rows}), "expired")

\* Mutant: the claims take over the status of their row.
archivedClaims_Archived(table, rows) ==
    marked(table, activeIn(table, UNION {claimsOf(table, m) : m \in rows}), "archived")

\* onMemoryArchived.
archivedClaims(table, rows) ==
    marked(table, activeIn(table, UNION {claimsOf(table, m) : m \in rows}), "suspected_expired")

\* Mutant: only the claims that are still active get their evidence relinked.
detachedClaims_Active(table, m) ==
    [i \in ClaimIds |-> IF i \in activeIn(table, claimsOf(table, m))
                        THEN [table[i] EXCEPT !.memory = None, !.evidenced = TRUE,
                                              !.status = "suspected_expired"]
                        ELSE table[i]]

\* onMemoryDeleted: every claim of the row is anchored in the raw archive.
detachedClaims(table, m) ==
    [i \in ClaimIds |-> IF i \in claimsOf(table, m)
                        THEN [archivedClaims(table, {m})[i] EXCEPT !.memory = None, !.evidenced = TRUE]
                        ELSE table[i]]

DeleteBegin(m) ==
    /\ call
    /\ isRow(m)
    /\ claims' = detachedClaims(claims, m)
    /\ job' = [kind |-> "delete", memory |-> m]
    /\ UNCHANGED <<memories, extracting, confirmed>>

\* The row goes unless a claim's foreign key holds it.
DeleteEnd ==
    /\ job # Idle /\ job.kind = "delete"
    /\ memories' = IF claimsOf(claims, job.memory) = {}
                   THEN [memories EXCEPT ![job.memory] = Gone] ELSE memories
    /\ job' = Idle
    /\ UNCHANGED <<claims, extracting, confirmed, calls>>

ReconcileBegin ==
    LET archived == {m \in Memories : hasStatus(m, "archived")} IN
    /\ call
    /\ archived # {}
    /\ job' = [kind |-> "reconcile", todo |-> archived]
    /\ UNCHANGED <<memories, claims, extracting, confirmed>>

\* findMergeTarget: contentOverlaps with exactly one active row.
mergeTargets(m) ==
    {t \in Memories \ {m} : /\ hasStatus(t, "active")
                            /\ \/ memories[t].text \subseteq memories[m].text
                               \/ memories[m].text \subseteq memories[t].text}

isReconciling(m) == job # Idle /\ job.kind = "reconcile" /\ m \in job.todo

\* Only a row that has claims, or topics, is given a merge target.
hasTarget(m) == claimsOf(claims, m) # {} /\ \E t \in Memories : mergeTargets(m) = {t}

\* onMemoryMerged leaves the row without claims of its own.
ReconcileRelink(m) ==
    /\ isReconciling(m)
    /\ hasTarget(m)
    /\ claims' = relinked(claims, CHOOSE t \in Memories : mergeTargets(m) = {t}, m)
    /\ UNCHANGED <<memories, extracting, job, confirmed, calls>>

\* Mutant: a reconciliation relinks what was merged and does nothing else.
reconciled_RelinkOnly(m) == claims

\* onMemoryArchived.
reconciled(m) == archivedClaims(claims, {m})

ReconcileNext(m) ==
    /\ isReconciling(m)
    /\ ~hasTarget(m)
    /\ claims' = reconciled(m)
    /\ job' = IF job.todo = {m} THEN Idle ELSE [job EXCEPT !.todo = @ \ {m}]
    /\ UNCHANGED <<memories, extracting, confirmed, calls>>

----------------------------------------------------------------------------
(* CompactService.compact: pairs of a snapshot, each merged in three commits,  *)
(* then the rows that have cooled, each archived in two.                      *)

isCompacting == job # Idle /\ job.kind = "compact"
atPhase(phase) == isCompacting /\ job.phase = phase

\* age orders the rows by the updated_at of the snapshot.
CompactBegin ==
    LET snapshot == [m \in Memories |-> IF hasStatus(m, "active") /\ memories[m].embedded
                                        THEN memories[m].text ELSE {}]
        listed == {m \in Memories : snapshot[m] # {}}
    IN
    /\ call
    /\ \E age \in [Memories -> Memories] :
        /\ \A l, r \in Memories : age[l] = age[r] => l = r
        /\ job' = [kind |-> "compact", snapshot |-> snapshot, age |-> age, left |-> None,
                   todo |-> {p \in listed \X listed : p[1] < p[2]}, archived |-> {},
                   phase |-> "pairs", kept |-> None, merged |-> None]
    /\ UNCHANGED <<memories, claims, extracting, confirmed>>

isNextPair(p) ==
    /\ p \in job.todo
    /\ \A q \in job.todo : p[1] < q[1] \/ (p[1] = q[1] /\ p[2] <= q[2])

\* The outer loop asks whether its row is archived only when it comes to it.
outerSkips(p) == p[1] # job.left /\ p[1] \in job.archived

similar(p) == job.snapshot[p[1]] \cap job.snapshot[p[2]] # {}

CompactSkip(p) ==
    /\ atPhase("pairs") /\ isNextPair(p)
    /\ outerSkips(p) \/ p[2] \in job.archived \/ ~similar(p)
    /\ job' = IF outerSkips(p) THEN [job EXCEPT !.todo = {q \in @ : q[1] # p[1]}]
              ELSE [job EXCEPT !.todo = @ \ {p}, !.left = p[1]]
    /\ UNCHANGED <<memories, claims, extracting, confirmed, calls>>

\* The newer row gets both texts; they come from the snapshot, whatever the loop
\* has made of the rows.
CompactMerge(p) ==
    LET newer == IF job.age[p[1]] >= job.age[p[2]] THEN p[1] ELSE p[2]
        older == IF newer = p[1] THEN p[2] ELSE p[1]
    IN
    /\ atPhase("pairs") /\ isNextPair(p)
    /\ ~outerSkips(p) /\ p[2] \notin job.archived /\ similar(p)
    /\ memories' = [memories EXCEPT
            ![newer].text = job.snapshot[newer] \cup job.snapshot[older],
            ![newer].embedded = FALSE]
    /\ job' = [job EXCEPT !.todo = @ \ {p}, !.left = p[1], !.phase = "archive",
                          !.kept = newer, !.merged = older]
    /\ UNCHANGED <<claims, extracting, confirmed, calls>>

CompactArchive ==
    /\ atPhase("archive")
    /\ memories' = [memories EXCEPT ![job.merged].status = "archived"]
    /\ job' = [job EXCEPT !.phase = "relink"]
    /\ UNCHANGED <<claims, extracting, confirmed, calls>>

CompactRelink ==
    /\ atPhase("relink")
    /\ claims' = relinked(claims, job.kept, job.merged)
    /\ job' = [job EXCEPT !.phase = "pairs", !.archived = @ \cup {job.merged},
                          !.kept = None, !.merged = None]
    /\ UNCHANGED <<memories, extracting, confirmed, calls>>

\* A row of little importance, or a cooled task state.
CompactCool(m) ==
    /\ atPhase("pairs") \/ atPhase("cool")
    /\ job.todo = {}
    /\ m \notin job.archived
    /\ hasStatus(m, "active")
    /\ memories' = [memories EXCEPT ![m].status = "archived"]
    /\ job' = [job EXCEPT !.phase = "doubt", !.merged = m]
    /\ UNCHANGED <<claims, extracting, confirmed, calls>>

CompactDoubt ==
    /\ atPhase("doubt")
    /\ claims' = archivedClaims(claims, {job.merged})
    /\ job' = [job EXCEPT !.phase = "cool", !.merged = None]
    /\ UNCHANGED <<memories, extracting, confirmed, calls>>

CompactEnd ==
    /\ atPhase("pairs") \/ atPhase("cool")
    /\ job.todo = {}
    /\ job' = Idle
    /\ UNCHANGED <<memories, claims, extracting, confirmed, calls>>

----------------------------------------------------------------------------
(* LifecycleManager.executeDeletion and the end of the process. *)

\* Rows archived long ago are deleted up to the first that a claim's foreign
\* key holds, where the deletion throws.
ExecuteDeletion ==
    \E due \in SUBSET {m \in Memories : hasStatus(m, "archived")} :
        LET held == {m \in due : claimsOf(claims, m) # {}} IN
        \E done \in SUBSET (due \ held) :
            /\ call
            /\ held = {} => done = due
            /\ memories' = [m \in Memories |-> IF m \in done THEN Gone ELSE memories[m]]
            /\ UNCHANGED <<claims, extracting, job, confirmed>>

Crash ==
    /\ extracting' = {}
    /\ job' = Idle
    /\ UNCHANGED <<memories, claims, confirmed, calls>>

----------------------------------------------------------------------------
Init ==
    /\ memories = [m \in Memories |-> None]
    /\ claims = [i \in ClaimIds |-> None]
    /\ extracting = {}
    /\ job = Idle
    /\ confirmed = {}
    /\ calls = 0

Next ==
    \/ \E m \in Memories :
        \/ Store(m) \/ Rewrite(m) \/ Supersede(m) \/ DeleteBegin(m)
        \/ ReconcileRelink(m) \/ ReconcileNext(m) \/ CompactCool(m)
    \/ \E e \in extracting : ExtractBegin(e)
    \/ \E f \in Facts : SkipCandidate(f) \/ CreateClaim(f) \/ CreateFails(f)
    \/ \E i \in ClaimIds : Resolve(i)
    \/ \E p \in Memories \X Memories : CompactSkip(p) \/ CompactMerge(p)
    \/ DeleteEnd \/ ReconcileBegin
    \/ CompactBegin \/ CompactArchive \/ CompactRelink \/ CompactDoubt \/ CompactEnd
    \/ ExecuteDeletion \/ Crash

Spec == Init /\ [][Next]_vars

----------------------------------------------------------------------------
(* Properties. *)

\* kept and merged are the rows of the merge, or the row of the archiving, that
\* a compaction is in the middle of.
Compaction ==
    [kind: {"compact"}, snapshot: [Memories -> SUBSET Facts], age: [Memories -> Memories],
     left: Memories \cup {None}, todo: SUBSET (Memories \X Memories), archived: SUBSET Memories,
     phase: {"pairs", "archive", "relink", "cool", "doubt"},
     kept: Memories \cup {None}, merged: Memories \cup {None}]

Job ==
    [kind: {"extract"}, memory: Memories, todo: SUBSET Facts]
    \cup [kind: {"delete"}, memory: Memories]
    \cup [kind: {"reconcile"}, todo: SUBSET Memories]
    \cup Compaction

TypeOK ==
    /\ memories \in [Memories -> Row \cup {None, Gone}]
    /\ claims \in [ClaimIds -> Claim \cup {None}]
    /\ extracting \subseteq [memory: Memories, text: SUBSET Facts]
    /\ job \in Job \cup {Idle}
    /\ confirmed \subseteq ClaimIds
    /\ calls \in 0..MaxCalls

\* A claim can always be traced: its memory exists, or it has none and is
\* anchored in an archive, and never both.  And no claim, whatever its status,
\* holds back the row that delete() is removing.
Traceable ==
    /\ \A i \in ClaimIds : claims[i] # None =>
        IF claims[i].memory = None THEN claims[i].evidenced
        ELSE isRow(claims[i].memory) /\ ~claims[i].evidenced
    /\ job # Idle /\ job.kind = "delete" => claimsOf(claims, job.memory) = {}

\* Two active claims of one slot overlap, as duplicates or as a contradiction,
\* only after a user has set one of them active, however extractions, merges
\* and crashes interleave.
OneActivePerSlot ==
    \A i, j \in live :
        i # j /\ sameSlot(claims[i], claims[j]) /\ overlap(claims[i], claims[j])
        => i \in confirmed \/ j \in confirmed

\* No claim disappears or changes what it says, and no step but a user's makes
\* one expired or takes it back out of doubt: archiving, merging, deleting and
\* extracting only ever cast doubt on an active claim.
SystemOnlyDoubts ==
    [][\A i \in ClaimIds : claims[i] # None =>
        /\ claims'[i] # None
        /\ claims'[i].fact = claims[i].fact
        /\ \/ claims'[i].status = claims[i].status
           \/ claims[i].status = "active" /\ claims'[i].status \in {"suspected_expired", "conflict"}
           \/ \E k \in ClaimIds : Resolve(k)]_vars

\* After a reconciliation has run to its end no active claim comes from an
\* archived row, although superseding, late extractions and compactions that end
\* between archiving a row and relinking its claims leave such claims behind.
ReconcileRepairs ==
    [][\A m \in Memories : ReconcileNext(m) /\ job.todo = {m} =>
        \A i \in ClaimIds :
            claims'[i] # None /\ claims'[i].status = "active" /\ claims'[i].memory # None
            => hasStatus(claims'[i].memory, "active")]_vars

\* What "compact clears the surviving embedding after a merge" expects of the
\* survivor's content: a merge leaves every text in a row that is active.
MergedTextStaysActive ==
    isCompacting /\ job.phase \in {"pairs", "archive", "relink"} =>
        UNION {job.snapshot[m] : m \in Memories}
            \subseteq UNION {memories[m].text : m \in {n \in Memories : hasStatus(n, "active")}}

\* A compaction in which no row is similar to two others takes no text out of the
\* active rows: what MergedTextStaysActive asks fails over three rows and not over
\* two, whatever their ages and the order of the pairs.
inPairs ==
    \A l, m, r \in Memories :
        l # m /\ m # r /\ similar(<<l, m>>) /\ similar(<<m, r>>) => l = r

PairsStayActive == isCompacting /\ inPairs => MergedTextStaysActive

\* What "resolves conflicting siblings" says: a claim that a user picks out of a
\* conflict is left without an active contradiction.
ConflictSettled ==
    [][\A i \in ClaimIds :
        /\ Resolve(i) /\ claims[i].status = "conflict" /\ claims'[i].status = "active"
        /\ \A j \in ClaimIds : claims[j] # None => ~expiryThrows(claims[j])
        => \A j \in ClaimIds : claims'[j] # None /\ claims'[j].status = "active"
                               => ~contradicts(claims'[i], claims'[j])]_vars
=============================================================================
