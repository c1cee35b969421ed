--------------------------- MODULE Consolidation ---------------------------
(***************************************************************************)
(* Consolidation: a run detects candidates for cleaning up, marks doubtful *)
(* claims by itself and puts the rest into a queue for approval; reviewers *)
(* decide, execute and retry (src/core/consolidation-scheduler.ts,         *)
(* consolidation-executor.ts, consolidation-approval.ts and the detectors).*)
(*                                                                         *)
(* Every handler is synchronous and one process handles one at a time, but *)
(* each statement commits on its own, apart from the two transactions of   *)
(* the approval service.  `job` is the handler that runs; Interrupt is the *)
(* end of the process, or a statement that throws out of the handler,      *)
(* between two commits.  Between handlers the memory service, compaction,  *)
(* extractions, users and the lifecycle change the same rows and claims.   *)
(*                                                                         *)
(* Data.  Rows and claims are numbered in the order of their creation;     *)
(* updated_at is a rank, so that time needs no clock.  A text is the set   *)
(* of facts it states.  All claims are about one slot; a claim's identity  *)
(* is its valid_from.  A run's key is its set of candidates.               *)
(***************************************************************************)
EXTENDS Naturals, FiniteSets

CONSTANTS Memories, Claims,   \* numbers, in the order of creation
          Items,              \* ids of approval items
          Facts,
          FirstText,          \* the text of each row at first
          Starts,             \* what there is at first: the row of each claim, None if
                              \* it is not extracted yet, and the rows in conflict
          Texts,              \* sets of facts that other services write
          Settings,           \* of a run: the detectors that do not throw, the pairs
                              \* that score high, features.consolidationAutoExecute
          Similar,            \* pairs of rows that the duplicate detector matches
          TopicOf,            \* what groups rows in conflict: topic or title
          ValidFrom,          \* of each claim
          Lapsed,             \* claims whose valid_to may be past
          Decisions,          \* statuses that users give to claims
          Later,              \* claims that may not have begun yet: they cannot end
          MaxWrites,          \* bound on what other services do to the rows
          MaxCalls,           \* bound on runs and on requests of reviewers
          None

Detectors == {"duplicate_merge", "conflict_aggregation", "expired_fact"}

ASSUME ConsolidationAssumption ==
    /\ Memories \subseteq Nat /\ IsFiniteSet(Memories)
    /\ Claims \subseteq Nat
    /\ FirstText \in [Memories -> SUBSET Facts] /\ Texts \subseteq SUBSET Facts
    /\ Starts \subseteq [source: [Claims -> Memories \cup {None}], conflict: SUBSET Memories]
    /\ Settings \subseteq [detectors: SUBSET Detectors, alike: SUBSET SUBSET Memories,
                         autoExecute: BOOLEAN]
    /\ Similar \subseteq SUBSET Memories
    /\ ValidFrom \in [Claims -> Nat]
    /\ Lapsed \subseteq Claims /\ Later \subseteq Claims
    /\ Decisions \subseteq {"active", "suspected_expired", "conflict", "expired"}
    /\ {MaxWrites, MaxCalls} \subseteq Nat

VARIABLES rows,         \* memories
          updated,      \* updated_at of each row, as a rank
          claims,       \* fact_claims
          items,        \* consolidation_approvals
          runs,         \* consolidation_runs: the first run of each key
          job,          \* the handler that runs
          effective,    \* history: items whose latest execution has taken effect
          abandoned,    \* history: items whose execution was interrupted
          interrupted,  \* history: keys whose first run was not recorded
          writes, calls \* what the bounds count

data == <<rows, updated, claims>>
history == <<effective, abandoned, interrupted>>
vars == <<data, items, runs, job, history, writes, calls>>

ClaimStatus == {"absent", "active", "suspected_expired", "conflict", "expired"}
ItemStatus == {"pending", "approved", "approved_pending_execution", "execution_failed",
               "rejected", "expired"}
Row == [active: BOOLEAN, conflict: BOOLEAN, facts: SUBSET Facts]
Claim == [status: ClaimStatus, row: Memories \cup {None}]
Candidate == [action: {"merge", "review_conflict", "mark_expired"}, rows: SUBSET Memories,
              claims: SUBSET Claims, risk: {"low", "medium", "high"}]
Item == [candidate: Candidate, key: SUBSET Candidate, status: ItemStatus,
         executed: BOOLEAN]
Run == [key: SUBSET Candidate, failed: BOOLEAN]

ASSUME NoneAssumption == None \notin Memories \cup Row \cup Item \cup {"approved"}

Idle == [op |-> "idle"]

activeRows == {m \in Memories : rows[m] # None /\ rows[m].active}
claimsIn(status) == {c \in Claims : claims[c].status = status}
claimsOf(m) == {c \in Claims : claims[c].row = m}

----------------------------------------------------------------------------
(* Rows and claims. *)

\* updated_at of the rows of S becomes now.
touched(S) ==
    LET stamp == [m \in Memories |-> IF m \in S THEN Cardinality(Memories) + 1 ELSE updated[m]]
    IN  [m \in Memories |-> Cardinality({stamp[n] : n \in {k \in Memories : stamp[k] < stamp[m]}})]

\* compareMemoryRecency: updated_at, then the order of creation.
older(m, n) == updated[m] < updated[n] \/ (updated[m] = updated[n] /\ m < n)
isNewest(m, S) == m \in S /\ \A n \in S \ {m} : older(n, m)

doubted(table, which) ==
    [c \in Claims |-> IF c \in which /\ table[c].status = "active"
                      THEN [table[c] EXCEPT !.status = "suspected_expired"] ELSE table[c]]

ended(table, which) ==
    [c \in Claims |-> IF c \in which THEN [table[c] EXCEPT !.status = "expired"] ELSE table[c]]

archived(table, S) ==
    [m \in Memories |-> IF m \in S THEN [table[m] EXCEPT !.active = FALSE] ELSE table[m]]

verified(table, S) ==
    [m \in Memories |-> IF m \in S THEN [table[m] EXCEPT !.conflict = FALSE] ELSE table[m]]

----------------------------------------------------------------------------
(* The detectors. *)

\* A merge of rows that are alike has a low risk: it is not queued, and the
\* executor does not do it.
mergeCandidate(pair, alike) ==
    [action |-> "merge", rows |-> pair, claims |-> {},
     risk |-> IF alike THEN "low" ELSE "medium"]

\* The pairs are taken greedily, so that no row is in two of them.
duplicates ==
    LET pairs == {p \in Similar : p \subseteq activeRows} IN
    {S \in SUBSET pairs :
        /\ \A p, q \in S : p # q => p \cap q = {}
        /\ \A p \in pairs \ S : \E q \in S : p \cap q # {}}

rowGroups ==
    LET disputed == {m \in activeRows : rows[m].conflict} IN
    {{m \in disputed : TopicOf[m] = TopicOf[n]} : n \in disputed}

conflicts ==
    {[action |-> "review_conflict", rows |-> G, claims |-> {}, risk |-> "medium"] :
        G \in {H \in rowGroups : Cardinality(H) > 1}}
    \cup
    (IF Cardinality(claimsIn("conflict")) < 2 THEN {}
     ELSE {[action |-> "review_conflict",
            rows |-> {claims[c].row : c \in claimsIn("conflict")} \ {None},
            claims |-> claimsIn("conflict"), risk |-> "medium"]})

\* byLatestValidFrom, with the claims' order for what the ids would settle.
isLatest(c) == c \in claimsIn("active") /\ \A d \in claimsIn("active") \ {c} :
    ValidFrom[d] < ValidFrom[c] \/ (ValidFrom[d] = ValidFrom[c] /\ d < c)

newer(c) == {d \in Claims : isLatest(d) /\ ValidFrom[d] > ValidFrom[c]}

sourceRow(c) == {claims[c].row} \ {None}

outdated(c, lapsed) ==
    IF c \in lapsed
    THEN {[action |-> "mark_expired", rows |-> sourceRow(c), claims |-> {c}, risk |-> "low"]}
    ELSE IF newer(c) # {}
    THEN {[action |-> "mark_expired", rows |-> sourceRow(c), claims |-> {c} \cup newer(c),
           risk |-> "medium"]}
    ELSE {[action |-> "review_conflict", rows |-> {m}, claims |-> {c}, risk |-> "high"] :
             m \in {m \in sourceRow(c) : rows[m] # None /\ rows[m].conflict}}

\* What a report may hold when the detectors of D do not throw.
reports(D, alike, lapsed) ==
    {(IF "duplicate_merge" \in D THEN {mergeCandidate(p, p \in alike) : p \in S} ELSE {})
     \cup (IF "conflict_aggregation" \in D THEN conflicts ELSE {})
     \cup (IF "expired_fact" \in D THEN UNION {outdated(c, lapsed) : c \in claimsIn("active")} ELSE {}) :
        S \in duplicates}

----------------------------------------------------------------------------
(* ConsolidationScheduler.run in the mode auto_low_risk. *)

call == job = Idle /\ calls < MaxCalls /\ calls' = calls + 1

runsOf(key) == {r \in runs : r.key = key}

freeItems == {i \in Items : items[i] = None}

\* Loops and new ids take elements in some fixed order.
oneOf(S) == CHOOSE x \in S : TRUE

\* Mutant: a retry expires what has failed in place of what is pending.
pendingOf_Failed(key) ==
    {i \in Items : items[i] # None /\ items[i].key = key
                   /\ items[i].status = "execution_failed"}

pendingOf(key) ==
    {i \in Items : items[i] # None /\ items[i].key = key /\ items[i].status = "pending"}

submitted(key) == {c \in key : c.risk # "low"}

\* A recorded run without errors is reused and changes nothing; one with errors
\* makes this run a retry, which expires what is pending of the earlier attempts.
\* Without features.consolidationAutoExecute the run records an error and
\* executes nothing itself.
RunBegin(D, alike, autoExecute, lapsed) == \E key \in reports(D, alike, lapsed) :
    /\ call
    /\ \A r \in runsOf(key) : r.failed
    /\ job' = [op |-> "run", key |-> key,
               failed |-> D # Detectors \/ ~autoExecute,
               doubt |-> IF autoExecute
                         THEN UNION {c.claims : c \in {d \in key : d.action = "mark_expired"}}
                         ELSE {},
               expire |-> IF runsOf(key) # {} THEN pendingOf(key) ELSE {},
               submit |-> submitted(key)]
    /\ Cardinality(submitted(key)) <= Cardinality(freeItems)   \* the bound of Items
    /\ UNCHANGED <<data, items, runs, history, writes>>

\* ConsolidationExecutor.execute, a claim at a time.
AutoMark ==
    /\ job.op = "run" /\ job.doubt # {}
    /\ claims' = doubted(claims, {oneOf(job.doubt)})
    /\ job' = [job EXCEPT !.doubt = @ \ {oneOf(@)}]
    /\ UNCHANGED <<rows, updated, items, runs, history, writes, calls>>

\* A claim that cannot be marked ends its candidate; the error is recorded.
ExecutionFails ==
    /\ job.op = "run" /\ job.doubt # {}
    /\ \E c \in job.key : \E rest \in SUBSET c.claims :
        /\ c.action = "mark_expired" /\ oneOf(job.doubt) \in rest
        /\ job' = [job EXCEPT !.doubt = @ \ rest, !.failed = TRUE]
    /\ UNCHANGED <<data, items, runs, history, writes, calls>>

\* expirePendingForRunPrefix, an item at a time.
ExpirePending ==
    /\ job.op = "run" /\ job.doubt = {} /\ job.expire # {}
    /\ items' = [items EXCEPT ![oneOf(job.expire)].status = "expired"]
    /\ job' = [job EXCEPT !.expire = @ \ {oneOf(@)}]
    /\ UNCHANGED <<data, runs, history, writes, calls>>

newItem(c) ==
    [candidate |-> c, key |-> job.key, status |-> "pending", executed |-> FALSE]

\* submitForApproval
SubmitCandidate ==
    /\ job.op = "run" /\ job.doubt = {} /\ job.expire = {} /\ job.submit # {}
    /\ freeItems # {}
    /\ items' = [items EXCEPT ![oneOf(freeItems)] = newItem(oneOf(job.submit))]
    /\ job' = [job EXCEPT !.submit = @ \ {oneOf(@)}]
    /\ UNCHANGED <<data, runs, history, writes, calls>>

\* A statement of either loop throws, the audit entry of the last item too:
\* the rest is not done and the error is recorded.
SubmissionFails ==
    /\ job.op = "run" /\ job.doubt = {} /\ submitted(job.key) # {}
    /\ job' = [job EXCEPT !.expire = {}, !.submit = {}, !.failed = TRUE]
    /\ UNCHANGED <<data, items, runs, history, writes, calls>>

\* recordRun.  Later runs look at the errors of the first attempt only.
RecordRun ==
    /\ job.op = "run" /\ job.doubt = {} /\ job.expire = {} /\ job.submit = {}
    /\ runs' = IF runsOf(job.key) # {} THEN runs
               ELSE runs \cup {[key |-> job.key, failed |-> job.failed]}
    /\ job' = Idle
    /\ UNCHANGED <<data, items, history, writes, calls>>

----------------------------------------------------------------------------
(* ConsolidationApprovalService. *)

\* Mutant: the item is executed before it is marked.
executing_Unmarked(i) ==
    /\ effective' = effective \ {i}
    /\ job' = [op |-> "item", item |-> i, outcome |-> None]
    /\ UNCHANGED items

\* The item is marked before anything of it is executed.
executing(i) ==
    /\ items' = [items EXCEPT ![i].status = "approved_pending_execution"]
    /\ effective' = effective \ {i}
    /\ job' = [op |-> "item", item |-> i, outcome |-> None]

\* Mutant: a review does not ask whether the item is still pending.
Review_Unguarded(i, decision, autoExecute) ==
    /\ call
    /\ items[i] # None
    /\ IF autoExecute /\ decision = "approved"
       THEN executing(i)
       ELSE /\ items' = [items EXCEPT ![i].status = decision]
            /\ UNCHANGED <<effective, job>>
    /\ UNCHANGED <<data, runs, abandoned, interrupted, writes>>

Review(i, decision, autoExecute) ==
    /\ call
    /\ items[i] # None /\ items[i].status = "pending"
    /\ IF autoExecute /\ decision = "approved"
       THEN executing(i)
       ELSE /\ items' = [items EXCEPT ![i].status = decision]
            /\ UNCHANGED <<effective, job>>
    /\ UNCHANGED <<data, runs, abandoned, interrupted, writes>>

\* retry and execute differ in the status they ask for.
Retry(i) ==
    /\ call
    /\ items[i] # None /\ items[i].status = "execution_failed"
    /\ executing(i)
    /\ UNCHANGED <<data, runs, abandoned, interrupted, writes>>

Execute(i) ==
    /\ call
    /\ items[i] # None /\ items[i].status = "approved"
    /\ executing(i)
    /\ UNCHANGED <<data, runs, abandoned, interrupted, writes>>

candidate == items[job.item].candidate
performing(action) ==
    job.op = "item" /\ job.outcome = None /\ candidate.action = action

\* The audit entry after the commit may throw, which makes a failure of it.
tookEffect ==
    /\ effective' = effective \cup {job.item}
    /\ \E audited \in BOOLEAN :
        job' = [job EXCEPT !.outcome = IF audited THEN "approved" ELSE "execution_failed"]

\* Mutant: an execution that cannot be done is dropped without an outcome.
refused_Silent == UNCHANGED <<data, effective, job>>

refused ==
    /\ job' = [job EXCEPT !.outcome = "execution_failed"]
    /\ UNCHANGED <<data, effective>>

\* Mutant: a merge asks only whether the rows still exist.
mergeable_Existing == \A m \in candidate.rows : rows[m] # None

\* An approval can be old: a row that has been archived or deleted since
\* refuses the merge.
mergeable == candidate.rows \subseteq activeRows

\* Mutant: the claims of an archived row stay with it.
mergedClaims_Left(kept, others) == claims

\* executeMerge: in one transaction the kept row gets all the texts and claims
\* of the others, which are archived.  A moved claim that repeats an active one
\* becomes suspected.
mergedClaims(kept, others) ==
    LET moved(c)   == claims[c].row \in others
        repeats(c) == \E d \in claimsIn("active") \ {c} :
            /\ ValidFrom[d] = ValidFrom[c]
            /\ claims[d].row = kept \/ (claims[d].row \in others /\ d < c)
    IN  [c \in Claims |->
            IF ~moved(c) THEN claims[c]
            ELSE [row |-> kept,
                  status |-> IF claims[c].status = "active" /\ repeats(c)
                             THEN "suspected_expired" ELSE claims[c].status]]

PerformMerge ==
    /\ performing("merge")
    /\ IF mergeable
       THEN \E kept \in candidate.rows :
            LET others == candidate.rows \ {kept} IN
            /\ isNewest(kept, candidate.rows)
            /\ rows' = [archived(rows, others) EXCEPT
                           ![kept].facts = UNION {rows[m].facts : m \in candidate.rows}]
            /\ updated' = touched(candidate.rows)
            /\ claims' = mergedClaims(kept, others)
            /\ tookEffect
       ELSE refused
    /\ UNCHANGED <<items, runs, abandoned, interrupted, writes, calls>>

unexpired == {c \in candidate.claims : claims[c].status # "expired"}

\* executeConflictReview with claims: they all expire, and a row of the item
\* that has no other claim in conflict is verified.
settledRows ==
    {m \in candidate.rows \cap activeRows :
        /\ rows[m].conflict
        /\ \A c \in claimsOf(m) : claims[c].status = "conflict" => c \in candidate.claims}

settleClaims ==
    /\ claims' = ended(claims, candidate.claims)
    /\ rows' = verified(rows, settledRows)
    /\ updated' = touched(settledRows)

\* Without claims: the most recent row, archived or not, is kept and verified,
\* and the other active ones are archived with their claims suspected.
keepNewest == \E kept \in candidate.rows :
    LET dropped == (candidate.rows \ {kept}) \cap activeRows
        settled == {m \in {kept} \cap activeRows : rows[m].conflict}
    IN  /\ isNewest(kept, candidate.rows)
        /\ claims' = doubted(claims, UNION {claimsOf(m) : m \in dropped})
        /\ rows' = verified(archived(rows, dropped), settled)
        /\ updated' = touched(dropped \cup settled)

PerformReview ==
    /\ performing("review_conflict")
    /\ \/ /\ \/ \E m \in candidate.rows : rows[m] = None
             \/ unexpired \cap Later # {}
          /\ refused
       \/ /\ \A m \in candidate.rows : rows[m] # None
          /\ IF candidate.claims # {} THEN settleClaims ELSE keepNewest
          /\ tookEffect
    /\ UNCHANGED <<items, runs, abandoned, interrupted, writes, calls>>

\* executeMarkExpired, a claim at a time and without a transaction.
PerformExpiry ==
    /\ performing("mark_expired") /\ unexpired # {}
    /\ \/ oneOf(unexpired) \in Later /\ refused
       \/ /\ claims' = ended(claims, {oneOf(unexpired)})
          /\ UNCHANGED <<rows, updated, effective, job>>
    /\ UNCHANGED <<items, runs, abandoned, interrupted, writes, calls>>

ExpiryDone ==
    /\ performing("mark_expired") /\ unexpired = {}
    /\ tookEffect
    /\ UNCHANGED <<data, items, runs, abandoned, interrupted, writes, calls>>

\* The outcome; executed_at = COALESCE(?, executed_at) is never reset.
Conclude ==
    /\ job.op = "item" /\ job.outcome # None
    /\ items' = [items EXCEPT ![job.item].status = job.outcome,
                              ![job.item].executed = @ \/ job.outcome = "approved"]
    /\ job' = Idle
    /\ UNCHANGED <<data, runs, history, writes, calls>>

Interrupt ==
    /\ job # Idle
    /\ job' = Idle
    /\ abandoned' = IF job.op = "item" THEN abandoned \cup {job.item} ELSE abandoned
    /\ interrupted' = IF job.op = "run" /\ runsOf(job.key) = {}
                      THEN interrupted \cup {job.key} ELSE interrupted
    /\ UNCHANGED <<data, items, runs, effective, writes, calls>>

----------------------------------------------------------------------------
(* What other services do to the rows and the claims.                          *)

write == job = Idle /\ writes < MaxWrites /\ writes' = writes + 1
         /\ UNCHANGED <<items, runs, job, history, calls>>

\* An update, or a store that merges into the row, with any verdict.
Rewrite(m, facts, conflict) ==
    /\ write /\ m \in activeRows
    /\ rows' = [rows EXCEPT ![m].facts = facts, ![m].conflict = conflict]
    /\ updated' = touched({m})
    /\ UNCHANGED claims

\* Compaction doubts the claims of a row that has cooled, and relinks those of
\* one that it merges, in a later commit that may not come; superseding a task
\* state leaves its claims alone.
ArchiveElsewhere(m) ==
    /\ write /\ m \in activeRows
    /\ rows' = archived(rows, {m})
    /\ updated' = touched({m})
    /\ \/ claims' = doubted(claims, claimsOf(m))
       \/ \E kept \in activeRows \ {m} : claims' = mergedClaims(kept, {m})
       \/ UNCHANGED claims

\* MemoryService.delete; the sidecar doubts and detaches the claims.
DeleteElsewhere(m) ==
    /\ write /\ rows[m] # None
    /\ rows' = [rows EXCEPT ![m] = None]
    /\ claims' = [c \in Claims |-> IF c \in claimsOf(m)
                                   THEN [doubted(claims, {c})[c] EXCEPT !.row = None]
                                   ELSE claims[c]]
    /\ UNCHANGED updated

\* An extraction that began while its row was active adds a claim; it and the
\* active claims that contradict it are in conflict.
Extract(c, m, rivals) ==
    /\ write
    /\ claims[c].status = "absent" /\ rows[m] # None
    /\ rivals \subseteq claimsIn("active")
    /\ claims' = [d \in Claims |->
           IF d = c THEN [status |-> IF rivals = {} THEN "active" ELSE "conflict", row |-> m]
           ELSE IF d \in rivals THEN [claims[d] EXCEPT !.status = "conflict"]
           ELSE claims[d]]
    /\ UNCHANGED <<rows, updated>>

\* A user's decision on a claim, whatever its row; the rivals of a claim that is
\* active again expire, unless the first of them cannot.
Resolve(c, status) ==
    LET rivals == IF claims[c].status = "conflict" /\ status = "active"
                  THEN claimsIn("conflict") \ {c} ELSE {}
    IN  /\ write
        /\ claims[c].status # "absent"
        /\ \E ends \in {{}, rivals} : claims' = ended([claims EXCEPT ![c].status = status], ends)
        /\ UNCHANGED <<rows, updated>>

----------------------------------------------------------------------------
Init ==
    /\ \E start \in Starts :
        /\ rows = [m \in Memories |-> [active |-> TRUE, conflict |-> m \in start.conflict,
                                       facts |-> FirstText[m]]]
        /\ claims = [c \in Claims |->
                        [status |-> IF start.source[c] = None THEN "absent" ELSE "active",
                         row |-> start.source[c]]]
    /\ updated = [m \in Memories |-> 0]
    /\ items = [i \in Items |-> None]
    /\ runs = {} /\ job = Idle
    /\ effective = {} /\ abandoned = {} /\ interrupted = {}
    /\ writes = 0 /\ calls = 0

\* The steps by which a handler goes on once it has begun.
RunStep ==
    \/ AutoMark \/ ExecutionFails
    \/ ExpirePending \/ SubmitCandidate \/ SubmissionFails
    \/ RecordRun

ItemStep ==
    \/ PerformMerge
    \/ PerformReview
    \/ PerformExpiry
    \/ ExpiryDone
    \/ Conclude

Next ==
    \/ \E s \in Settings, lapsed \in {{}, Lapsed} :
        RunBegin(s.detectors, s.alike, s.autoExecute, lapsed)
    \/ \E i \in Items, autoExecute \in BOOLEAN :
        \E decision \in {"approved", "rejected"} : Review(i, decision, autoExecute)
    \/ \E i \in Items : Retry(i) \/ Execute(i)
    \/ job.op = "run" /\ RunStep
    \/ job.op = "item" /\ ItemStep
    \/ Interrupt
    \/ \E m \in Memories, f \in Texts, conflict \in BOOLEAN : Rewrite(m, f, conflict)
    \/ \E m \in Memories : ArchiveElsewhere(m) \/ DeleteElsewhere(m)
    \/ \E c \in Claims, m \in Memories : \E rivals \in SUBSET Claims : Extract(c, m, rivals)
    \/ \E c \in Claims, status \in Decisions : Resolve(c, status)

\* A synchronous handler that has begun goes on to its end unless it is
\* interrupted.
Fairness == WF_vars(job.op = "run" /\ RunStep) /\ WF_vars(job.op = "item" /\ ItemStep)

Spec == Init /\ [][Next]_vars /\ Fairness

----------------------------------------------------------------------------
TypeOK ==
    /\ rows \in [Memories -> Row \cup {None}]
    /\ updated \in [Memories -> Nat]
    /\ claims \in [Claims -> Claim]
    /\ items \in [Items -> Item \cup {None}]
    /\ runs \subseteq Run
    /\ \/ job = Idle
       \/ /\ job \in [op: {"run"}, key: SUBSET Candidate, failed: BOOLEAN,
                        doubt: SUBSET Claims, expire: SUBSET Items,
                        submit: SUBSET Candidate]
          /\ \A i \in job.expire : items[i] # None
       \/ /\ job \in [op: {"item"}, item: Items,
                        outcome: {None, "approved", "execution_failed"}]
          /\ items[job.item] # None
          /\ items[job.item].status = "approved_pending_execution"
    /\ effective \subseteq Items /\ abandoned \subseteq Items
    /\ interrupted \subseteq SUBSET Candidate
    /\ writes \in 0..MaxWrites /\ calls \in 0..MaxCalls

\* The status the queue promises, as a function of the columns status and
\* executed_at.
promised(item) ==
    IF item = None THEN "absent"
    ELSE CASE item.status = "approved" /\ item.executed -> "executed"
           [] item.status = "approved_pending_execution" -> "executing"
           [] item.status = "execution_failed" -> "failed"
           [] OTHER -> item.status

queueStatus == [i \in Items |-> promised(items[i])]

Queue == INSTANCE ApprovalQueue WITH status <- queueStatus

\* Reviews, executions, retries, expiries and crashes together keep to what the
\* queue promises: nothing takes effect without an approval, decisions are
\* final, executed means effective.
QueueImplemented == Queue!Spec

activeFacts == UNION {rows[m].facts : m \in activeRows}

\* No fact leaves the active rows by a run, a merge or an expiry that was
\* approved, however old the approval is.
NoFactLost ==
    [][job.op = "run" \/ (job.op = "item" /\ candidate.action # "review_conflict")
       => activeFacts \subseteq activeFacts']_vars

\* Active claims whose row is archived or deleted.  Late extractions, users and
\* interrupted compactions make such claims.
stray == {c \in claimsIn("active") : claims[c].row \notin activeRows}

\* Consolidation makes none, however the claims and rows have changed since the
\* approval it executes: a merge takes along every claim that its rows have by
\* then, a review doubts those of the rows that it archives (executeMerge,
\* archiveMemory).
NoClaimLeftBehind == [][job # Idle => stray' \subseteq stray]_vars

\* A retry replaces what is pending of its earlier attempts, and a reused run
\* submits nothing: a candidate of a run is pending twice only if the process
\* ended between submitCandidates and recordRun.
NoDuplicatePending ==
    \A i, j \in Items :
        /\ i # j /\ items[i] # None /\ items[j] # None
        /\ items[i].status = "pending" /\ items[j].status = "pending"
        /\ items[i].key = items[j].key /\ items[i].candidate = items[j].candidate
        => items[i].key \in interrupted

\* An execution comes to its end, unless it was interrupted: then the item stays
\* in approved_pending_execution, where neither a review nor a retry takes it.
ExecutionsEnd ==
    \A i \in Items : queueStatus[i] = "executing"
                     ~> (queueStatus[i] # "executing" \/ i \in abandoned)
=============================================================================
