# A TLA+ model of Vega Memory

Vega is a memory service for coding agents: it stores short texts with their
embeddings in SQLite, merges near-duplicates, hands out ranked bundles of them,
learns from the acknowledgements of its hosts, and lets a client work offline.
This directory holds TLA+ models of the parts of it whose correctness depends on
the order in which things happen, the TLC runs that check them and the proofs
that TLAPS checks.  `PROJECT.json` lists the runs, the mutants that show what
each property can catch, the source lines every definition stands for, the
hazards of the code and the theorems.

To repeat a check: `tlc -config MCMemoryStore.cfg MCMemoryStore.tla`, and
likewise for the other configurations; `tlapm MemoryStoreProofs.tla` for a proof.

## The system

| Component (under `src/src/`) | State it keeps | Operations | What is hard |
| --- | --- | --- | --- |
| Memory service (`core/memory.ts`) | tables `memories`, `memory_versions`, `memories_fts`, `raw_archives` | `store`, `update`, `delete` | calls interleave at every `await` of the embedding or chat provider and keep using the row they read before it |
| Repository (`db/repository.ts`) | all tables | CRUD in transactions | external-content full-text index, versions, foreign keys |
| Sidecars (`core/sidecar-reconciler.ts`, `core/fact-claim-service.ts`) | `fact_claims`, `memory_topics` | extraction, status transitions, relinking on merge, archive and delete, reconciliation | claims must keep their provenance whatever happens to their memory |
| Compaction and lifecycle (`core/compact.ts`, `core/lifecycle.ts`) | rows; deletion notices | merge near-duplicates, archive, delete after 90 days | works on a snapshot while it changes the rows |
| Consolidation (`core/consolidation-*.ts`) | approval items, runs, audit | detect, submit, review, execute, retry | crash between two status writes; retries |
| Retrieval loop (`retrieval/`, `usage/`) | checkpoints and acks (SQLite), resolve cache and circuit breaker (memory) | `context.resolve`, followups, `usage.ack`, `circuit_breaker.*` | retries, expiry, restarts that lose half of the state, a cache in front of a breaker |
| Offline client (`sync/`, `db/crdt.ts`) | pending directory, cache database | every call, `syncPending` | lost responses, partial syncs, several processes on one directory |
| Ingestion (`ingestion/`) | raw inbox | stage an event, make a candidate of it | events that are delivered again, to another process, or half processed |
| Candidate promotion (`promotion/`) | candidates, audit | evaluate, sweep, promote, demote | a row exists in one of two tables; what was read before the transaction is stale |
| Daily maintenance (`scheduler/`, `core/lifecycle.ts`, `notify/`) | metadata of the lifecycle, warnings in memory, the alert file | tick, daily run, export, digest | steps that fail, a process that ends between a warning and its digest |
| Task queue (`queue/task-queue.ts`) | persisted jobs, active count | enqueue, run, retry, recover | persistence fails between two counters; only its test uses it |
| Host timeouts, reconciliation, alert rules, sunset, backups | sessions, cool-downs | detect, notify | repeated notifications |
| Search, ranking, budgets, wiki, topics, HTTP/MCP, tenants, billing, CLI, benchmarks | derived or request-local | pure functions and CRUD | little that a unit test does not reach |

They meet in few places.  `MemoryService` calls the sidecar reconciler when it
deletes and the fact-claim service after a store or an update; compaction, the
approval executor, promotions and demotions write the same `memories` table
through the repository.  The scheduler's daily run calls backup, compaction, the
lifecycle, the reconciliation and the notification manager one after the other;
`vega export`, another process, sets the metadata the lifecycle reads.  `RetrievalOrchestrator` asks the breaker for its
status, puts a checkpoint and tells the breaker; `processUsageAck` reads the
checkpoint, puts an ack and tells the breaker.  The offline client calls the
HTTP API of a server that runs all the rest.

A process is a Node process with a synchronous SQLite driver: what runs between
two awaits is atomic in it, and so is a database transaction across a crash.
Several processes may share one database: an MCP server per host (`index.ts`),
the scheduler daemon with its HTTP API (`scheduler/index.ts`) and the command
line.  `CandidateIntake`, `Maintenance` and `OfflineSync` model that; in
`MemoryStore` the atomic step is a read with the write that follows it, so two
callers may be two processes as well except for those steps; `FactClaims`,
`Consolidation` and `RetrievalLoop` have one process, in which handlers that do
not await do not interleave (see "Not modelled").

## The modules

| Module | Stands for | Run |
| --- | --- | --- |
| `MemoryStore`, `MCMemoryStore` | the memory service over its four tables | `memory_store`, `memory_store_evidence` |
| `VersionedRow` | what one row of the memory store promises: its abstract specification | |
| `MemoryStoreProofs` | theorems about `MemoryStore`, among them that every row implements `VersionedRow` | |
| `CircuitBreaker` | the breaker of one surface | `circuit_breaker` |
| `BreakerPolicy` | what the breaker decides, from the whole history: its abstract specification | |
| `CircuitBreakerProofs` | theorems about `CircuitBreaker`, among them that it implements `BreakerPolicy` | |
| `RetrievalLoop`, `MCRetrievalLoop` | resolve, followups, acks, cache, with `CircuitBreaker` as an instance | `retrieval_loop` |
| `RetrievalLoopProofs` | theorems about `RetrievalLoop` | |
| `FactClaims`, `MCFactClaims` | claims through extraction, decisions, merges, archiving, deletion, reconciliation; compaction; deletion of old archives | `fact_claims`, `fact_claims_compact`, `fact_claims_resolve` |
| `FactClaimsProofs` | theorems about `FactClaims` | |
| `ApprovalQueue` | what the approval queue promises: the abstract specification of `Consolidation` | |
| `Consolidation`, `MCConsolidation` | consolidation runs, their records and retries, the approval queue and its executions | `consolidation` |
| `ConsolidationProofs` | theorems about `Consolidation`, among them the refinement | |
| `CandidateIntake`, `MCCandidateIntake` | raw inbox, candidates, promotion and demotion by several processes | `candidate_intake` |
| `CandidateRecord` | what the tables promise of one id: the abstract specification of `CandidateIntake` | |
| `CandidateIntakeProofs` | theorems about `CandidateIntake`, among them that every id implements `CandidateRecord` | |
| `Maintenance`, `MCMaintenance` | the scheduler's daily run, deletion notices, warnings and the alert file | `maintenance` |
| `MaintenanceProofs` | theorems about `Maintenance` | |
| `OfflineSync`, `MCOfflineSync` | the client, its pending directory and its cache against a server | `offline_sync`, `offline_sync_shared` |
| `Delivery` | what the client promises of one call: the abstract specification of `OfflineSync` | |
| `OfflineSyncProofs` | theorems about `OfflineSync` for one process, among them that every call implements `Delivery` | |

### MemoryStore

`memories[id]` is a row; `versions[id]` the contents `memory_versions` has for
it; `fts[id]` what the full-text index has under its rowid; `archives` the raw
archive.  `pc`, `req`, `embedding`, `matchId` and `matched` are the locals of a
call that is waiting.  A text is a set of atoms: containment is the superset
relation, concatenation is union, similarity is a common atom, redaction removes
the secret atoms, negation is an atom.  A bucket is what `findMatch` searches:
tenant, project and type.

`StoreBegin` is the call up to the embedding request, `StoreMatch` the search
and the request for a summary, `StoreCreate` a new row (also the conflict row
beside a verified one), `StoreReembed` the second embedding that a merged text
needs, `StoreMerge` the write, `MergeFails` the exception when the row is gone.
`UpdateBegin`, `UpdateCommit` and `UpdateFails` are `update()` with a content,
`Retitle` is `update()` with a title alone, which awaits nothing.  `Delete` is
the reconciler's fallback archive and the deletion.  `ArchiveRow` is the only
thing the compaction and approval writers do to a row as far as this module
sees.  `InsertRow` is a promotion or an import, which make a row without
archiving its text.  `Restart` ends the process with the calls that wait and
starts one over the same database, with `VEGA_FEATURE_RAW_ARCHIVE` on or off.
The provider may answer or fail at every await.  `uncaptured` is a history
variable: the rows that have had a text written without an archive.

`fallbackArchives` is `ensureFallbackArchive` without its first branch, which
takes the archive that a claim of the row has as its evidence.  An extracted
claim has none (`core/fact-claim-service.ts:331`) and gets one only when it
loses its row (`core/sidecar-reconciler.ts:415-419`, `512-516`), so no claim of
a row has one: `Traceable` of `FactClaims` says that a claim has an archive
exactly when it has no row.

`VersionedRow` is one row by itself: it is created once, a write replaces the
content and puts what it replaces among the versions in the same step, an
archived row stays archived, a deleted one is gone for good with its versions
and its index entry.  The instance `Row(id)` maps `memories[id]` to it: `lifeOf`
is whether the row is free, active, archived or deleted, `storedOf` its content,
and versions and index entry are the tables' own.  Titles are not part of it.

Left out: importance, tags and summaries; a title and a content in one
`update()`; the end of the process between `createMemory` and
`captureArchiveContent`, which are two transactions; empty texts and titles;
secrets in the texts that `InsertRow` writes (neither a promotion nor an import
redacts, so `SecretsRedacted` is about stores and updates); an import that
overwrites a row, or makes one again under the id of a deleted one.

### CircuitBreaker

`entry` is the code's `SurfaceState` field for field: state, trip time, reasons,
healthy count, the sample array with its `head`, and four counters that every
operation adjusts one by one.  `log` is a history variable: all the samples
since the breaker was last closed.  The helpers have the names of the code's;
`recordCheckpoint`, `recordAck`, `getStatus` and `reset` are its operations.
Surfaces do not interact, so one is enough.

`BreakerPolicy` has no sample array, no `head` and no counters: it keeps the
state, the trip time, the reasons and the history, and says of each call when
the breaker trips, cools down and closes by counting in that history.  The
instance `Policy` takes the first three from `entry` and the history from `log`.

### RetrievalLoop

Both handlers are synchronous, so a call is a step.  `cache`, `checkpoints` and
`acks` are the stores; `Breaker!` is an instance of `CircuitBreaker` on the same
`entry` and `now`.  A resolve is `ResolveCached`, `ResolveFresh`,
`ResolveFollowup` or `ResolveRefused`; an ack is `AckMismatch`, `AckFirst`,
`AckAgain` or `AckPersistFails`.  Writing a checkpoint, reading one for an ack,
writing an ack, querying the loop guard and overriding an ack may each fail, as
the handlers' `try` blocks foresee.  `Restart` empties the cache and the
breaker and leaves the tables.  Expired checkpoints stay in their table because
nothing calls `evictExpired`; reads ignore them.

Left out: other surfaces, ranking, budgets, bundles and evidence (data).

### FactClaims

`memories` has the rows as far as claims depend on them (text, status, whether
compaction sees an embedding) and `claims` the table `fact_claims`.
`extracting` are the extractions that await the chat provider, each with the
text its row had when it began; a row may be rewritten, archived or deleted in
the meantime, and the answers come in any order.  Every other handler is
synchronous.  Those that commit more than once (`extract`, `delete`,
`reconcile`, `compact`) are a `job`: while one runs nothing else does, but
`Crash` may end it between two commits; `CreateClaim` and `Resolve` may also
stop in the middle of their loop over other claims.

`ExtractBegin`, `SkipCandidate`, `CreateClaim` and `CreateFails` are
`extractClaims`, `Resolve` is `resolveClaim` and the status machine,
`ReconcileBegin`, `ReconcileRelink` and `ReconcileNext` are `reconcileAll`, with
a row that has a merge target in two steps because `onMemoryMerged` and
`onMemoryArchived` are two transactions.  `CompactBegin` to `CompactEnd` are
`compact`: a merge is `CompactMerge` (the newer row), `CompactArchive` (the
older one) and `CompactRelink` (its claims), a row that has cooled `CompactCool`
and `CompactDoubt`, each a commit of its own after which the process may end.
`DeleteBegin` and `DeleteEnd` are `MemoryService.delete`.  `relinked`, `archivedClaims` and `detachedClaims` are
the transactions `onMemoryMerged`, `onMemoryArchived` and `onMemoryDeleted`.
The CHECK constraints and the foreign key of the schema are guards
(`expiryThrows`, `CreateFails`, `DeleteEnd`, `ExecuteDeletion`).

A text is the set of facts it states, a fact a value of a slot from some
instant on; two texts are near-duplicates for compaction when they share a
fact; the age of a row is its place in the order of `updated_at` in the
snapshot, any order at all.

Left out: topics, confidence and the lane a claim comes from; several projects,
tenants and types; `expireClaim` and `markSuspectedExpired`, which nothing
calls; a decision that changes nothing; importance, tags, exports and extension counts, which become a
free choice of the rows that compaction archives or the lifecycle deletes; the
claims that consolidation writes.

### ApprovalQueue and Consolidation

`ApprovalQueue` has a status per item (absent, pending, rejected, expired,
approved, executing, failed, executed) and the items whose latest execution took
effect.  The refinement maps the columns `status` and `executed_at` to that
status (`promised`): `executed_at` is written with `COALESCE` and never reset,
so an item counts as executed only while its status is `approved`.

In `Consolidation` a handler (`job`) is a run of the scheduler or the execution
of an item; both go on commit by commit.  `RunBegin` is the detection, the
lookup of an earlier run with the same candidates and the plan of the run;
`AutoMark`, `ExpirePending`, `SubmitCandidate` are its loops,
`ExecutionFails` and `SubmissionFails` the errors that it catches and records,
`RecordRun` its end.  `Review`, `Retry` and `Execute` mark an item
(`executing`), the `Perform...` actions are `executeMerge`,
`executeConflictReview` and `executeMarkExpired`, `Conclude` writes the outcome.
`Interrupt` is the end of the process, or an error out of the handler, anywhere.
Between handlers the other services do what they do in `FactClaims`: rows are
rewritten, archived with or without their claims and deleted (`Rewrite`,
`ArchiveElsewhere`, `DeleteElsewhere`), late extractions add claims, also to
archived rows (`Extract`), and users decide on claims whatever their row
(`Resolve`).  An approval may be stale in all these ways when it is executed.

Rows and claims are numbers in the order of creation and `updated` is a rank, so
that the most recent row is defined without a clock.  A text is a set of facts;
a run's key (a hash of its candidates in the code) is the set of candidates.  All
claims are about one slot.  Which pairs are similar, what groups rows in
conflict and which claims have lapsed are constants.  A run's setting says which
pairs score above 0.95: their merge has a low risk, and is neither queued nor
executed by itself.

Left out: topics; the mode `dry_run`, which only records; actions
that no queued candidate has (`promote_global` and `synthesize_wiki` are low
risk, `archive` is what no detector says); the choice of projects by the cron
job; new rows (there is a fixed set, which is rewritten, archived and deleted).

### CandidateIntake

A process stages an event (`Stage`), looks its key up (`LookUp`), makes a
candidate of it (`Materialize`) and evaluates it under the policy trigger.
`Call`, `Sweep` and `EvaluateNext` read a candidate and decide; `Promote`,
`KeepInvalid` and `Settle` are the transactions that follow, `Demote` and
`DemoteCommit` the demotion.  Between a read and its transaction other processes
commit, and `Interrupt` may end a process.  A candidate keeps its id as a
memory.  `audit` is the state in the last entry that is not a `keep`; those only
repeat a state.  `source` and `deleted` are history variables.

`CandidateRecord` is one id by itself: unused, a candidate in one of its states,
promoted or deleted, with the last entry of the audit; a move and its entry are one
step.  `stageOf` and `entryOf` map the tables to it.

A sweep takes the candidates in any order here, in the code by age; a policy
never says `discard`, so no candidate is discarded.  Left out: `vega import`,
which makes a memory under its exported id without asking the candidates
(`cli/commands/import-export.ts:567-590`), so that a memory that was exported
and demoted is in both tables after it; the texts themselves, which neither
candidates nor promotions redact.

### Maintenance

One row is a slot that an archived memory occupies; its age counts days and
stops where every extension is used up, so there is no clock.  `Begin` to `End`
are the daily run: a step ends where the code awaits or commits, so that
clearing a notice (`CheckPendingDeletions`, `ClearExtensions`) and the end of a
deletion (`EndDeletion`, `ForgetNotice`) are two each.  `ListDeletions`
reads, `KeepRow` and `DeleteRow` go through the list, so that a row which has
changed since is deleted as the code does, and a row that a claim refers to ends
the step.  `LifecycleFails` and the failing branches of the other actions are
their `catch` blocks, and may be taken every day; at the `End` the alert file may
refuse the error or its removal.  `buffer` and `job` are in memory; `Restart` loses them.
`Export` is another process.

### OfflineSync

A step is a request and what follows it up to the next one.  `server` is what
the client can see of the HTTP API (`api/routes.ts`): a row that is there may be
updated and deleted, a store makes a row or is merged into one.  What other
clients write and delete there is external.  A call is `Call`, then
`RequestAnswered`, `RequestFails` (network error, before or after the server ran
it) or `RequestThrows` (refused, or timed out), then a cache refresh that may
fail in the same ways.  `SyncStart` to `RefreshCache` is `syncPending`; it may
end at any request, and `Restart` at any time.  The processes of a machine
share `queue` and `cache`.  A content is its length, because `crdt.ts` prefers
the longer text.

`Delivery` is one call by itself: asked, answered (its refresh is out), queued or over,
whether its caller was told that it is queued, how often the server has run it,
and whether an attempt failed that it may have run.  `placeOf` maps the
directory and the request that the process waits for to it.

Left out: `recall`, `session_end`, `compact`, `health`; fields other than the
content; several calls of one process at a time (a process takes a call when the
one before it has returned); the end of the process between the row that
`store` makes up in the cache and the file that `enqueue` writes
(`sync/client.ts:212-218`), which are one step.

## What the runs show

Two runs assume fairness, `consolidation` and `maintenance`; their properties of
the form `~>` rest on it.  Calls of hosts and reviewers are never assumed to
happen: they may stop at any time.

**memory_store** (846,598 states): two callers, three ids, four atoms (two words,
a negation, a password), four calls, restarts and inserted rows included.  Two callers are enough for every race of two calls over one row,
and with four calls one row can be created, matched by both callers, archived
and written; the third id leaves room for a duplicate next to two merge targets.

- `AcknowledgedTextSurvives`: a store that writes back the copy it read before
  its awaits overwrites a concurrent update, yet the overwritten text is kept as
  a version, because `updateMemory` reads the row afresh.
- `FtsAgrees`: every path that writes or removes a row refreshes its index
  entry.
- `SecretsRedacted`: no path of store, merge and update brings redacted material
  into a row, a version or the index.
- `OneActiveTaskState`: racing task states supersede each other; only `update()`
  with a title makes two active ones of one title.
- `RowsAreVersioned`: whatever stale copy a call comes back with, to each row
  its write is one step of `VersionedRow`: no text is replaced without a
  version, a late merge revives neither an archived nor a deleted row, and the
  index entry changes with the row.
- `CapturedEvidenceOutlivesRow`: if every text of a row was captured when it was
  written, a deletion leaves all of its text in the raw archive, although the
  fallback is skipped when any archive names the row, late merges come back with
  stale copies, hashes are shared between rows and the process starts anew.

**memory_store_evidence** (a finding): without that condition the text is lost.
A promotion makes a row, a store merges into it and archives the newer text
under its id; the deletion finds that archive and makes no fallback, so the
older text is nowhere.

**circuit_breaker** (869,895 states): five samples, times 0 to 4, window 2,
cooldown 1, thresholds at two samples: enough to expire, compact, trip for each
reason, cool down, close and trip again.

- `CountersMatchWindow`: four counters that every operation adjusts one by one
  equal the counts of the live samples, through pruning and compaction.
- `CallsFollowPolicy`: each call decides as `BreakerPolicy` does with the whole
  history, so that nothing the pruning drops was still needed, for the window or
  for the run of healthy acks that closes the breaker.

**retrieval_loop** (800,493 states): three checkpoints of one session, times 0 to 2, every store
failure, restarts.  `LineageSound`, `OneSamplePerCheckpoint`, `LoopGuardHolds`,
`RetryConsistent`.  With three ids there is a chain of followups, a refused one
and two acks for the loop guard to compare.

**offline_sync** (258,989 states): one process, two calls, one server row that others write and
delete, times 0 to 2, failure at every request, restarts.  Two calls are what
the order of a replay needs.

- `QueuedReachServer`: what a caller was told is queued is pending or was run.
- `OfflineStoreReadable`: a sync that ends early leaves the rows made up offline.
- `ReplayInOrder`: no replay overtakes an operation queued at an earlier time.
- `CallsAreDelivered`: to each call the client is one `Delivery`.  What is queued
  leaves the directory in the step in which it is run and no other, and is run
  again only after an attempt that failed.

**offline_sync_shared** (a finding): with two processes `QueuedReachServer`
fails: `syncPending` clears the whole directory at its end, with an operation
that the other process queued while it was waiting.

**fact_claims** (241,389 states): two rows, three claims, three facts of one
slot (two that contradict each other, and one that begins after `Now`, so that
its expiry throws), four calls.  Two rows are what a merge, a reconciliation or
a duplicate needs, three claims a conflict and a third value.

- `Traceable`: no claim loses its source.  An insert after its row is gone, a
  merge into another row, a deletion whose process ends halfway and a lifecycle
  deletion that meets a foreign key are the ways it could.
- `OneActivePerSlot`: two overlapping active claims of a slot exist only after a
  user has set one of them active, whatever the order of the extractions.
- `SystemOnlyDoubts`: the system never takes back a user's decision.
- `ReconcileRepairs`: superseded rows, and compactions that end between archiving
  a row and relinking or doubting its claims, leave active claims on archived
  rows; a reconciliation that comes to its end leaves none.

**fact_claims_compact** (a finding): three near-duplicates.  The loop merges the
texts of its snapshot, and asks only at the head of the outer loop whether its
left row has been archived meanwhile, so that a text ends in archived rows only.

**fact_claims_resolve** (a finding): three facts that contradict each other.  A
third value that is extracted while two are in conflict becomes active; the
claim that the user then picks from the conflict has an active contradiction.

**consolidation** (529,330 states): two rows that are similar and in one topic,
both in conflict at first or neither, two claims of which the second is newer,
cannot expire yet and may be extracted later, three items,
three calls and one write of another service.  A run over two rows yields up to
three queued candidates, one of each action; three calls are a run, a review
and a retry, or two attempts of a run and a review.

- `QueueImplemented`: the queue keeps what `ApprovalQueue` says.
- `NoFactLost`: no merge or expiry, however old its approval, takes a fact from
  the active rows.  Reviews of conflicts are left out: they archive on purpose.
- `NoClaimLeftBehind`: claims may be active on archived rows (late extractions,
  users and interrupted compactions do that); no step of a run or an execution
  makes one so.  A merge takes along every claim its rows have by then, a review
  doubts those of the rows it archives.
- `NoDuplicatePending`: failed and repeated attempts leave each candidate
  pending once, unless a first run ended before it was recorded: then the next
  run does not know it is a retry.
- `ExecutionsEnd`: an execution comes to an outcome, or the process ended and
  the item stays in `approved_pending_execution`, out of reach of every request.
  Fairness: a synchronous handler that has begun goes on.

**candidate_intake** (1,336,803 states, with symmetry of processes and ids): two
processes, two ids, two events of one content and one that cannot be promoted,
four calls, one deletion or rewrite, one acknowledgement.  Two ids are what a
second candidate of an event would need; two processes every race of a read and
a transaction.

- `AuditTellsPlace`: the last move in the audit says where an id is, and no id
  is both candidate and memory.
- `RecordsMove`: to each id the processes' transactions are single moves of
  `CandidateRecord`, each with its audit entry: a promotion that comes late finds
  a candidate or does nothing, a demotion a memory, and neither brings back what
  has been deleted.  (Its text may still be old: the id may have been promoted,
  rewritten and demoted in between.)
- `MaterializedOnce`: one candidate per event.

**maintenance** (582,839 states): two rows (one plain, one explicit or held by a
claim), a day between notice and deadline, one extension; steps fail as often as
they like.  Deadlock is checked.

- `NoticeIsNotCleared`: no run removes the alert while a deletion is announced.
- `DeletesOnlyAcknowledged`: a run deletes only while a notice is out and an
  archived export has come since, although the export is another process's write to the
  metadata that the run has read before.  Which rows the notice and the export
  held is not asked, by the code either (`core/lifecycle.ts:99`).
- `NoticeDelivered`: a notice gets into the alert file, although warnings wait in
  memory, because it is queued again every day; on the condition that a run
  comes to its end without an error and with its digest written again and again
  (`CleanEnd`).  The condition is needed.  An error may come back every day, for
  one because embeddings cannot be rebuilt while Ollama is down
  (`scheduler/tasks.ts:617-619`); `notifyError` then writes it over the digest at
  the end of each run (`829-843`, `notify/manager.ts:34`), and the notice is never
  what the file says when the run is over.
- `ExportedRowsGo`: after an export every overdue row goes, if the deletion comes
  to its end again and again (`EndDeletion`).  A row that a claim holds stops the
  step every day, and then it does not.

Fairness there: days go by and a run that may start does and goes on; the
scheduler ticks every five minutes and everything the run awaits has a time
limit.  Nothing is assumed about failing steps but the two conditions above.

`CHECK_DEADLOCK FALSE` is set where the bound on calls (`MaxCalls`) stops the
model; the program itself never stops there.

Bounds, all named: `MaxCalls` (in `MemoryStore` restarts and inserted rows
count, too), `MaxEvents`, `MaxTime`, `MaxOps`, `MaxWrites`, `MaxAcks`, and `Items` and `Ids` where every new one needs an id.

## What is proved

Every safety property that a passing run checks is a theorem, and so are six that
no run needs any more, because another property says them and more:
`TripRecordConsistent`, `StatusIsExact` and `ClosesAfterHealthyRun` of the
breaker (`CallsFollowPolicy`), `NoResurrection` of the store
(`RowsAreVersioned`), `NoNeedlessReplay` of the client (`CallsAreDelivered`)
and `DeletedStaysDeleted` of the intake (`RecordsMove`).

`MemoryStoreProofs` proves the properties of `MemoryStore` for all sets of
ids, callers, buckets, texts and requests that satisfy `StoreAssumption`.
`TypeInv` adds to `TypeOK` what a waiting caller's locals mean (`LocalOK`: which
request it is in, that a matched row was that of the matched id).  The lemma
`RowStep` says that each step leaves a row alone, creates, rewrites or removes
it, and `CopyStep` the same of the callers' copies; every invariant is then
proved once over those four cases and not once per action.  `RowsInv`
(acknowledged texts and the index), `CleanInv` (redaction, also of the copies
that callers hold: without it a merge could bring a secret back), `BucketInv`
(the copies' buckets and titles, needed for superseding) and `EvidenceInv` (the
archives cover the text of every row that has had no text written uncaptured,
and every copy of such a row that a caller holds) are the inductive invariants.
`EvidenceIsKept` follows for any sequence of starts with the raw archive on or
off; that its condition cannot be dropped is the run `memory_store_evidence`.

The refinement of `VersionedRow` is proved for each id (`RowRefined`), with the
same `RowStep`: the only thing missing is that a row which does not exist has no
versions, which `HistoryInv` adds.  The theorem `NoTextForgotten` then comes from the abstract specification, where it is an
invariant of four actions: as long as the row exists, every text it ever had is
its content or among its versions, whether or not a caller was told of it.

`CircuitBreakerProofs` proves `TypeOK`, `CountersMatchWindow` and
`TripRecordConsistent` for every configuration.  `WellFormed(entry)` says that
the counters count the live samples and that the trip record is consistent; each
helper keeps it, and each operation is a composition of helpers.  The lemmas on
`countIn` are about cardinalities of index sets, so they need no recursion.

That a pruned array decides as the whole history would is a relation between
two sequences, `Kept`: the times in `log` are in order, the samples are the end of
`log`, and what precedes the live ones is older than the window.  Then counting
the window in either gives the same number (`StatusExact`).  `Kept` also says
that the last `healthy` acks of the history are healthy and came after the
cooldown (`HealthyRun`), which is what a close needs (`ClosesOnHealthyRun`);
that there is no longer such run (`Longest`) is what makes the breaker close as
soon as the policy does.  Each call is then a step of the policy
(`PolicyFollowed`), and the specification implements it (`PolicyRefined`).

`FactClaimsProofs` proves the five properties of the run `fact_claims` for all
sets of rows, claims, facts and texts.  The relation `Doubts` says what the
system may do to a table of claims; `marked`, `archivedClaims`, `relinked`
and `detachedClaims` are each shown to keep to it once, so that
`StepDoubts` splits the steps into those that doubt, an insert, and a user's
decision.  The inductive invariant `IInv` adds to `TypeOK` and `Traceable` that
the rows a compaction has still to compare, or is in the middle of merging,
exist (`CompactRows`: without it a merge could move claims to a row that is gone) and which rows a reconciliation
has still to visit (`ReconcileLeft`: every active claim of an archived row is on
one of them).  `OneActivePerSlot` is inductive relative to `IInv`.

`PairsKeepTexts` draws the line of the finding `fact_claims_compact`: a
compaction in which no row of the snapshot is similar to two others keeps every
text in the active rows (`PairsStayActive`).  Its invariant `TextsHeld` says
where each text of the snapshot is, while the loop runs: in its own row as long
as that is active, afterwards in the row it was merged into, which no later pair
can archive.  It is proved and in no run: with two rows it holds for want of a
third, with three it was checked beside the finding.

`ConsolidationProofs` proves the invariants of its run, `NoFactLost` and the refinement
for all sets of rows, claims, items and detectors.  `Inv` is `Data` (types of
rows and claims), `Work` (what a handler's locals
mean: a run expires only what is pending, an item that is executed is marked and
has taken effect when its outcome says so, what is pending was never executed),
`Attempts` (every item's key is known; what is pending of a running key is about
to expire, is not submitted again, or the first run was interrupted) and the
bounds.  `Attempts` is what `NoDuplicatePending` lacks to be inductive.  The
refinement has a lemma per abstract step: `PromiseWritten` says that writing an
item changes its promised status alone, and `Work` supplies the guards.
`OnlyApprovedActs` and `RefusalsAreFinal` are theorems of `ApprovalQueue` that
the refinement carries over.  `NoFactLost` is an action property: `MergedRows`
says what a merge leaves of the rows of an old approval, whichever of them have
gone or changed since, and an expiry touches claims only.  `ClaimsTakenAlong` is
one, too: each execution is shown to archive no row without doubting or moving
every claim it has at that time.

`CandidateIntakeProofs` proves the invariants of its run.  What is new gets
an id that is in no table, so `Inv` says that an id with a past is in a table or
deleted (`UsedIdsAreKnown`), and that a staged event is staged by one process
and has no candidate yet (`StagedOnce`).  With these the refinement of
`CandidateRecord` (`RecordRefined`) needs only where the tables put an id before and
after each transaction (`StageOf`, `StageAfter`); `EntriesAreTrue` is a theorem
of the five moves of the record.

`MaintenanceProofs` proves `TypeOK`, `NoticeIsNotCleared` and
`DeletesOnlyAcknowledged`.  The invariant says that a run past the notice that
recorded no error and no notice of its own found nothing announced that was not
acknowledged, and that a digest being sent is not empty.  For the deletions,
`AcknowledgedIsAnnounced` says that an export acknowledges no more than has been
announced, and that a run which lists overdue rows had read such an
acknowledgement.

`RetrievalLoopProofs` proves the five properties of the run `retrieval_loop`.
What it needs of the composed breaker is that its three calls keep an entry well
formed; that is `CallsWellFormed` of `CircuitBreakerProofs`, which is instantiated
the way `RetrievalLoop` instantiates `CircuitBreaker` (`Calls`).  `LoopInv` adds to
the properties that what is stored was issued before and continues what was
issued before (`StoredIsIssued`: so a new id is in nobody's lineage yet), and that
samples and answers exist for recorded acks only and say what the record says
(`RecordedAcks`).  `LoopBreakerExact` carries the exactness of the counters and of the trip
record over to the breaker in the loop, where resolves, retried acks, resets and
restarts call it.

`OfflineSyncProofs` proves the properties of the run `offline_sync` for one
process (`OneProcess`); the run `offline_sync_shared` shows that two processes
lose queued operations.  `Doing` says what the process knows of the pending directory: during
a replay its list is the directory, after it the directory is empty, so that
clearing it loses nothing; and an operation that is being requested has not run
and is not queued.  `Pending` says that a call is queued once and that a queued
one has run only in an attempt that failed.  By the same invariant every step is, to each
call, one of `Delivery` (`DeliveryRefined`), and `DeliverySound` follows there.

Only model-checked: the liveness properties `ExecutionsEnd`, `NoticeDelivered`
and `ExportedRowsGo`, which the prover cannot reach: liveness under fairness,
`ENABLED`, and what a recursive definition computes for all inputs.

## Plan

Done: the memory service, the breaker, the retrieval loop, the offline client,
the claims, the consolidation, the intake of candidates and the maintenance.
What is left, in this order:

1. Several processes in `Consolidation` and `FactClaims`.
2. Usage consumption and fallback as an extension of `RetrievalLoop`; host
   timeouts; topics and their revisions.

## Not modelled

The models cover the code whose order of steps matters, which is a small share
of its lines.  Search and ranking, budgets and bundles, wiki, HTTP and MCP
routing, storage drivers and migrations, tenants, billing, the command line, SDKs
and benchmarks are pure functions, text and CRUD whose state is derived or local
to a request: a model would restate them.  The task queue is a class that only
its test uses.  Backups, RSS, document and code indexes are input and output.

Hazards that are known and not covered by a property, beside those in
`PROJECT.json`:

- Two stores of one text that await their embedding both create a row; a merge
  may downgrade a verdict that was given in between (`core/memory.ts:366`, `443`).
- The process ends between `createMemory` and `captureArchiveContent`
  (`core/memory.ts:570`): a deletion then makes the fallback archive.
- A response is cached with the signal and the budget of its moment
  (`retrieval/orchestrator.ts:484`, `756`): one of a reduced budget still says that
  the breaker is open after it has closed, and one of the full budget is
  answered while it is open.  `RetrievalLoop` does both; no statement of the
  repository says what a cached response may tell.
- A request that times out is neither queued nor confirmed (`sync/client.ts:81`);
  an old queued update overwrites newer text of the server (`sync/manager.ts:80`).
- A failing provider looks like a text without facts
  (`core/fact-claim-service.ts:270`): every claim of the row is doubted.
- Two processes execute one approval at a time (`core/consolidation-approval.ts:221`
  asks and writes in two statements).
- Two processes that ingest one text under two event ids may both make a
  candidate of it (`ingestion/pipeline.ts:62`); `CandidateIntake` does it, and
  nothing promises otherwise.  A text that was promoted is ingested again as a
  new candidate, and texts of two projects are one.
- `executeDeletion` meets a row that a claim holds and throws, every day again
  (`core/lifecycle.ts:189`): the rows behind it stay.  `Maintenance` and
  `FactClaims` do it.
- `resolveClaim` stops at a rival whose expiry the CHECK refuses
  (`core/fact-claim-service.ts:413`), with those before it expired.
- A demotion writes the text it read before its transaction
  (`promotion/orchestrator.ts:219`): an update that was committed in between is
  lost.
- `logAudit` throws after the commit of an execution
  (`core/consolidation-approval.ts:598`): the item has taken effect and counts as
  failed, and its retry is refused for ever.  The refinement allows it.
