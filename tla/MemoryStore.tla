---------------------------- MODULE MemoryStore ----------------------------
(***************************************************************************)
(* The hot path of Vega: MemoryService.store, update and delete over the   *)
(* repository's memories, memory_versions, memories_fts and raw_archives   *)
(* tables (src/core/memory.ts, src/db/repository.ts).                      *)
(*                                                                         *)
(* A call runs until it awaits the embedding or the chat provider; other   *)
(* calls run in those gaps.  Everything between two awaits is synchronous, *)
(* better-sqlite3 included, and is one step here.  What a call read before *)
(* an await (the row that findMatch returned) it still uses after it.      *)
(*                                                                         *)
(* Data.  A text is a set of atoms: one contains another when it is a      *)
(* superset, concatenation is union, two texts are similar (or share a     *)
(* keyword) when they have an atom in common.  A bucket stands for the     *)
(* (tenant, project, type) that findMatch searches.  Importance, tags,     *)
(* summaries and timestamps are left out.                                  *)
(***************************************************************************)
EXTENDS Naturals, FiniteSets

CONSTANTS Ids,           \* the uuids the service may draw
          Callers,       \* concurrent callers of the service
          Buckets,       \* (tenant, project, type) triples
          TaskBuckets,   \* those whose type is task_state
          Titles,        \* normalised titles
          Atoms,         \* what a text is made of
          Secrets,       \* the atoms redactSensitiveData removes
          Negated,       \* the atoms NEGATION_PATTERN matches
          Requests,      \* the calls that callers may make
          MaxCalls,      \* bound: calls made in a behaviour
          NoId, NoMemory

Texts == SUBSET Atoms
Verdicts == {"unverified", "verified", "conflict"}

Memory == [bucket: Buckets, title: Titles, content: Texts, embedded: BOOLEAN,
           status: {"active", "archived"}, verified: Verdicts, explicit: BOOLEAN]

StoreRequest  == [op: {"store"}, bucket: Buckets, title: Titles, titled: BOOLEAN,
                  content: Texts, explicit: BOOLEAN, skip: BOOLEAN, raw: BOOLEAN]
UpdateRequest == [op: {"update"}, content: Texts, raw: BOOLEAN]
RetitleRequest == [op: {"retitle"}, title: Titles]
DeleteRequest == [op: {"delete"}]

Archive == [text: Texts, source: Ids \cup {NoId}]

ASSUME StoreAssumption ==
    /\ TaskBuckets \subseteq Buckets
    /\ Secrets \subseteq Atoms
    /\ Negated \subseteq Atoms
    /\ Requests \subseteq StoreRequest \cup UpdateRequest \cup RetitleRequest
                          \cup DeleteRequest
    /\ \E r \in Requests : r.op = "store"
    /\ MaxCalls \in Nat
    /\ NoId \notin Ids
    /\ NoMemory \notin Memory

VARIABLES rawArchive, \* config of the running process: is the raw archive enabled
          memories,   \* the memories table
          versions,   \* memory_versions: the texts each row has replaced
          fts,        \* memories_fts: the text indexed for each row, a singleton
          archives,   \* raw_archives: a text and the row it was captured from
          pc,         \* where each caller is
          req,        \* the request of each caller
          embedding,  \* whether generateEmbedding answered the caller
          matchId,    \* the row the caller is about to merge into or update
          matched,    \* that row as the caller read it
          acked,      \* history: <<id, text>> of every store that returned
          deleted,    \* history: the rows deleted so far
          retitled,   \* history: the rows whose title came from update()
          uncaptured, \* history: the rows that had a text written without archiving it
          calls       \* calls made, up to MaxCalls

tables == <<memories, versions, fts, archives>>
local  == <<pc, req, embedding, matchId, matched>>
history == <<acked, deleted, retitled, uncaptured>>
vars   == <<rawArchive, tables, local, history, calls>>

----------------------------------------------------------------------------
(* Pure helpers. *)

redactSensitiveData(text) == text \ Secrets

similar(left, right) == left \cap right # {}

\* One of the texts is negated, the other is not, and they share a keyword.
contradicts(existing, incoming) ==
    /\ (existing \cap Negated # {}) # (incoming \cap Negated # {})
    /\ existing \cap incoming # {}

mergeContent(existing, incoming) ==
    IF incoming \subseteq existing THEN existing ELSE existing \cup incoming

isActive(id) == memories[id] # NoMemory /\ memories[id].status = "active"

\* The rows findMatch may return: active, of the bucket, with an embedding
\* above the similarity threshold.  Which of them is the closest is data.
findMatch(r) ==
    {id \in Ids : /\ isActive(id)
                  /\ memories[id].bucket = r.bucket
                  /\ memories[id].embedded
                  /\ similar(memories[id].content, redactSensitiveData(r.content))}

----------------------------------------------------------------------------
(* Repository operations, as the next values of its tables. *)

\* archiveSupersededTaskStates: every other active row of the bucket that has
\* the title is archived.
archiveSuperseded(rows, keepId, bucket, title) ==
    IF bucket \notin TaskBuckets THEN rows
    ELSE [id \in Ids |->
            IF /\ id # keepId
               /\ rows[id] # NoMemory
               /\ rows[id].status = "active"
               /\ rows[id].bucket = bucket
               /\ rows[id].title = title
            THEN [rows[id] EXCEPT !.status = "archived"]
            ELSE rows[id]]

createMemory(id, row) ==
    /\ memories' = archiveSuperseded([memories EXCEPT ![id] = row], id, row.bucket, row.title)
    /\ fts' = [fts EXCEPT ![id] = {row.content}]
    /\ UNCHANGED versions

\* Mutant: every write asks for skipVersion.
updateMemory_NoVersion(id, row, rows) ==
    /\ memories' = rows
    /\ fts' = [fts EXCEPT ![id] = {row.content}]
    /\ UNCHANGED versions

\* Mutant: the row's old text is not removed from the index.
updateMemory_FtsKeepsOld(id, row, rows) ==
    /\ memories' = rows
    /\ versions' = [versions EXCEPT ![id] = @ \cup {memories[id].content}]
    /\ fts' = [fts EXCEPT ![id] = @ \cup {row.content}]

\* updateMemory reads the row afresh: the version it saves and the fts entry
\* it removes are those of the stored row, not of the caller's copy.
updateMemory(id, row, rows) ==
    LET existing == memories[id] IN
    /\ memories' = rows
    /\ versions' = IF row.content = existing.content THEN versions
                   ELSE [versions EXCEPT ![id] = @ \cup {existing.content}]
    /\ fts' = [fts EXCEPT ![id] = (@ \ {existing.content}) \cup {row.content}]

\* ArchiveService.store: a content hash that is already archived is kept as
\* it is, under the row it was first captured from.
archived(text, id) ==
    IF \E a \in archives : a.text = text THEN archives
    ELSE archives \cup {[text |-> text, source |-> id]}

captureArchiveContent(r, id) ==
    /\ archives' = IF ~rawArchive THEN archives
                   ELSE archived(IF r.raw THEN r.content ELSE redactSensitiveData(r.content), id)
    /\ uncaptured' = IF rawArchive THEN uncaptured ELSE uncaptured \cup {id}

\* Mutant: deletion trusts that the text was archived when it was stored.
fallbackArchives_Trusting(id) == archives

\* ensureFallbackArchive: a row that no archive names as its source has its
\* text archived before it is deleted.  An archive that a claim of the row has
\* as its evidence would do as well, but no claim has both a row and an archive
\* (FactClaims.Traceable).
fallbackArchives(id) ==
    IF \E a \in archives : a.source = id THEN archives
    ELSE archived(memories[id].content, id)

finish(c) == pc' = [pc EXCEPT ![c] = "idle"]

----------------------------------------------------------------------------
(* MemoryService.store. *)

\* A store call redacts its text and awaits the embedding.
StoreBegin(c) == \E r \in Requests :
    /\ pc[c] = "idle"
    /\ r.op = "store"
    /\ calls < MaxCalls
    /\ calls' = calls + 1
    /\ pc' = [pc EXCEPT ![c] = "embed"]
    /\ req' = [req EXCEPT ![c] = r]
    /\ UNCHANGED <<rawArchive, tables, embedding, matchId, matched, history>>

\* The provider answers, or fails and yields null; findMatch runs and the
\* call awaits the summary.
StoreMatch(c) == \E answered \in BOOLEAN :
    LET found == IF answered /\ ~req[c].skip THEN findMatch(req[c]) ELSE {} IN
    /\ pc[c] = "embed"
    /\ embedding' = [embedding EXCEPT ![c] = answered]
    /\ \/ /\ found = {}
          /\ matchId' = [matchId EXCEPT ![c] = NoId]
          /\ matched' = [matched EXCEPT ![c] = NoMemory]
       \/ \E id \in found :
          /\ matchId' = [matchId EXCEPT ![c] = id]
          /\ matched' = [matched EXCEPT ![c] = memories[id]]
    /\ pc' = [pc EXCEPT ![c] = "summary"]
    /\ UNCHANGED <<rawArchive, tables, req, history, calls>>

isConflict(c) ==
    /\ matchId[c] # NoId
    /\ matched[c].verified = "verified"
    /\ contradicts(matched[c].content, redactSensitiveData(req[c].content))

newRow(c, verified) ==
    [bucket |-> req[c].bucket, title |-> req[c].title,
     content |-> redactSensitiveData(req[c].content), embedded |-> embedding[c],
     status |-> "active", verified |-> verified, explicit |-> req[c].explicit]

\* No match, or a verified match that the text contradicts: a new row.
StoreCreate(c) == \E id \in Ids :
    /\ pc[c] = "summary"
    /\ matchId[c] = NoId \/ isConflict(c)
    /\ memories[id] = NoMemory
    /\ id \notin deleted
    /\ createMemory(id, newRow(c, IF isConflict(c) THEN "conflict"
                                  ELSE IF req[c].explicit THEN "verified" ELSE "unverified"))
    /\ captureArchiveContent(req[c], id)
    /\ acked' = acked \cup {<<id, redactSensitiveData(req[c].content)>>}
    /\ finish(c)
    /\ UNCHANGED <<rawArchive, req, embedding, matchId, matched, deleted, retitled, calls>>

\* Mutant: the merge appends the text as the caller sent it.
mergedText_Unredacted(c) == mergeContent(matched[c].content, req[c].content)

mergedText(c) == mergeContent(matched[c].content, redactSensitiveData(req[c].content))

\* The merged text is neither the matched row's nor the new one: it needs an
\* embedding and a summary of its own, hence another await.
needsEmbedding(c) ==
    mergedText(c) \notin {matched[c].content, redactSensitiveData(req[c].content)}

StoreReembed(c) == \E answered \in BOOLEAN :
    /\ pc[c] = "summary"
    /\ matchId[c] # NoId
    /\ ~isConflict(c)
    /\ needsEmbedding(c)
    /\ embedding' = [embedding EXCEPT ![c] = answered]
    /\ pc' = [pc EXCEPT ![c] = "merge"]
    /\ UNCHANGED <<rawArchive, tables, req, matchId, matched, history, calls>>

\* Mutant: the merge writes the caller's whole copy back.
mergedRow_WholeCopy(c) ==
    [matched[c] EXCEPT !.content = mergedText(c), !.explicit = @ \/ req[c].explicit]

\* The columns the merge writes are computed from the caller's copy of the
\* row; status is not among them and keeps the stored value.
mergedRow(c) ==
    [memories[matchId[c]] EXCEPT
        !.title    = IF req[c].titled THEN req[c].title ELSE matched[c].title,
        !.content  = mergedText(c),
        !.embedded = IF mergedText(c) = matched[c].content
                     THEN matched[c].embedded ELSE embedding[c],
        !.verified = IF req[c].explicit THEN "verified" ELSE matched[c].verified,
        !.explicit = matched[c].explicit \/ req[c].explicit]

\* Mutant: only a store that creates a row supersedes the others.
mergedRows_KeepOthers(c) == [memories EXCEPT ![matchId[c]] = mergedRow(c)]

mergedRows(c) ==
    archiveSuperseded([memories EXCEPT ![matchId[c]] = mergedRow(c)],
                      matchId[c], req[c].bucket, mergedRow(c).title)

readyToMerge(c) ==
    \/ pc[c] = "merge"
    \/ /\ pc[c] = "summary"
       /\ matchId[c] # NoId
       /\ ~isConflict(c)
       /\ ~needsEmbedding(c)

StoreMerge(c) ==
    /\ readyToMerge(c)
    /\ memories[matchId[c]] # NoMemory
    /\ updateMemory(matchId[c], mergedRow(c), mergedRows(c))
    /\ captureArchiveContent(req[c], matchId[c])
    /\ acked' = acked \cup {<<matchId[c], redactSensitiveData(req[c].content)>>}
    /\ finish(c)
    /\ UNCHANGED <<rawArchive, req, embedding, matchId, matched, deleted, retitled, calls>>

\* The matched row was deleted while the call waited: updateMemory throws
\* "Memory not found" before it writes anything.
MergeFails(c) ==
    /\ readyToMerge(c)
    /\ memories[matchId[c]] = NoMemory
    /\ finish(c)
    /\ UNCHANGED <<rawArchive, tables, req, embedding, matchId, matched, history, calls>>

----------------------------------------------------------------------------
(* MemoryService.update and delete, and the archiving writers. *)

\* update() throws when the row is missing, then awaits the summary and the
\* embedding of the new text.
UpdateBegin(c) == \E r \in Requests, id \in Ids :
    /\ pc[c] = "idle"
    /\ r.op = "update"
    /\ memories[id] # NoMemory
    /\ calls < MaxCalls
    /\ calls' = calls + 1
    /\ pc' = [pc EXCEPT ![c] = "update"]
    /\ req' = [req EXCEPT ![c] = r]
    /\ matchId' = [matchId EXCEPT ![c] = id]
    /\ matched' = [matched EXCEPT ![c] = memories[id]]
    /\ UNCHANGED <<rawArchive, tables, embedding, history>>

UpdateCommit(c) == \E answered \in BOOLEAN :
    LET id == matchId[c] IN
    /\ pc[c] = "update"
    /\ memories[id] # NoMemory
    /\ LET row == [memories[id] EXCEPT !.content = redactSensitiveData(req[c].content),
                                       !.embedded = answered]
       IN  updateMemory(id, row, [memories EXCEPT ![id] = row])
    /\ captureArchiveContent(req[c], id)
    /\ acked' = acked \cup {<<id, redactSensitiveData(req[c].content)>>}
    /\ finish(c)
    /\ UNCHANGED <<rawArchive, req, embedding, matchId, matched, deleted, retitled, calls>>

UpdateFails(c) ==
    /\ pc[c] = "update"
    /\ memories[matchId[c]] = NoMemory
    /\ finish(c)
    /\ UNCHANGED <<rawArchive, tables, req, embedding, matchId, matched, history, calls>>

\* update() with a title and no content awaits nothing, and does not archive
\* the task states that have the title already.
Retitle(c) == \E r \in Requests, id \in Ids :
    /\ pc[c] = "idle"
    /\ r.op = "retitle"
    /\ memories[id] # NoMemory
    /\ calls < MaxCalls
    /\ calls' = calls + 1
    /\ LET row == [memories[id] EXCEPT !.title = r.title]
       IN  updateMemory(id, row, [memories EXCEPT ![id] = row])
    /\ retitled' = retitled \cup {id}
    /\ UNCHANGED <<rawArchive, archives, local, acked, deleted, uncaptured>>

\* delete() is synchronous: the sidecar reconciler secures the text in the raw
\* archive, then the row goes, its versions with it (ON DELETE CASCADE) and
\* the archives' reference to it (ON DELETE SET NULL).
Delete(c) == \E r \in Requests, id \in Ids :
    /\ pc[c] = "idle"
    /\ r.op = "delete"
    /\ memories[id] # NoMemory
    /\ calls < MaxCalls
    /\ calls' = calls + 1
    /\ archives' = {IF a.source = id THEN [a EXCEPT !.source = NoId] ELSE a :
                      a \in fallbackArchives(id)}
    /\ memories' = [memories EXCEPT ![id] = NoMemory]
    /\ versions' = [versions EXCEPT ![id] = {}]
    /\ fts' = [fts EXCEPT ![id] = @ \ {memories[id].content}]
    /\ deleted' = deleted \cup {id}
    /\ UNCHANGED <<rawArchive, local, acked, retitled, uncaptured>>

\* Mutant: archiving writes a status outside the schema's CHECK.
ArchiveRow_Closed(id) ==
    /\ isActive(id)
    /\ calls < MaxCalls
    /\ calls' = calls + 1
    /\ memories' = [memories EXCEPT ![id].status = "closed"]
    /\ UNCHANGED <<rawArchive, versions, fts, archives, local, history>>

\* Compaction and the approval executor archive a row with updateMemory.
ArchiveRow(id) ==
    /\ isActive(id)
    /\ calls < MaxCalls
    /\ calls' = calls + 1
    /\ memories' = [memories EXCEPT ![id].status = "archived"]
    /\ UNCHANGED <<rawArchive, versions, fts, archives, local, history>>

\* createFromCandidate (a promotion) and vega import make rows without
\* archiving their texts.  They do not redact them either; the texts here have
\* nothing to redact.  An import that overwrites a row, or makes one again
\* under an id that was deleted, is left out.
InsertRow(id) == \E r \in Requests, embedded \in BOOLEAN :
    /\ r.op = "store"
    /\ r.content \cap Secrets = {}
    /\ memories[id] = NoMemory
    /\ id \notin deleted
    /\ calls < MaxCalls
    /\ calls' = calls + 1
    /\ createMemory(id, [bucket |-> r.bucket, title |-> r.title, content |-> r.content,
                         embedded |-> embedded, status |-> "active",
                         verified |-> "unverified", explicit |-> r.explicit])
    /\ uncaptured' = uncaptured \cup {id}
    /\ UNCHANGED <<rawArchive, archives, local, acked, deleted, retitled>>

\* The process ends and another starts over the same database: the calls are
\* lost, and VEGA_FEATURE_RAW_ARCHIVE is read again.
Restart ==
    /\ calls < MaxCalls
    /\ calls' = calls + 1
    /\ rawArchive' \in BOOLEAN
    /\ pc' = [c \in Callers |-> "idle"]
    /\ UNCHANGED <<tables, req, embedding, matchId, matched, history>>

----------------------------------------------------------------------------
Init ==
    /\ rawArchive \in BOOLEAN
    /\ memories = [id \in Ids |-> NoMemory]
    /\ versions = [id \in Ids |-> {}]
    /\ fts = [id \in Ids |-> {}]
    /\ archives = {}
    /\ pc = [c \in Callers |-> "idle"]
    /\ req \in [Callers -> {CHOOSE r \in Requests : r.op = "store"}]
    /\ embedding = [c \in Callers |-> FALSE]
    /\ matchId = [c \in Callers |-> NoId]
    /\ matched = [c \in Callers |-> NoMemory]
    /\ acked = {}
    /\ deleted = {}
    /\ retitled = {}
    /\ uncaptured = {}
    /\ calls = 0

Next ==
    \/ \E c \in Callers :
        \/ StoreBegin(c) \/ StoreMatch(c) \/ StoreCreate(c)
        \/ StoreReembed(c) \/ StoreMerge(c) \/ MergeFails(c)
        \/ UpdateBegin(c) \/ UpdateCommit(c) \/ UpdateFails(c)
        \/ Retitle(c) \/ Delete(c)
    \/ \E id \in Ids : ArchiveRow(id) \/ InsertRow(id)
    \/ Restart

Spec == Init /\ [][Next]_vars

----------------------------------------------------------------------------
(* Properties. *)

TypeOK ==
    /\ rawArchive \in BOOLEAN
    /\ memories \in [Ids -> Memory \cup {NoMemory}]
    /\ versions \in [Ids -> SUBSET Texts]
    /\ fts \in [Ids -> SUBSET Texts]
    /\ archives \subseteq Archive
    /\ pc \in [Callers -> {"idle", "embed", "summary", "merge", "update"}]
    /\ req \in [Callers -> Requests]
    /\ embedding \in [Callers -> BOOLEAN]
    /\ matchId \in [Callers -> Ids \cup {NoId}]
    /\ matched \in [Callers -> Memory \cup {NoMemory}]
    /\ acked \subseteq Ids \X Texts
    /\ deleted \subseteq Ids
    /\ retitled \subseteq Ids
    /\ uncaptured \subseteq Ids
    /\ calls \in 0..MaxCalls

\* A text whose store or update returned is never lost while its row exists:
\* it is part of the row's content or of a version the row has replaced, even
\* when a store that had read the row before it overwrites the content.
AcknowledgedTextSurvives ==
    \A id \in Ids, text \in Texts :
        <<id, text>> \in acked /\ memories[id] # NoMemory =>
            \E kept \in {memories[id].content} \cup versions[id] : text \subseteq kept

\* The full-text index has exactly the stored text of every row and nothing
\* for a row that is gone, whatever stale copies the writers started from.
FtsAgrees ==
    \A id \in Ids :
        fts[id] = IF memories[id] = NoMemory THEN {} ELSE {memories[id].content}

\* Redacted material that a store or an update brings reaches no row, version or
\* index entry along any path of create, merge and update; only the raw archive may have it, and then only
\* because a call asked for its raw text to be preserved.
SecretsRedacted ==
    /\ \A id \in Ids :
        /\ memories[id] # NoMemory => memories[id].content \cap Secrets = {}
        /\ \A text \in versions[id] \cup fts[id] : text \cap Secrets = {}
    /\ \A a \in archives :
        a.text \cap Secrets # {} =>
            \E r \in Requests : r.op \in {"store", "update"} /\ r.raw /\ r.content = a.text

\* Two active task states of a bucket share a title only when update() gave
\* one of them its title: every store archives the ones it supersedes, however
\* the stores interleave.
OneActiveTaskState ==
    \A left, right \in Ids :
        (/\ isActive(left) /\ isActive(right)
         /\ memories[left].bucket = memories[right].bucket
         /\ memories[left].bucket \in TaskBuckets
         /\ memories[left].title = memories[right].title)
        => left = right \/ left \in retitled \/ right \in retitled

\* A store that matched a row while it was active does not bring it back when
\* the row was archived or deleted before the store writes.
NoResurrection ==
    [][\A id \in Ids :
        /\ memories[id] # NoMemory /\ memories[id].status = "archived"
              => ~isActive(id)'
        /\ id \in deleted => memories'[id] = NoMemory]_vars

contentOutlives(id) ==
    memories[id].content \subseteq UNION {a.text : a \in archives'}

\* Deleting a row leaves every atom of its text in the raw archive when all its
\* texts were captured as they were written, under whatever hash and whatever
\* row archived them first, or when no archive names the row at all.
CapturedEvidenceOutlivesRow ==
    [][\A id \in Ids :
        /\ memories[id] # NoMemory /\ memories'[id] = NoMemory
        /\ id \notin uncaptured \/ ~\E a \in archives : a.source = id
        => contentOutlives(id)]_vars

\* The same of every row: MemoryService.delete preserves what the deleted memory
\* said (tests/sidecar-reconciler.test.ts).
EvidenceOutlivesRow ==
    [][\A id \in Ids :
        memories[id] # NoMemory /\ memories'[id] = NoMemory => contentOutlives(id)]_vars

lifeOf(id) ==
    IF id \in deleted THEN "deleted"
    ELSE IF memories[id] = NoMemory THEN "free" ELSE memories[id].status

storedOf(id) == IF memories[id] = NoMemory THEN {} ELSE {memories[id].content}

Row(id) == INSTANCE VersionedRow WITH
    status <- lifeOf(id), contents <- storedOf(id), past <- versions[id], index <- fts[id]

\* To each row the calls, which wait with copies and supersede other rows, look
\* like single atomic writes: it is created once, a write puts what it replaces
\* under the versions and nothing else into the index, and an archived row stays
\* archived, a deleted one deleted.
RowsAreVersioned == [][\A id \in Ids : [Row(id)!Next]_(Row(id)!vars)]_vars
=============================================================================
