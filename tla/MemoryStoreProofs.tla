------------------------- MODULE MemoryStoreProofs -------------------------
(***************************************************************************)
(* Proofs about MemoryStore, for any sets of ids, callers and requests,    *)
(* and that it implements VersionedRow, row by row.                        *)
(***************************************************************************)
EXTENDS MemoryStore, TLAPS

\* What a caller holds while it waits: the kind of its request, and a copy of
\* a row of the request's bucket when it has matched one.
LocalOK ==
    \A c \in Callers :
        /\ pc[c] \in {"embed", "summary", "merge"} => req[c] \in StoreRequest
        /\ pc[c] = "update" => req[c] \in UpdateRequest
        /\ pc[c] \in {"merge", "update"} => matchId[c] \in Ids
        /\ pc[c] \in {"summary", "merge"} /\ matchId[c] # NoId =>
              matched[c] \in Memory /\ matched[c].bucket = req[c].bucket

TypeInv == TypeOK /\ LocalOK

----------------------------------------------------------------------------
(* Operators. *)

\* A request is of the kind that its op says.
LEMMA RequestKinds ==
    ASSUME NEW r \in Requests
    PROVE  /\ r.op = "store" => r \in StoreRequest
           /\ r.op = "update" => r \in UpdateRequest
           /\ r.op = "retitle" => r \in RetitleRequest
BY StoreAssumption DEF StoreRequest, UpdateRequest, RetitleRequest, DeleteRequest

\* Superseding leaves every row alone or archives it.
LEMMA SupersededRows ==
    ASSUME NEW rows \in [Ids -> Memory \cup {NoMemory}],
           NEW keepId, NEW bucket, NEW title
    PROVE  LET after == archiveSuperseded(rows, keepId, bucket, title) IN
           /\ after \in [Ids -> Memory \cup {NoMemory}]
           /\ \A id \in Ids : rows[id] = NoMemory => after[id] = NoMemory
           /\ \A id \in Ids : rows[id] # NoMemory =>
                /\ after[id] \in Memory
                /\ after[id].bucket = rows[id].bucket
                /\ after[id].title = rows[id].title
                /\ after[id].content = rows[id].content
                /\ after[id].status \in {rows[id].status, "archived"}
           /\ keepId \in Ids => after[keepId] = rows[keepId]
BY StoreAssumption DEF archiveSuperseded, Memory

\* The row a merge writes: the stored row with the caller's text, in the same
\* bucket and with the status it had.
LEMMA MergedRow ==
    ASSUME TypeInv, NEW c \in Callers, readyToMerge(c),
           memories[matchId[c]] # NoMemory
    PROVE  /\ matchId[c] \in Ids
           /\ req[c] \in StoreRequest
           /\ matched[c] \in Memory
           /\ mergedRow(c) \in Memory
           /\ mergedRow(c).content = mergedText(c)
           /\ mergedRow(c).status = memories[matchId[c]].status
           /\ mergedRow(c).bucket = memories[matchId[c]].bucket
<1>1. matchId[c] \in Ids /\ matchId[c] # NoId
  BY StoreAssumption DEF readyToMerge, TypeInv, LocalOK, TypeOK
<1>2. req[c] \in StoreRequest /\ matched[c] \in Memory
  BY <1>1 DEF readyToMerge, TypeInv, LocalOK
<1>3. memories[matchId[c]] \in Memory
  BY <1>1 DEF TypeInv, TypeOK
<1>4. mergedText(c) \in Texts
  BY <1>2 DEF mergedText, mergeContent, redactSensitiveData, StoreRequest, Memory, Texts
<1>5. embedding[c] \in BOOLEAN
  BY DEF TypeInv, TypeOK
<1>6. QED
  BY <1>1, <1>2, <1>3, <1>4, <1>5 DEF mergedRow, Memory, StoreRequest, Verdicts

\* The row a store makes.
LEMMA NewRow ==
    ASSUME TypeInv, NEW c \in Callers, pc[c] = "summary", NEW verified \in Verdicts
    PROVE  /\ req[c] \in StoreRequest
           /\ newRow(c, verified) \in Memory
           /\ newRow(c, verified).bucket = req[c].bucket
           /\ newRow(c, verified).content = redactSensitiveData(req[c].content)
           /\ newRow(c, verified).status = "active"
<1>1. req[c] \in StoreRequest /\ embedding[c] \in BOOLEAN
  BY DEF TypeInv, TypeOK, LocalOK
<1>2. QED
  BY <1>1 DEF newRow, Memory, StoreRequest, redactSensitiveData, Texts

\* The row a promotion or an import makes.
LEMMA InsertedRow ==
    ASSUME NEW id \in Ids, InsertRow(id)
    PROVE  \E row \in Memory :
              createMemory(id, row) /\ row.content \cap Secrets = {} /\ row.status = "active"
<1>1. PICK r \in Requests, embedded \in BOOLEAN :
          /\ r.op = "store"
          /\ r.content \cap Secrets = {}
          /\ createMemory(id, [bucket |-> r.bucket, title |-> r.title, content |-> r.content,
                               embedded |-> embedded, status |-> "active",
                               verified |-> "unverified", explicit |-> r.explicit])
  BY DEF InsertRow
<1>2. r \in StoreRequest
  BY <1>1, RequestKinds
<1> DEFINE row == [bucket |-> r.bucket, title |-> r.title, content |-> r.content,
                   embedded |-> embedded, status |-> "active",
                   verified |-> "unverified", explicit |-> r.explicit]
<1>3. row \in Memory /\ row.content = r.content /\ row.status = "active"
  BY <1>2 DEF Memory, StoreRequest, Verdicts
<1>4. QED
  BY <1>1, <1>3

\* Capturing a text leaves the raw archive's type alone.
LEMMA ArchivedTyped ==
    ASSUME archives \subseteq Archive, NEW text \in Texts, NEW id \in Ids
    PROVE  archived(text, id) \subseteq Archive
BY DEF archived, Archive

\* The capture of a call leaves the raw archive's type alone.
LEMMA CaptureTyped ==
    ASSUME archives \subseteq Archive, NEW r \in StoreRequest \cup UpdateRequest,
           NEW id \in Ids, captureArchiveContent(r, id)
    PROVE  archives' \subseteq Archive /\ uncaptured' \subseteq uncaptured \cup {id}
<1>1. r.content \in Texts /\ redactSensitiveData(r.content) \in Texts
  BY DEF StoreRequest, UpdateRequest, redactSensitiveData, Texts
<1>2. QED
  BY <1>1, ArchivedTyped DEF captureArchiveContent

\* Writing a row of the right type leaves the tables' types alone.
LEMMA UpdateTyped ==
    ASSUME TypeInv, NEW id \in Ids, NEW row \in Memory, memories[id] # NoMemory,
           NEW rows \in [Ids -> Memory \cup {NoMemory}], updateMemory(id, row, rows)
    PROVE  /\ memories' \in [Ids -> Memory \cup {NoMemory}]
           /\ versions' \in [Ids -> SUBSET Texts]
           /\ fts' \in [Ids -> SUBSET Texts]
<1>1. memories[id].content \in Texts /\ row.content \in Texts
  BY DEF TypeInv, TypeOK, Memory
<1>2. QED
  BY <1>1 DEF updateMemory, TypeInv, TypeOK

----------------------------------------------------------------------------
(* Steps. *)

\* The steps that change what is stored or recorded; the others only move a
\* caller on.
Writing ==
    \/ \E c \in Callers :
        StoreCreate(c) \/ StoreMerge(c) \/ UpdateCommit(c) \/ Retitle(c) \/ Delete(c)
    \/ \E id \in Ids : ArchiveRow(id) \/ InsertRow(id)

\* Every step writes, or leaves the tables and what was acknowledged as they are.
LEMMA WritingOrQuiet ==
    [Next]_vars => Writing \/ UNCHANGED <<tables, history>>
BY DEF Next, vars, tables, history, Writing, StoreBegin, StoreMatch, StoreReembed,
       MergeFails, UpdateBegin, UpdateFails, Restart

----------------------------------------------------------------------------
(* Type correctness. *)

\* The initial states have the declared types.
LEMMA InitTyped == Init => TypeInv
<1> SUFFICES ASSUME Init PROVE TypeInv
  OBVIOUS
<1>1. (CHOOSE r \in Requests : r.op = "store") \in Requests
  BY StoreAssumption
<1>2. QED
  BY <1>1, StoreAssumption DEF Init, TypeInv, TypeOK, LocalOK, Texts, Archive

\* Every step keeps the declared types, and what a waiting caller holds.
LEMMA StepTyped == TypeInv /\ [Next]_vars => TypeInv'
<1> SUFFICES ASSUME TypeInv, [Next]_vars PROVE TypeInv'
  OBVIOUS
<1> USE DEF TypeInv, TypeOK, LocalOK, tables, local, history
<1>1. ASSUME NEW c \in Callers, StoreBegin(c) PROVE TypeInv'
  BY <1>1, RequestKinds, StoreAssumption DEF StoreBegin
<1>2. ASSUME NEW c \in Callers, StoreMatch(c) PROVE TypeInv'
  BY <1>2, StoreAssumption DEF StoreMatch, findMatch, isActive
<1>3. ASSUME NEW c \in Callers, StoreCreate(c) PROVE TypeInv'
  <2>1. PICK id \in Ids, verified \in Verdicts :
              /\ createMemory(id, newRow(c, verified))
              /\ captureArchiveContent(req[c], id)
              /\ acked' = acked \cup {<<id, redactSensitiveData(req[c].content)>>}
    BY <1>3 DEF StoreCreate, Verdicts
  <2>2. req[c] \in StoreRequest /\ newRow(c, verified) \in Memory
    BY <1>3, NewRow DEF StoreCreate
  <2>3. archives' \subseteq Archive /\ uncaptured' \subseteq Ids
    BY <2>1, <2>2, CaptureTyped
  <2>4. memories' \in [Ids -> Memory \cup {NoMemory}]
    <3> DEFINE row == newRow(c, verified)
               rows == [memories EXCEPT ![id] = row]
    <3>1. rows \in [Ids -> Memory \cup {NoMemory}]
      BY <2>2
    <3>2. memories' = archiveSuperseded(rows, id, row.bucket, row.title)
      BY <2>1 DEF createMemory
    <3> HIDE DEF row, rows
    <3>3. QED
      BY <3>1, <3>2, SupersededRows
  <2>5. fts' \in [Ids -> SUBSET Texts] /\ versions' \in [Ids -> SUBSET Texts]
    BY <2>1, <2>2 DEF createMemory, Memory
  <2>6. acked' \subseteq Ids \X Texts
    BY <2>1, <2>2 DEF StoreRequest, redactSensitiveData, Texts
  <2>7. UNCHANGED <<rawArchive, req, embedding, matchId, matched, deleted, retitled, calls>>
        /\ pc' = [pc EXCEPT ![c] = "idle"]
    BY <1>3 DEF StoreCreate, finish
  <2>8. QED
    BY <2>3, <2>4, <2>5, <2>6, <2>7
<1>4. ASSUME NEW c \in Callers, StoreReembed(c) PROVE TypeInv'
  BY <1>4, StoreAssumption DEF StoreReembed
<1>5. ASSUME NEW c \in Callers, StoreMerge(c) PROVE TypeInv'
  <2>1. /\ readyToMerge(c)
        /\ memories[matchId[c]] # NoMemory
        /\ updateMemory(matchId[c], mergedRow(c), mergedRows(c))
        /\ captureArchiveContent(req[c], matchId[c])
        /\ acked' = acked \cup {<<matchId[c], redactSensitiveData(req[c].content)>>}
        /\ pc' = [pc EXCEPT ![c] = "idle"]
        /\ UNCHANGED <<rawArchive, req, embedding, matchId, matched, deleted, retitled, calls>>
    BY <1>5 DEF StoreMerge, finish
  <2>2. matchId[c] \in Ids /\ req[c] \in StoreRequest /\ mergedRow(c) \in Memory
    BY <2>1, MergedRow
  <2>3. mergedRows(c) \in [Ids -> Memory \cup {NoMemory}]
    <3>1. [memories EXCEPT ![matchId[c]] = mergedRow(c)] \in [Ids -> Memory \cup {NoMemory}]
      BY <2>2
    <3>2. QED
      BY <3>1, SupersededRows DEF mergedRows
  <2>4. /\ memories' \in [Ids -> Memory \cup {NoMemory}]
        /\ versions' \in [Ids -> SUBSET Texts]
        /\ fts' \in [Ids -> SUBSET Texts]
    BY <2>1, <2>2, <2>3, UpdateTyped
  <2>5. archives' \subseteq Archive /\ uncaptured' \subseteq Ids
    BY <2>1, <2>2, CaptureTyped
  <2>6. acked' \subseteq Ids \X Texts
    BY <2>1, <2>2 DEF StoreRequest, redactSensitiveData, Texts
  <2>7. QED
    BY <2>1, <2>4, <2>5, <2>6
<1>6. ASSUME NEW c \in Callers, MergeFails(c) PROVE TypeInv'
  BY <1>6 DEF MergeFails, finish
<1>7. ASSUME NEW c \in Callers, UpdateBegin(c) PROVE TypeInv'
  BY <1>7, RequestKinds, StoreAssumption DEF UpdateBegin
<1>8. ASSUME NEW c \in Callers, UpdateCommit(c) PROVE TypeInv'
  <2> DEFINE id == matchId[c]
             row(answered) == [memories[id] EXCEPT
                                 !.content = redactSensitiveData(req[c].content),
                                 !.embedded = answered]
  <2>1. PICK answered \in BOOLEAN :
            updateMemory(id, row(answered), [memories EXCEPT ![id] = row(answered)])
    BY <1>8 DEF UpdateCommit
  <2>2. /\ pc[c] = "update" /\ memories[id] # NoMemory
        /\ captureArchiveContent(req[c], id)
        /\ acked' = acked \cup {<<id, redactSensitiveData(req[c].content)>>}
        /\ pc' = [pc EXCEPT ![c] = "idle"]
        /\ UNCHANGED <<rawArchive, req, embedding, matchId, matched, deleted, retitled, calls>>
    BY <1>8 DEF UpdateCommit, finish
  <2>3. id \in Ids /\ req[c] \in UpdateRequest /\ memories[id] \in Memory
    BY <2>2
  <2>4. row(answered) \in Memory
    BY <2>3 DEF Memory, UpdateRequest, redactSensitiveData, Texts
  <2>5. /\ memories' \in [Ids -> Memory \cup {NoMemory}]
        /\ versions' \in [Ids -> SUBSET Texts]
        /\ fts' \in [Ids -> SUBSET Texts]
    <3>1. [memories EXCEPT ![id] = row(answered)] \in [Ids -> Memory \cup {NoMemory}]
      BY <2>3, <2>4
    <3>2. QED
      BY <2>1, <2>2, <2>3, <2>4, <3>1, UpdateTyped
  <2>6. archives' \subseteq Archive /\ uncaptured' \subseteq Ids
    BY <2>2, <2>3, CaptureTyped
  <2>7. acked' \subseteq Ids \X Texts
    BY <2>2, <2>3 DEF UpdateRequest, redactSensitiveData, Texts
  <2>8. QED
    BY <2>2, <2>5, <2>6, <2>7
<1>9. ASSUME NEW c \in Callers, UpdateFails(c) PROVE TypeInv'
  BY <1>9 DEF UpdateFails, finish
<1>10. ASSUME NEW c \in Callers, Retitle(c) PROVE TypeInv'
  <2>1. PICK r \in Requests, id \in Ids :
            /\ r.op = "retitle"
            /\ memories[id] # NoMemory
            /\ updateMemory(id, [memories[id] EXCEPT !.title = r.title],
                            [memories EXCEPT ![id] = [memories[id] EXCEPT !.title = r.title]])
            /\ retitled' = retitled \cup {id}
    BY <1>10 DEF Retitle
  <2>2. [memories[id] EXCEPT !.title = r.title] \in Memory
    BY <2>1, RequestKinds DEF Memory, RetitleRequest
  <2>3. /\ memories' \in [Ids -> Memory \cup {NoMemory}]
        /\ versions' \in [Ids -> SUBSET Texts]
        /\ fts' \in [Ids -> SUBSET Texts]
    <3>1. [memories EXCEPT ![id] = [memories[id] EXCEPT !.title = r.title]]
              \in [Ids -> Memory \cup {NoMemory}]
      BY <2>2
    <3>2. QED
      BY <2>1, <2>2, <3>1, UpdateTyped
  <2>4. /\ calls < MaxCalls /\ calls' = calls + 1
        /\ UNCHANGED <<rawArchive, archives, local, acked, deleted, uncaptured>>
    BY <1>10 DEF Retitle
  <2>5. QED
    BY <2>1, <2>3, <2>4, StoreAssumption
<1>11. ASSUME NEW c \in Callers, Delete(c) PROVE TypeInv'
  <2>1. PICK id \in Ids :
            /\ memories[id] # NoMemory
            /\ archives' = {IF a.source = id THEN [a EXCEPT !.source = NoId] ELSE a :
                              a \in fallbackArchives(id)}
            /\ memories' = [memories EXCEPT ![id] = NoMemory]
            /\ versions' = [versions EXCEPT ![id] = {}]
            /\ fts' = [fts EXCEPT ![id] = @ \ {memories[id].content}]
            /\ deleted' = deleted \cup {id}
    BY <1>11 DEF Delete
  <2>2. fallbackArchives(id) \subseteq Archive
    BY <2>1, ArchivedTyped DEF fallbackArchives, Memory
  <2>3. archives' \subseteq Archive
    BY <2>1, <2>2 DEF Archive
  <2>4. /\ calls < MaxCalls /\ calls' = calls + 1
        /\ UNCHANGED <<rawArchive, local, acked, retitled, uncaptured>>
    BY <1>11 DEF Delete
  <2>5. QED
    BY <2>1, <2>3, <2>4, StoreAssumption
<1>12. ASSUME NEW id \in Ids, ArchiveRow(id) PROVE TypeInv'
  BY <1>12, StoreAssumption DEF ArchiveRow, isActive, Memory
<1>13. ASSUME NEW id \in Ids, InsertRow(id) PROVE TypeInv'
  <2>1. PICK row \in Memory : createMemory(id, row)
    BY <1>13, InsertedRow DEF InsertRow
  <2>2. memories' \in [Ids -> Memory \cup {NoMemory}]
    <3> DEFINE rows == [memories EXCEPT ![id] = row]
    <3>1. rows \in [Ids -> Memory \cup {NoMemory}]
      OBVIOUS
    <3>2. memories' = archiveSuperseded(rows, id, row.bucket, row.title)
      BY <2>1 DEF createMemory
    <3> HIDE DEF rows
    <3>3. QED
      BY <3>1, <3>2, SupersededRows
  <2>3. fts' \in [Ids -> SUBSET Texts] /\ versions' \in [Ids -> SUBSET Texts]
    BY <2>1 DEF createMemory, Memory
  <2>4. /\ calls < MaxCalls /\ calls' = calls + 1
        /\ uncaptured' = uncaptured \cup {id}
        /\ UNCHANGED <<rawArchive, archives, local, acked, deleted, retitled>>
    BY <1>13 DEF InsertRow
  <2>5. QED
    BY <2>2, <2>3, <2>4, StoreAssumption
<1>14. CASE Restart
  BY <1>14, StoreAssumption DEF Restart
<1>15. CASE UNCHANGED vars
  BY <1>15 DEF vars
<1>16. QED
  BY <1>1, <1>2, <1>3, <1>4, <1>5, <1>6, <1>7, <1>8, <1>9, <1>10, <1>11, <1>12, <1>13,
     <1>14, <1>15 DEF Next

\* Every reachable state has the types declared for it.
THEOREM TypeCorrect == Spec => []TypeOK
<1>1. Spec => []TypeInv
  BY InitTyped, StepTyped, PTL DEF Spec
<1>2. TypeInv => TypeOK
  BY DEF TypeInv
<1>3. QED
  BY <1>1, <1>2, PTL

----------------------------------------------------------------------------
(* What a step may do to one row.  Every step leaves it as it is, makes it,   *)
(* rewrites it or removes it; the invariants about single rows follow from    *)
(* this summary and not from the actions.                                    *)

\* The copies that callers will merge into have no redacted material.
CleanCopies ==
    \A c \in Callers :
        pc[c] \in {"summary", "merge"} /\ matchId[c] # NoId =>
            matched[c].content \cap Secrets = {}

\* The raw archive has every atom of a text.
Covered(text) == \A atom \in text : \E a \in archives : atom \in a.text

\* The same of a value and the archive as the step leaves it.
CoveredNext(text) == \A atom \in text : \E a \in archives' : atom \in a.text

\* It has every atom of what a caller will merge into a row whose texts were
\* all captured, and of the row itself.
CoveredCopies ==
    \A c \in Callers :
        /\ pc[c] \in {"summary", "merge"} /\ matchId[c] # NoId
        /\ matchId[c] \notin uncaptured
        => Covered(matched[c].content)

CoveredRow(id) ==
    memories[id] # NoMemory /\ id \notin uncaptured => Covered(memories[id].content)

\* Texts stay in the raw archive, and a row with an uncaptured text stays one.
TextsKept ==
    /\ \A a \in archives : \E b \in archives' : b.text = a.text
    /\ uncaptured \subseteq uncaptured'

\* What the raw archive covers stays covered while its texts stay.
LEMMA CoveredKept ==
    ASSUME TextsKept, NEW text, Covered(text) PROVE CoveredNext(text)
BY DEF TextsKept, Covered, CoveredNext

\* ArchiveService.store loses no text and has the one it is given.
LEMMA ArchivedCovers ==
    ASSUME NEW text, NEW id
    PROVE  /\ \E a \in archived(text, id) : a.text = text
           /\ archives \subseteq archived(text, id)
<1> DEFINE new == [text |-> text, source |-> id]
<1>1. new.text = text
  OBVIOUS
<1> HIDE DEF new
<1>2. archived(text, id) = IF \E a \in archives : a.text = text THEN archives
                           ELSE archives \cup {new}
  BY DEF archived, new
<1>3. QED
  BY <1>1, <1>2

\* A store or an update leaves its redacted text in an enabled raw archive.
LEMMA CaptureCovers ==
    ASSUME NEW r, NEW id, captureArchiveContent(r, id)
    PROVE  /\ TextsKept
           /\ id \notin uncaptured' => CoveredNext(redactSensitiveData(r.content))
<1>1. redactSensitiveData(r.content) \subseteq r.content
  BY DEF redactSensitiveData
<1>2. QED
  BY <1>1, ArchivedCovers DEF captureArchiveContent, TextsKept, CoveredNext

\* The foreign key cleared by a deletion, ON DELETE SET NULL, loses no text.
LEMMA DeleteKeepsTexts ==
    ASSUME TypeInv, NEW id \in Ids, memories[id] # NoMemory,
           archives' = {IF a.source = id THEN [a EXCEPT !.source = NoId] ELSE a :
                          a \in fallbackArchives(id)},
           uncaptured' = uncaptured
    PROVE  /\ \A a \in fallbackArchives(id) : \E b \in archives' : b.text = a.text
           /\ archives \subseteq fallbackArchives(id)
           /\ TextsKept
<1>1. fallbackArchives(id) \subseteq Archive
  BY ArchivedTyped DEF fallbackArchives, Memory, TypeInv, TypeOK
<1>2. \A a \in fallbackArchives(id) :
        (IF a.source = id THEN [a EXCEPT !.source = NoId] ELSE a).text = a.text
  BY <1>1 DEF Archive
<1>3. archives \subseteq fallbackArchives(id)
  BY DEF fallbackArchives, archived
<1>4. QED
  BY <1>2, <1>3 DEF TextsKept

Kept(id) ==
    /\ memories[id] = NoMemory <=> memories'[id] = NoMemory
    /\ memories[id] # NoMemory =>
          /\ memories'[id].content = memories[id].content
          /\ memories'[id].bucket = memories[id].bucket
          /\ memories'[id].status \in {memories[id].status, "archived"}
    /\ versions'[id] = versions[id]
    /\ fts'[id] = fts[id]
    /\ id \in deleted' <=> id \in deleted
    /\ \A text \in Texts : <<id, text>> \in acked' => <<id, text>> \in acked

CleanRow(id) == memories[id] # NoMemory => memories[id].content \cap Secrets = {}

\* The text written to a row is as clean, and if captured as well covered, as
\* what it was made from, and includes what is acknowledged of it.
Written(id) ==
    /\ memories'[id] \in Memory
    /\ CleanCopies /\ CleanRow(id) => memories'[id].content \cap Secrets = {}
    /\ id \notin uncaptured' /\ CoveredCopies /\ CoveredRow(id) =>
          CoveredNext(memories'[id].content)
    /\ id \in deleted' <=> id \in deleted
    /\ \A text \in Texts :
          <<id, text>> \in acked' =>
              <<id, text>> \in acked \/ text \subseteq memories'[id].content

Created(id) ==
    /\ memories[id] = NoMemory /\ id \notin deleted
    /\ Written(id)
    /\ memories'[id].status = "active"
    /\ versions'[id] = versions[id]
    /\ fts'[id] = {memories'[id].content}

Rewritten(id) ==
    /\ memories[id] # NoMemory
    /\ Written(id)
    /\ memories'[id].bucket = memories[id].bucket
    /\ memories'[id].status = memories[id].status
    /\ versions'[id] = IF memories'[id].content = memories[id].content THEN versions[id]
                       ELSE versions[id] \cup {memories[id].content}
    /\ fts'[id] = (fts[id] \ {memories[id].content}) \cup {memories'[id].content}

Removed(id) ==
    /\ memories[id] # NoMemory /\ memories'[id] = NoMemory
    /\ id \in deleted'
    /\ versions'[id] = {}
    /\ fts'[id] = fts[id] \ {memories[id].content}
    /\ acked' = acked
    /\ (\E a \in archives : a.source = id) \/ CoveredNext(memories[id].content)

\* What one step of any action may do to one row of the tables.
LEMMA RowStep ==
    ASSUME TypeInv, TypeInv', [Next]_vars, NEW id \in Ids
    PROVE  Kept(id) \/ Created(id) \/ Rewritten(id) \/ Removed(id)
<1>1. CASE UNCHANGED <<tables, history>>
  BY <1>1 DEF tables, history, Kept
<1>2. ASSUME NEW c \in Callers, StoreCreate(c) PROVE Kept(id) \/ Created(id)
  <2>1. PICK new \in Ids, verified \in Verdicts :
              /\ memories[new] = NoMemory /\ new \notin deleted
              /\ createMemory(new, newRow(c, verified))
              /\ captureArchiveContent(req[c], new)
              /\ acked' = acked \cup {<<new, redactSensitiveData(req[c].content)>>}
    BY <1>2 DEF StoreCreate, Verdicts
  <2>2. /\ pc[c] = "summary" /\ deleted' = deleted
    BY <1>2 DEF StoreCreate
  <2> DEFINE row == newRow(c, verified)
             rows == [memories EXCEPT ![new] = row]
  <2>3. row \in Memory /\ row.content = redactSensitiveData(req[c].content)
    BY <2>2, NewRow
  <2>0. row.status = "active"
    BY DEF newRow
  <2>4. rows \in [Ids -> Memory \cup {NoMemory}]
    BY <2>3 DEF TypeInv, TypeOK
  <2>5. /\ memories' = archiveSuperseded(rows, new, row.bucket, row.title)
        /\ fts' = [fts EXCEPT ![new] = {row.content}]
        /\ versions' = versions
    BY <2>1 DEF createMemory
  <2>6. rows[new] = row /\ \A other \in Ids \ {new} : rows[other] = memories[other]
    BY DEF TypeInv, TypeOK
  <2> HIDE DEF row, rows
  <2>7. memories'[new] = row
    BY <2>4, <2>5, <2>6, SupersededRows
  <2>8. CASE id = new
    <3>1. id \notin uncaptured' => CoveredNext(row.content)
      BY <2>1, <2>3, <2>8, CaptureCovers
    <3>2. QED
      BY <2>0, <2>1, <2>2, <2>3, <2>5, <2>7, <2>8, <3>1
         DEF Created, Written, redactSensitiveData, TypeInv, TypeOK
  <2>9. CASE id # new
    <3>1. /\ rows[id] = NoMemory => memories'[id] = NoMemory
          /\ rows[id] # NoMemory =>
                /\ memories'[id] \in Memory
                /\ memories'[id].bucket = rows[id].bucket
                /\ memories'[id].content = rows[id].content
                /\ memories'[id].status \in {rows[id].status, "archived"}
      BY <2>4, <2>5, SupersededRows
    <3>2. QED
      BY <2>1, <2>2, <2>5, <2>6, <2>9, <3>1, StoreAssumption DEF Kept, TypeInv, TypeOK
  <2>10. QED
    BY <2>8, <2>9
<1>3. ASSUME NEW c \in Callers, StoreMerge(c) PROVE Kept(id) \/ Rewritten(id)
  <2> DEFINE target == matchId[c]
             row == mergedRow(c)
             rows == [memories EXCEPT ![target] = row]
  <2>1. /\ readyToMerge(c)
        /\ memories[target] # NoMemory
        /\ updateMemory(target, row, mergedRows(c))
        /\ captureArchiveContent(req[c], target)
        /\ acked' = acked \cup {<<target, redactSensitiveData(req[c].content)>>}
        /\ deleted' = deleted
    BY <1>3 DEF StoreMerge
  <2>2. /\ target \in Ids /\ req[c] \in StoreRequest
        /\ matched[c] \in Memory /\ row \in Memory
        /\ row.content = mergedText(c)
        /\ row.status = memories[target].status
        /\ row.bucket = memories[target].bucket
    BY <2>1, MergedRow
  <2>3. /\ redactSensitiveData(req[c].content) \subseteq row.content
        /\ CleanCopies => row.content \cap Secrets = {}
        /\ target \notin uncaptured' /\ CoveredCopies => CoveredNext(row.content)
    <3>1. pc[c] \in {"summary", "merge"} /\ target # NoId
      BY <2>1, <2>2, StoreAssumption DEF readyToMerge
    <3>2. target \notin uncaptured' /\ CoveredCopies =>
            /\ CoveredNext(matched[c].content)
            /\ CoveredNext(redactSensitiveData(req[c].content))
      BY <2>1, <3>1, CaptureCovers, CoveredKept DEF CoveredCopies, TextsKept
    <3>3. row.content \in {matched[c].content,
                           matched[c].content \cup redactSensitiveData(req[c].content)}
      BY <2>2 DEF mergedText, mergeContent
    <3>4. CleanCopies => row.content \cap Secrets = {}
      BY <3>1, <3>3 DEF CleanCopies, redactSensitiveData
    <3>5. target \notin uncaptured' /\ CoveredCopies => CoveredNext(row.content)
      BY <3>2, <3>3 DEF CoveredNext
    <3>6. redactSensitiveData(req[c].content) \subseteq row.content
      BY <2>2 DEF mergedText, mergeContent
    <3>7. QED
      BY <3>4, <3>5, <3>6
  <2>4. /\ memories' = archiveSuperseded(rows, target, req[c].bucket, row.title)
        /\ versions' = IF row.content = memories[target].content THEN versions
                       ELSE [versions EXCEPT ![target] = @ \cup {memories[target].content}]
        /\ fts' = [fts EXCEPT ![target] = (@ \ {memories[target].content}) \cup {row.content}]
    BY <2>1 DEF updateMemory, mergedRows
  <2>5. rows \in [Ids -> Memory \cup {NoMemory}]
    BY <2>2 DEF TypeInv, TypeOK
  <2>6. rows[target] = row /\ \A other \in Ids \ {target} : rows[other] = memories[other]
    BY <2>2 DEF TypeInv, TypeOK
  <2> HIDE DEF target, row, rows
  <2>7. memories'[target] = row
    BY <2>2, <2>4, <2>5, <2>6, SupersededRows
  <2>8. CASE id = target
    BY <2>1, <2>2, <2>3, <2>4, <2>7, <2>8 DEF Rewritten, Written, TypeInv, TypeOK
  <2>9. CASE id # target
    <3>1. /\ rows[id] = NoMemory => memories'[id] = NoMemory
          /\ rows[id] # NoMemory =>
                /\ memories'[id] \in Memory
                /\ memories'[id].bucket = rows[id].bucket
                /\ memories'[id].content = rows[id].content
                /\ memories'[id].status \in {rows[id].status, "archived"}
      BY <2>4, <2>5, SupersededRows
    <3>2. QED
      BY <2>1, <2>2, <2>4, <2>6, <2>9, <3>1, StoreAssumption DEF Kept, TypeInv, TypeOK
  <2>10. QED
    BY <2>8, <2>9
<1>4. ASSUME NEW c \in Callers, UpdateCommit(c) PROVE Kept(id) \/ Rewritten(id)
  <2> DEFINE target == matchId[c]
             row(answered) == [memories[target] EXCEPT
                                 !.content = redactSensitiveData(req[c].content),
                                 !.embedded = answered]
  <2>1. PICK answered \in BOOLEAN :
            updateMemory(target, row(answered), [memories EXCEPT ![target] = row(answered)])
    BY <1>4 DEF UpdateCommit
  <2>2. /\ pc[c] = "update" /\ memories[target] # NoMemory
        /\ captureArchiveContent(req[c], target)
        /\ acked' = acked \cup {<<target, redactSensitiveData(req[c].content)>>}
        /\ deleted' = deleted
    BY <1>4 DEF UpdateCommit
  <2>3. target \in Ids /\ req[c] \in UpdateRequest /\ memories[target] \in Memory
    BY <2>2 DEF TypeInv, TypeOK, LocalOK
  <2>4. /\ row(answered) \in Memory
        /\ row(answered).content = redactSensitiveData(req[c].content)
        /\ row(answered).content \cap Secrets = {}
        /\ row(answered).bucket = memories[target].bucket
        /\ row(answered).status = memories[target].status
    BY <2>3 DEF Memory, UpdateRequest, redactSensitiveData, Texts
  <2>5. /\ memories' = [memories EXCEPT ![target] = row(answered)]
        /\ versions' = IF row(answered).content = memories[target].content THEN versions
                       ELSE [versions EXCEPT ![target] = @ \cup {memories[target].content}]
        /\ fts' = [fts EXCEPT ![target] = (@ \ {memories[target].content})
                                          \cup {row(answered).content}]
    BY <2>1 DEF updateMemory
  <2>6. target \notin uncaptured' => CoveredNext(row(answered).content)
    BY <2>2, <2>4, CaptureCovers
  <2> HIDE DEF row, target
  <2>7. CASE id = target
    BY <2>2, <2>3, <2>4, <2>5, <2>6, <2>7 DEF Rewritten, Written, TypeInv, TypeOK
  <2>8. CASE id # target
    BY <2>2, <2>3, <2>5, <2>8 DEF Kept, TypeInv, TypeOK
  <2>9. QED
    BY <2>7, <2>8
<1>5. ASSUME NEW c \in Callers, Retitle(c) PROVE Kept(id) \/ Rewritten(id)
  <2>1. PICK r \in Requests, target \in Ids :
            /\ r.op = "retitle"
            /\ memories[target] # NoMemory
            /\ updateMemory(target, [memories[target] EXCEPT !.title = r.title],
                            [memories EXCEPT ![target] = [memories[target] EXCEPT !.title = r.title]])
    BY <1>5 DEF Retitle
  <2>2. /\ acked' = acked /\ deleted' = deleted /\ archives' = archives
        /\ uncaptured' = uncaptured
    BY <1>5 DEF Retitle
  <2> DEFINE row == [memories[target] EXCEPT !.title = r.title]
  <2>3. /\ row \in Memory
        /\ row.content = memories[target].content
        /\ row.bucket = memories[target].bucket
        /\ row.status = memories[target].status
    <3>1. memories[target] \in Memory /\ r.title \in Titles
      BY <2>1, RequestKinds DEF TypeInv, TypeOK, RetitleRequest
    <3>2. QED
      BY <3>1 DEF Memory
  <2>4. /\ memories' = [memories EXCEPT ![target] = row]
        /\ versions' = versions
        /\ fts' = [fts EXCEPT ![target] = (@ \ {memories[target].content}) \cup {row.content}]
    BY <2>1, <2>3 DEF updateMemory
  <2> HIDE DEF row
  <2>5. CASE id = target
    BY <2>1, <2>2, <2>3, <2>4, <2>5
       DEF Rewritten, Written, CleanRow, CoveredRow, Covered, CoveredNext, TypeInv, TypeOK
  <2>6. CASE id # target
    BY <2>2, <2>4, <2>6 DEF Kept, TypeInv, TypeOK
  <2>7. QED
    BY <2>5, <2>6
<1>6. ASSUME NEW c \in Callers, Delete(c) PROVE Kept(id) \/ Removed(id)
  <2>1. PICK target \in Ids :
            /\ memories[target] # NoMemory
            /\ archives' = {IF a.source = target THEN [a EXCEPT !.source = NoId] ELSE a :
                              a \in fallbackArchives(target)}
            /\ memories' = [memories EXCEPT ![target] = NoMemory]
            /\ versions' = [versions EXCEPT ![target] = {}]
            /\ fts' = [fts EXCEPT ![target] = @ \ {memories[target].content}]
            /\ deleted' = deleted \cup {target}
    BY <1>6 DEF Delete
  <2>2. acked' = acked /\ uncaptured' = uncaptured
    BY <1>6 DEF Delete
  <2>3. \/ \E a \in archives : a.source = target
        \/ CoveredNext(memories[target].content)
    <3>1. (\A a \in archives : a.source # target) =>
            \E a \in fallbackArchives(target) : a.text = memories[target].content
      BY ArchivedCovers DEF fallbackArchives
    <3>2. QED
      BY <2>1, <2>2, <3>1, DeleteKeepsTexts DEF CoveredNext
  <2>4. QED
    BY <2>1, <2>2, <2>3 DEF Kept, Removed, TypeInv, TypeOK
<1>7. ASSUME NEW other \in Ids, ArchiveRow(other) PROVE Kept(id)
  BY <1>7, StoreAssumption DEF ArchiveRow, isActive, Kept, TypeInv, TypeOK, history, Memory
<1>8. ASSUME NEW new \in Ids, InsertRow(new) PROVE Kept(id) \/ Created(id)
  <2>1. PICK row \in Memory :
            createMemory(new, row) /\ row.content \cap Secrets = {} /\ row.status = "active"
    BY <1>8, InsertedRow
  <2>2. /\ memories[new] = NoMemory /\ new \notin deleted
        /\ uncaptured' = uncaptured \cup {new}
        /\ acked' = acked /\ deleted' = deleted
    BY <1>8 DEF InsertRow
  <2> DEFINE rows == [memories EXCEPT ![new] = row]
  <2>3. rows \in [Ids -> Memory \cup {NoMemory}]
    BY DEF TypeInv, TypeOK
  <2>4. /\ memories' = archiveSuperseded(rows, new, row.bucket, row.title)
        /\ fts' = [fts EXCEPT ![new] = {row.content}]
        /\ versions' = versions
    BY <2>1 DEF createMemory
  <2>5. rows[new] = row /\ \A other \in Ids \ {new} : rows[other] = memories[other]
    BY DEF TypeInv, TypeOK
  <2> HIDE DEF rows
  <2>6. memories'[new] = row
    BY <2>3, <2>4, <2>5, SupersededRows
  <2>7. CASE id = new
    BY <2>1, <2>2, <2>4, <2>6, <2>7 DEF Created, Written, TypeInv, TypeOK
  <2>8. CASE id # new
    <3>1. /\ rows[id] = NoMemory => memories'[id] = NoMemory
          /\ rows[id] # NoMemory =>
                /\ memories'[id] \in Memory
                /\ memories'[id].bucket = rows[id].bucket
                /\ memories'[id].content = rows[id].content
                /\ memories'[id].status \in {rows[id].status, "archived"}
      BY <2>3, <2>4, SupersededRows
    <3>2. QED
      BY <2>2, <2>4, <2>5, <2>8, <3>1, StoreAssumption DEF Kept, TypeInv, TypeOK
  <2>9. QED
    BY <2>7, <2>8
<1>9. QED
  BY <1>1, <1>2, <1>3, <1>4, <1>5, <1>6, <1>7, <1>8, WritingOrQuiet DEF Writing

----------------------------------------------------------------------------
(* What a step may do to the copy of a row that a caller holds: it keeps it,  *)
(* or it takes it from a row that is stored, in a step that writes nothing.   *)

Holds(c) == pc[c] \in {"summary", "merge"} /\ matchId[c] # NoId

\* What one step may do to the copy a caller will merge into: it stays, or it is
\* read from the stored row.
LEMMA CopyStep ==
    ASSUME TypeInv, [Next]_vars, NEW c \in Callers, Holds(c)'
    PROVE  /\ req'[c] = req[c]
           /\ \/ Holds(c) /\ matchId'[c] = matchId[c] /\ matched'[c] = matched[c]
              \/ /\ matchId'[c] \in Ids
                 /\ memories[matchId'[c]] # NoMemory
                 /\ memories[matchId'[c]].bucket = req[c].bucket
                 /\ matched'[c] = memories[matchId'[c]]
                 /\ UNCHANGED <<tables, history>>
<1> DEFINE Same == /\ pc'[c] = pc[c] /\ req'[c] = req[c]
                   /\ matchId'[c] = matchId[c] /\ matched'[c] = matched[c]
<1>1. CASE Same
  BY <1>1 DEF Holds
<1>2. CASE StoreMatch(c)
  BY <1>2 DEF StoreMatch, Holds, findMatch, isActive, TypeInv, TypeOK
<1>3. CASE StoreReembed(c)
  BY <1>3 DEF StoreReembed, Holds
<1>4. ASSUME StoreBegin(c) \/ UpdateBegin(c) PROVE FALSE
  BY <1>4 DEF StoreBegin, UpdateBegin, Holds, TypeInv, TypeOK
<1>5. ASSUME NEW other \in Callers,
             \/ StoreCreate(other) \/ StoreMerge(other) \/ MergeFails(other)
             \/ UpdateCommit(other) \/ UpdateFails(other)
      PROVE  Same
  <2>1. pc' = [pc EXCEPT ![other] = "idle"] /\ UNCHANGED <<req, matchId, matched>>
    BY <1>5 DEF StoreCreate, StoreMerge, MergeFails, UpdateCommit, UpdateFails, finish
  <2>2. QED
    BY <2>1 DEF Holds, TypeInv, TypeOK
<1>6. ASSUME NEW other \in Callers \ {c},
             \/ StoreBegin(other) \/ StoreMatch(other) \/ StoreReembed(other)
             \/ UpdateBegin(other)
      PROVE  Same
  <2>1. StoreBegin(other) \/ UpdateBegin(other) => Same
    BY DEF StoreBegin, UpdateBegin, TypeInv, TypeOK
  <2>2. StoreMatch(other) => Same
    BY DEF StoreMatch, TypeInv, TypeOK
  <2>3. StoreReembed(other) => Same
    BY DEF StoreReembed, TypeInv, TypeOK
  <2>4. QED
    BY <1>6, <2>1, <2>2, <2>3
<1>7. ASSUME NEW other \in Callers, Retitle(other) \/ Delete(other) PROVE UNCHANGED local
  BY <1>7 DEF Retitle, Delete
<1>8. ASSUME NEW id \in Ids, ArchiveRow(id) \/ InsertRow(id) PROVE UNCHANGED local
  BY <1>8 DEF ArchiveRow, InsertRow
<1>9. UNCHANGED local => Same
  BY DEF local
<1>10. UNCHANGED vars => UNCHANGED local
  BY DEF vars
<1>11. Restart => FALSE
  BY DEF Restart, Holds
<1> HIDE DEF Same
<1>12. QED
  BY <1>1, <1>2, <1>3, <1>4, <1>5, <1>6, <1>7, <1>8, <1>9, <1>10, <1>11 DEF Next

----------------------------------------------------------------------------
(* Invariants about single rows. *)

Rows(id) ==
    /\ id \in deleted => memories[id] = NoMemory
    /\ \A text \in Texts :
          <<id, text>> \in acked => memories[id] # NoMemory \/ id \in deleted
    /\ fts[id] = IF memories[id] = NoMemory THEN {} ELSE {memories[id].content}
    /\ memories[id] # NoMemory =>
          \A text \in Texts : <<id, text>> \in acked =>
              \E kept \in {memories[id].content} \cup versions[id] : text \subseteq kept

RowsInv == TypeInv /\ \A id \in Ids : Rows(id)

\* Every step keeps the row invariant.
LEMMA RowsStep == RowsInv /\ [Next]_vars => RowsInv'
<1> SUFFICES ASSUME RowsInv, [Next]_vars PROVE RowsInv'
  OBVIOUS
<1>1. TypeInv /\ TypeInv'
  BY StepTyped DEF RowsInv
<1>2. ASSUME NEW id \in Ids PROVE Rows(id)'
  <2>1. Rows(id)
    BY DEF RowsInv
  <2>2. memories[id] \in Memory \cup {NoMemory} /\ memories'[id] \in Memory \cup {NoMemory}
    BY <1>1 DEF TypeInv, TypeOK
  <2>3. CASE Kept(id)
    BY <2>1, <2>3 DEF Rows, Kept
  <2>4. CASE Created(id)
    BY <2>1, <2>4, StoreAssumption DEF Rows, Created, Written
  <2>5. CASE Rewritten(id)
    BY <2>1, <2>5, StoreAssumption DEF Rows, Rewritten, Written
  <2>6. CASE Removed(id)
    BY <2>1, <2>6 DEF Rows, Removed
  <2>7. QED
    BY <1>1, <2>3, <2>4, <2>5, <2>6, RowStep
<1>3. QED
  BY <1>1, <1>2 DEF RowsInv

\* The row invariant holds in every reachable state.
LEMMA RowsAlways == Spec => []RowsInv
<1>1. Init => RowsInv
  BY InitTyped DEF RowsInv, Rows, Init
<1>2. QED
  BY <1>1, RowsStep, PTL DEF Spec

\* The full-text index holds exactly the stored text of every live row.
THEOREM IndexAgrees == Spec => []FtsAgrees
<1>1. RowsInv => FtsAgrees
  BY DEF RowsInv, Rows, FtsAgrees
<1>2. QED
  BY <1>1, RowsAlways, PTL

\* A text that was acknowledged for a row that still exists is part of its
\* content or of one of its versions.
THEOREM AcknowledgedTextIsKept == Spec => []AcknowledgedTextSurvives
<1>1. RowsInv => AcknowledgedTextSurvives
  BY DEF RowsInv, Rows, AcknowledgedTextSurvives
<1>2. QED
  BY <1>1, RowsAlways, PTL

\* No step makes an archived row active again or brings a deleted one back.
THEOREM NothingIsRevived == Spec => NoResurrection
<1> DEFINE Revives ==
        \A id \in Ids :
            /\ memories[id] # NoMemory /\ memories[id].status = "archived"
                  => ~isActive(id)'
            /\ id \in deleted => memories'[id] = NoMemory
<1>1. RowsInv /\ RowsInv' /\ [Next]_vars => [Revives]_vars
  <2> SUFFICES ASSUME RowsInv, RowsInv', [Next]_vars, NEW id \in Ids
               PROVE  /\ memories[id] # NoMemory /\ memories[id].status = "archived"
                            => ~isActive(id)'
                      /\ id \in deleted => memories'[id] = NoMemory
    OBVIOUS
  <2>1. Kept(id) \/ Created(id) \/ Rewritten(id) \/ Removed(id)
    BY RowStep DEF RowsInv
  <2>2. QED
    BY <2>1 DEF Kept, Created, Rewritten, Removed, Written, isActive, RowsInv, Rows
<1>2. QED
  BY <1>1, RowsAlways, PTL DEF Spec, NoResurrection

----------------------------------------------------------------------------
(* Row by row, the store implements VersionedRow.                             *)

\* A row that does not exist has no versions.
VersionsOfRows == \A id \in Ids : memories[id] = NoMemory => versions[id] = {}

HistoryInv == RowsInv /\ VersionsOfRows

\* Every step of the store is one of the row's or leaves it alone, and keeps what
\* the next one needs.
LEMMA RowFollows ==
    ASSUME HistoryInv, [Next]_vars, NEW id \in Ids
    PROVE  /\ [Row(id)!Next]_(Row(id)!vars)
           /\ memories'[id] = NoMemory => versions'[id] = {}
<1>1. RowsInv'
  BY RowsStep DEF HistoryInv
<1>2. /\ Rows(id) /\ Rows(id)'
      /\ memories[id] \in Memory \cup {NoMemory}
      /\ memories'[id] \in Memory \cup {NoMemory}
      /\ memories[id] = NoMemory => versions[id] = {}
  BY <1>1 DEF HistoryInv, VersionsOfRows, RowsInv, TypeInv, TypeOK
<1>3. Kept(id) \/ Created(id) \/ Rewritten(id) \/ Removed(id)
  BY <1>1, RowStep DEF HistoryInv, RowsInv
<1>4. \A row \in Memory : row.content \in Texts /\ row.status \in {"active", "archived"}
  BY DEF Memory
<1> USE DEF lifeOf, storedOf, Rows
<1>5. CASE Kept(id)
  <2>1. lifeOf(id)' = lifeOf(id) \/ (lifeOf(id) = "active" /\ lifeOf(id)' = "archived")
    <3>1. CASE memories[id] = NoMemory
      BY <1>5, <3>1 DEF Kept
    <3>2. CASE memories[id] # NoMemory
      <4>1. id \notin deleted /\ id \notin deleted' /\ memories'[id] # NoMemory
        BY <1>2, <1>5, <3>2 DEF Kept
      <4>2. memories[id].status \in {"active", "archived"}
        BY <1>2, <1>4, <3>2
      <4>3. memories'[id].status \in {memories[id].status, "archived"}
        BY <1>5, <3>2 DEF Kept
      <4> QED
        BY <3>2, <4>1, <4>2, <4>3
    <3> QED
      BY <3>1, <3>2
  <2>2. /\ storedOf(id)' = storedOf(id)
        /\ versions'[id] = versions[id] /\ fts'[id] = fts[id]
    BY <1>5 DEF Kept
  <2>3. memories'[id] = NoMemory => versions'[id] = {}
    BY <1>2, <1>5 DEF Kept
  <2> QED
    BY <2>1, <2>2, <2>3 DEF Row!Next, Row!Archive, Row!vars
<1>6. CASE Created(id)
  <2>1. Row(id)!Create
    BY <1>2, <1>4, <1>6, StoreAssumption DEF Created, Written, Row!Create
  <2> QED
    BY <1>6, <2>1, StoreAssumption DEF Created, Written, Row!Next
<1>7. CASE Rewritten(id)
  <2>1. Row(id)!Write
    BY <1>2, <1>4, <1>7, StoreAssumption DEF Rewritten, Written, Row!Write, Row!exists
  <2> QED
    BY <1>7, <2>1, StoreAssumption DEF Rewritten, Written, Row!Next
<1>8. CASE Removed(id)
  <2>1. Row(id)!Delete
    BY <1>2, <1>4, <1>8, StoreAssumption DEF Removed, Row!Delete, Row!exists
  <2> QED
    BY <1>8, <2>1 DEF Removed, Row!Next
<1> QED
  BY <1>3, <1>5, <1>6, <1>7, <1>8

\* What each row needs holds in every reachable state.
LEMMA HistoryAlways == Spec => []HistoryInv
<1>1. Init => HistoryInv
  BY InitTyped DEF HistoryInv, VersionsOfRows, RowsInv, Rows, Init
<1>2. HistoryInv /\ [Next]_vars => HistoryInv'
  BY RowsStep, RowFollows DEF HistoryInv, VersionsOfRows
<1> QED
  BY <1>1, <1>2, PTL DEF Spec

\* However calls that wait with copies of a row race, each of their writes is one
\* of the row's own (MemoryService.store, update, delete).
THEOREM RowsFollowVersions == Spec => RowsAreVersioned
<1> DEFINE Follow == \A id \in Ids : [Row(id)!Next]_(Row(id)!vars)
<1>1. HistoryInv /\ [Next]_vars => [Follow]_vars
  BY RowFollows
<1> HIDE DEF Follow
<1>2. Spec => [][Follow]_vars
  BY <1>1, HistoryAlways, PTL DEF Spec
<1> QED
  BY <1>2 DEF Follow, RowsAreVersioned

\* The whole life of each row is one of VersionedRow.
THEOREM RowRefined == ASSUME NEW id \in Ids PROVE Spec => Row(id)!Spec
<1>1. Init => Row(id)!Init
  BY StoreAssumption DEF Init, lifeOf, storedOf, Row!Init
<1>2. HistoryInv /\ [Next]_vars => [Row(id)!Next]_(Row(id)!vars)
  BY RowFollows
<1> QED
  BY <1>1, <1>2, HistoryAlways, PTL DEF Spec, Row!Spec

\* No text that was ever stored in a row goes before the row does.
THEOREM NoTextForgotten == ASSUME NEW id \in Ids PROVE Spec => Row(id)!NothingIsForgotten
<1>1. HistoryInv /\ [Next]_vars => [Row(id)!keepsTexts]_(Row(id)!vars)
  <2> SUFFICES ASSUME HistoryInv, [Next]_vars PROVE [Row(id)!keepsTexts]_(Row(id)!vars)
    OBVIOUS
  <2>1. [Row(id)!Next]_(Row(id)!vars)
    BY RowFollows
  <2>2. lifeOf(id) = "free" => storedOf(id) = {} /\ versions[id] = {}
    BY StoreAssumption DEF HistoryInv, VersionsOfRows, RowsInv, TypeInv, TypeOK, Memory,
       lifeOf, storedOf
  <2> QED
    BY <2>1, <2>2 DEF Row!Next, Row!Create, Row!Write, Row!Archive, Row!Delete,
       Row!exists, Row!keepsTexts
<1> QED
  BY <1>1, HistoryAlways, PTL DEF Spec, Row!NothingIsForgotten

----------------------------------------------------------------------------
(* Redaction.  A merge writes what it copied from a row before it waited, so  *)
(* the copies have to be clean as well as the rows.                          *)

CleanIndex(id) == \A text \in versions[id] \cup fts[id] : text \cap Secrets = {}

\* A raw text may have secrets only when a call asked for it to be preserved.
Preserved(text) ==
    text \cap Secrets # {} =>
        \E r \in Requests : r.op \in {"store", "update"} /\ r.raw /\ r.content = text

CleanInv ==
    /\ TypeInv
    /\ CleanCopies
    /\ \A id \in Ids : CleanRow(id) /\ CleanIndex(id)
    /\ \A a \in archives : Preserved(a.text)

\* Every step keeps the callers' copies free of redacted material.
LEMMA CleanCopiesStep == CleanInv /\ [Next]_vars => CleanCopies'
<1> SUFFICES ASSUME CleanInv, [Next]_vars, NEW c \in Callers, Holds(c)'
             PROVE  matched'[c].content \cap Secrets = {}
  BY DEF CleanCopies, Holds
<1>1. QED
  BY CopyStep DEF CleanInv, CleanCopies, CleanRow, Holds

\* Archiving what a call captured, or what a deletion secures, keeps the raw
\* archive to preserved texts.
LEMMA PreservedCapture ==
    ASSUME \A a \in archives : Preserved(a.text), NEW r \in Requests,
           r.op \in {"store", "update"}, NEW id \in Ids, captureArchiveContent(r, id)
    PROVE  \A a \in archives' : Preserved(a.text)
<1>1. Preserved(redactSensitiveData(r.content))
  BY DEF Preserved, redactSensitiveData
<1>2. r.raw => Preserved(r.content)
  BY DEF Preserved
<1>3. QED
  BY <1>1, <1>2 DEF captureArchiveContent, archived

\* Every step archives a secret only for a call that preserves its raw text.
LEMMA PreservedStep ==
    CleanInv /\ [Next]_vars => \A a \in archives' : Preserved(a.text)
<1> SUFFICES ASSUME CleanInv, [Next]_vars PROVE \A a \in archives' : Preserved(a.text)
  OBVIOUS
<1>1. CASE UNCHANGED archives
  BY <1>1 DEF CleanInv
<1>2. ASSUME NEW c \in Callers, StoreCreate(c) \/ StoreMerge(c) \/ UpdateCommit(c)
      PROVE  \A a \in archives' : Preserved(a.text)
  <2>1. PICK id \in Ids : captureArchiveContent(req[c], id)
    BY <1>2, MergedRow
       DEF StoreCreate, StoreMerge, UpdateCommit, CleanInv, TypeInv, LocalOK
  <2>2. req[c] \in Requests
    BY DEF CleanInv, TypeInv, TypeOK
  <2>3. req[c] \in StoreRequest \cup UpdateRequest
    BY <1>2, MergedRow DEF StoreCreate, StoreMerge, UpdateCommit, CleanInv, TypeInv, LocalOK
  <2>4. req[c].op \in {"store", "update"}
    BY <2>3 DEF StoreRequest, UpdateRequest
  <2>5. QED
    BY <2>1, <2>2, <2>4, PreservedCapture DEF CleanInv
<1>3. ASSUME NEW c \in Callers, Delete(c) PROVE \A a \in archives' : Preserved(a.text)
  <2>1. PICK id \in Ids :
            /\ memories[id] # NoMemory
            /\ archives' = {IF a.source = id THEN [a EXCEPT !.source = NoId] ELSE a :
                              a \in fallbackArchives(id)}
    BY <1>3 DEF Delete
  <2>2. fallbackArchives(id) \subseteq Archive
    BY <2>1, ArchivedTyped DEF fallbackArchives, Memory, CleanInv, TypeInv, TypeOK
  <2>3. Preserved(memories[id].content)
    BY <2>1 DEF CleanInv, CleanRow, Preserved
  <2>4. \A a \in fallbackArchives(id) : Preserved(a.text)
    BY <2>3 DEF fallbackArchives, archived, CleanInv
  <2>5. \A a \in fallbackArchives(id) :
            (IF a.source = id THEN [a EXCEPT !.source = NoId] ELSE a).text = a.text
    BY <2>2 DEF Archive
  <2>6. QED
    BY <2>1, <2>4, <2>5
<1>4. ASSUME NEW c \in Callers, Retitle(c) PROVE UNCHANGED archives
  BY <1>4 DEF Retitle
<1>5. ASSUME NEW id \in Ids, ArchiveRow(id) \/ InsertRow(id) PROVE UNCHANGED archives
  BY <1>5 DEF ArchiveRow, InsertRow
<1>6. UNCHANGED tables => UNCHANGED archives
  BY DEF tables
<1>7. QED
  BY <1>1, <1>2, <1>3, <1>4, <1>5, <1>6, WritingOrQuiet DEF Writing

\* Every step keeps redacted material out.
LEMMA CleanStep == CleanInv /\ [Next]_vars => CleanInv'
<1> SUFFICES ASSUME CleanInv, [Next]_vars PROVE CleanInv'
  OBVIOUS
<1>1. TypeInv /\ TypeInv'
  BY StepTyped DEF CleanInv
<1>2. ASSUME NEW id \in Ids PROVE (CleanRow(id) /\ CleanIndex(id))'
  <2>1. CleanCopies /\ CleanRow(id) /\ CleanIndex(id)
    BY DEF CleanInv
  <2>2. CASE Kept(id)
    BY <2>1, <2>2 DEF Kept, CleanRow, CleanIndex
  <2>3. CASE Created(id)
    BY <2>1, <2>3 DEF Created, Written, CleanRow, CleanIndex
  <2>4. CASE Rewritten(id)
    BY <2>1, <2>4 DEF Rewritten, Written, CleanRow, CleanIndex
  <2>5. CASE Removed(id)
    BY <2>1, <2>5 DEF Removed, CleanRow, CleanIndex
  <2>6. QED
    BY <1>1, <2>2, <2>3, <2>4, <2>5, RowStep
<1>3. QED
  BY <1>1, <1>2, CleanCopiesStep, PreservedStep DEF CleanInv, Preserved

\* Redacted material never reaches a row, a version or the index.
THEOREM SecretsStayOut == Spec => []SecretsRedacted
<1>1. Init => CleanInv
  BY InitTyped DEF Init, CleanInv, CleanCopies, CleanRow, CleanIndex
<1>2. CleanInv => SecretsRedacted
  BY DEF CleanInv, CleanRow, CleanIndex, Preserved, SecretsRedacted
<1>3. QED
  BY <1>1, <1>2, CleanStep, PTL DEF Spec

----------------------------------------------------------------------------
(* One active task state per title.  A merge archives the rows of the bucket  *)
(* its caller asked for, so that has to be the bucket of the row it merges    *)
(* into: ids are not used again, and no step moves a row to another bucket.   *)

MatchedBucket(c) ==
    pc[c] \in {"summary", "merge"} /\ matchId[c] # NoId =>
        IF memories[matchId[c]] = NoMemory THEN matchId[c] \in deleted
        ELSE memories[matchId[c]].bucket = req[c].bucket

BucketInv == RowsInv /\ \A c \in Callers : MatchedBucket(c)

\* Every step leaves a waiting caller's row in the bucket of its request.
LEMMA BucketStep == BucketInv /\ [Next]_vars => BucketInv'
<1> SUFFICES ASSUME BucketInv, [Next]_vars PROVE BucketInv'
  OBVIOUS
<1>1. RowsInv /\ RowsInv' /\ TypeInv /\ TypeInv'
  BY RowsStep DEF BucketInv, RowsInv
<1>2. ASSUME NEW c \in Callers, Holds(c)' PROVE MatchedBucket(c)'
  <2>1. CASE Holds(c) /\ matchId'[c] = matchId[c] /\ req'[c] = req[c]
    <3>1. matchId[c] \in Ids /\ Rows(matchId[c]) /\ Rows(matchId[c])' /\ MatchedBucket(c)
      BY <1>1, <2>1 DEF Holds, BucketInv, RowsInv, TypeInv, TypeOK
    <3>2. \/ Kept(matchId[c]) \/ Created(matchId[c])
          \/ Rewritten(matchId[c]) \/ Removed(matchId[c])
      BY <1>1, <3>1, RowStep
    <3>3. QED
      BY <2>1, <3>1, <3>2
         DEF MatchedBucket, Holds, Kept, Created, Rewritten, Removed, Rows
  <2>2. CASE /\ memories[matchId'[c]] # NoMemory
             /\ memories[matchId'[c]].bucket = req[c].bucket
             /\ req'[c] = req[c]
             /\ UNCHANGED tables
    BY <2>2 DEF MatchedBucket, tables
  <2>3. QED
    BY <1>1, <1>2, <2>1, <2>2, CopyStep
<1>3. QED
  BY <1>1, <1>2 DEF BucketInv, MatchedBucket, Holds

\* Superseding leaves no other active row with the bucket and the title.
LEMMA SupersededAlone ==
    ASSUME NEW rows \in [Ids -> Memory \cup {NoMemory}], NEW keepId \in Ids,
           NEW bucket \in TaskBuckets, NEW title, NEW id \in Ids \ {keepId}
    PROVE  LET after == archiveSuperseded(rows, keepId, bucket, title) IN
           ~ /\ after[id] # NoMemory
             /\ after[id].status = "active"
             /\ after[id].bucket = bucket
             /\ after[id].title = title
BY StoreAssumption DEF archiveSuperseded, Memory

\* Two rows that must not both be there.
Rivals(rows, left, right) ==
    /\ left # right
    /\ rows[left] # NoMemory /\ rows[left].status = "active"
    /\ rows[right] # NoMemory /\ rows[right].status = "active"
    /\ rows[left].bucket = rows[right].bucket
    /\ rows[left].bucket \in TaskBuckets
    /\ rows[left].title = rows[right].title

\* Without rivals there is one active task state per bucket and title.
LEMMA RivalsMeanOneActive ==
    OneActiveTaskState <=>
        \A left, right \in Ids :
            Rivals(memories, left, right) => left \in retitled \/ right \in retitled
BY DEF OneActiveTaskState, Rivals, isActive

\* A store leaves no rivals but those it found.
LEMMA StoreAddsNoRivals ==
    ASSUME TypeInv, NEW keepId \in Ids, NEW row \in Memory,
           memories' = archiveSuperseded([memories EXCEPT ![keepId] = row],
                                         keepId, row.bucket, row.title),
           NEW left \in Ids, NEW right \in Ids, Rivals(memories', left, right)
    PROVE  Rivals(memories, left, right)
<1> DEFINE rows == [memories EXCEPT ![keepId] = row]
<1>1. rows \in [Ids -> Memory \cup {NoMemory}]
  BY DEF TypeInv, TypeOK
<1>2. rows[keepId] = row /\ \A other \in Ids \ {keepId} : rows[other] = memories[other]
  BY DEF TypeInv, TypeOK
<1>3. memories' = archiveSuperseded(rows, keepId, row.bucket, row.title)
  OBVIOUS
<1> HIDE DEF rows
<1>4. memories'[keepId] = row
  BY <1>1, <1>2, <1>3, SupersededRows
<1>5. \A id \in Ids :
        /\ rows[id] = NoMemory => memories'[id] = NoMemory
        /\ rows[id] # NoMemory =>
              /\ memories'[id].bucket = rows[id].bucket
              /\ memories'[id].title = rows[id].title
              /\ memories'[id].status \in {rows[id].status, "archived"}
  BY <1>1, <1>3, SupersededRows
<1>6. left # keepId /\ right # keepId
  <2>1. \A id \in Ids \ {keepId} : row.bucket \in TaskBuckets =>
          ~ /\ memories'[id] # NoMemory
            /\ memories'[id].status = "active"
            /\ memories'[id].bucket = row.bucket
            /\ memories'[id].title = row.title
    BY <1>1, <1>3, SupersededAlone
  <2>2. QED
    BY <1>4, <2>1 DEF Rivals
<1>7. ASSUME NEW id \in {left, right}
      PROVE  /\ memories[id] # NoMemory
             /\ memories'[id].bucket = memories[id].bucket
             /\ memories'[id].title = memories[id].title
             /\ memories[id].status = "active"
  <2>1. rows[id] = memories[id] /\ memories'[id] # NoMemory /\ memories'[id].status = "active"
    BY <1>2, <1>6 DEF Rivals
  <2>2. QED
    BY <1>5, <2>1
<1>8. QED
  BY <1>7 DEF Rivals

\* Every step keeps the active task states apart: createMemory, the merge and the
\* archiving writers by superseding, update() by recording that it retitled.
LEMMA OneActiveStep ==
    BucketInv /\ OneActiveTaskState /\ [Next]_vars => OneActiveTaskState'
<1> SUFFICES ASSUME BucketInv, OneActiveTaskState, [Next]_vars,
                    NEW left \in Ids, NEW right \in Ids, Rivals(memories', left, right)
             PROVE  left \in retitled' \/ right \in retitled'
  BY DEF OneActiveTaskState, Rivals, isActive
<1>1. TypeInv /\ (Rivals(memories, left, right) => left \in retitled \/ right \in retitled)
  BY RivalsMeanOneActive DEF BucketInv, RowsInv
<1>2. CASE UNCHANGED <<tables, history>>
  BY <1>1, <1>2 DEF tables, history
<1>3. ASSUME NEW c \in Callers, StoreCreate(c)
      PROVE  Rivals(memories, left, right) /\ retitled' = retitled
  <2>1. PICK new \in Ids, verified \in Verdicts : createMemory(new, newRow(c, verified))
    BY <1>3 DEF StoreCreate, Verdicts
  <2>2. newRow(c, verified) \in Memory
    BY <1>1, <1>3, NewRow DEF StoreCreate
  <2>3. Rivals(memories, left, right)
    BY <1>1, <2>1, <2>2, StoreAddsNoRivals DEF createMemory
  <2>4. QED
    BY <1>3, <2>3 DEF StoreCreate
<1>4. ASSUME NEW c \in Callers, StoreMerge(c)
      PROVE  Rivals(memories, left, right) /\ retitled' = retitled
  <2>1. /\ readyToMerge(c) /\ memories[matchId[c]] # NoMemory /\ retitled' = retitled
        /\ memories' = mergedRows(c)
    BY <1>4 DEF StoreMerge, updateMemory
  <2>2. /\ matchId[c] \in Ids /\ mergedRow(c) \in Memory
        /\ mergedRow(c).bucket = memories[matchId[c]].bucket
    BY <1>1, <2>1, MergedRow
  <2>3. mergedRow(c).bucket = req[c].bucket
    BY <2>1, <2>2, StoreAssumption DEF BucketInv, MatchedBucket, readyToMerge
  <2>4. QED
    BY <1>1, <2>1, <2>2, <2>3, StoreAddsNoRivals DEF mergedRows
<1>5. ASSUME NEW c \in Callers, UpdateCommit(c)
      PROVE  Rivals(memories, left, right) /\ retitled' = retitled
  <2>1. PICK answered \in BOOLEAN :
            memories' = [memories EXCEPT ![matchId[c]] =
                            [memories[matchId[c]] EXCEPT
                                !.content = redactSensitiveData(req[c].content),
                                !.embedded = answered]]
    BY <1>5 DEF UpdateCommit, updateMemory
  <2>2. /\ matchId[c] \in Ids /\ memories[matchId[c]] \in Memory /\ retitled' = retitled
    BY <1>1, <1>5 DEF UpdateCommit, TypeInv, TypeOK, LocalOK
  <2>3. /\ memories[matchId[c]] # NoMemory
        /\ memories'[matchId[c]].bucket = memories[matchId[c]].bucket
        /\ memories'[matchId[c]].title = memories[matchId[c]].title
        /\ memories'[matchId[c]].status = memories[matchId[c]].status
    BY <1>1, <2>1, <2>2, StoreAssumption DEF TypeInv, TypeOK, Memory
  <2>4. \A id \in Ids \ {matchId[c]} : memories'[id] = memories[id]
    BY <1>1, <2>1 DEF TypeInv, TypeOK
  <2>5. QED
    BY <2>2, <2>3, <2>4 DEF Rivals
<1>6. ASSUME NEW c \in Callers, Retitle(c)
      PROVE  \/ Rivals(memories, left, right) /\ retitled \subseteq retitled'
             \/ left \in retitled' \/ right \in retitled'
  <2>1. PICK id \in Ids :
            /\ \A other \in Ids \ {id} : memories'[other] = memories[other]
            /\ retitled' = retitled \cup {id}
    BY <1>1, <1>6 DEF Retitle, updateMemory, TypeInv, TypeOK
  <2>2. QED
    BY <2>1 DEF Rivals
<1>7. ASSUME NEW c \in Callers, Delete(c)
      PROVE  Rivals(memories, left, right) /\ retitled' = retitled
  BY <1>1, <1>7 DEF Delete, Rivals, TypeInv, TypeOK
<1>8. ASSUME NEW id \in Ids, ArchiveRow(id)
      PROVE  Rivals(memories, left, right) /\ retitled' = retitled
  <2>1. /\ memories[id] \in Memory /\ retitled' = retitled
        /\ memories' = [memories EXCEPT ![id].status = "archived"]
    BY <1>1, <1>8 DEF ArchiveRow, isActive, history, TypeInv, TypeOK
  <2>2. memories'[id].status = "archived" /\ \A other \in Ids \ {id} : memories'[other] = memories[other]
    BY <1>1, <2>1 DEF TypeInv, TypeOK, Memory
  <2>3. QED
    BY <2>1, <2>2 DEF Rivals
<1>9. ASSUME NEW id \in Ids, InsertRow(id)
      PROVE  Rivals(memories, left, right) /\ retitled' = retitled
  <2>1. PICK row \in Memory : createMemory(id, row)
    BY <1>9, InsertedRow
  <2>2. Rivals(memories, left, right)
    BY <1>1, <2>1, StoreAddsNoRivals DEF createMemory
  <2>3. QED
    BY <1>9, <2>2 DEF InsertRow
<1>10. QED
  BY <1>1, <1>2, <1>3, <1>4, <1>5, <1>6, <1>7, <1>8, <1>9, WritingOrQuiet DEF Writing

\* Only update() can leave two active task states of a bucket with one title.
THEOREM TaskStatesStayAlone == Spec => []OneActiveTaskState
<1>1. Init => BucketInv /\ OneActiveTaskState
  BY InitTyped DEF Init, BucketInv, RowsInv, Rows, MatchedBucket, OneActiveTaskState, isActive
<1>2. QED
  BY <1>1, BucketStep, OneActiveStep, PTL DEF Spec

----------------------------------------------------------------------------
(* Evidence.  A deletion that finds an archive of the row trusts it to cover   *)
(* the row.  That is right of a row whose texts were all captured as they were *)
(* written: what is merged into it came from a copy of it, captured as well.   *)

EvidenceInv ==
    /\ TypeInv
    /\ \A id \in Ids : CoveredRow(id)
    /\ CoveredCopies

\* Every step keeps the archived texts, and the record of uncaptured ones.
LEMMA TextsKeptStep == TypeInv /\ [Next]_vars => TextsKept
<1> SUFFICES ASSUME TypeInv, [Next]_vars PROVE TextsKept
  OBVIOUS
<1>1. CASE UNCHANGED archives /\ uncaptured \subseteq uncaptured'
  BY <1>1 DEF TextsKept
<1>2. ASSUME NEW c \in Callers, StoreCreate(c) \/ StoreMerge(c) \/ UpdateCommit(c)
      PROVE  TextsKept
  BY <1>2, CaptureCovers DEF StoreCreate, StoreMerge, UpdateCommit
<1>3. ASSUME NEW c \in Callers, Delete(c) PROVE TextsKept
  BY <1>3, DeleteKeepsTexts DEF Delete
<1>4. ASSUME NEW c \in Callers, Retitle(c) PROVE UNCHANGED <<archives, uncaptured>>
  BY <1>4 DEF Retitle
<1>5. ASSUME NEW id \in Ids, ArchiveRow(id) \/ InsertRow(id)
      PROVE  UNCHANGED archives /\ uncaptured \subseteq uncaptured'
  BY <1>5 DEF ArchiveRow, InsertRow, history
<1>6. UNCHANGED <<tables, history>> => UNCHANGED <<archives, uncaptured>>
  BY DEF tables, history
<1>7. QED
  BY <1>1, <1>2, <1>3, <1>4, <1>5, <1>6, WritingOrQuiet DEF Writing

\* Every step keeps captured rows, and the callers' copies of them, covered.
LEMMA EvidenceStep == EvidenceInv /\ [Next]_vars => EvidenceInv'
<1> SUFFICES ASSUME EvidenceInv, [Next]_vars PROVE EvidenceInv'
  OBVIOUS
<1>1. TypeInv /\ TypeInv' /\ TextsKept
  BY StepTyped, TextsKeptStep DEF EvidenceInv
<1>2. ASSUME NEW id \in Ids PROVE CoveredRow(id)'
  <2> SUFFICES ASSUME memories'[id] # NoMemory, id \notin uncaptured'
               PROVE  CoveredNext(memories'[id].content)
    BY DEF CoveredRow, Covered, CoveredNext
  <2>1. CoveredCopies /\ CoveredRow(id) /\ id \notin uncaptured
    BY <1>1 DEF EvidenceInv, TextsKept
  <2>2. CASE Kept(id)
    BY <1>1, <2>1, <2>2, CoveredKept DEF Kept, CoveredRow
  <2>3. CASE Created(id) \/ Rewritten(id)
    BY <2>1, <2>3 DEF Created, Rewritten, Written
  <2>4. CASE Removed(id)
    BY <2>4 DEF Removed
  <2>5. QED
    BY <1>1, <2>2, <2>3, <2>4, RowStep
<1>3. CoveredCopies'
  <2> SUFFICES ASSUME NEW c \in Callers, Holds(c)', matchId'[c] \notin uncaptured'
               PROVE  CoveredNext(matched'[c].content)
    BY DEF CoveredCopies, Holds, Covered, CoveredNext
  <2>1. matchId'[c] \notin uncaptured
    BY <1>1 DEF TextsKept
  <2>2. Covered(matched'[c].content)
    BY <1>1, <2>1, CopyStep DEF EvidenceInv, CoveredCopies, CoveredRow, Holds
  <2>3. QED
    BY <1>1, <2>2, CoveredKept
<1>4. QED
  BY <1>1, <1>2, <1>3 DEF EvidenceInv

\* A step that deletes a captured row, or one that no archive names, leaves its
\* text in the raw archive.
LEMMA RemovalCovered ==
    ASSUME EvidenceInv, [Next]_vars, NEW id \in Ids,
           memories[id] # NoMemory, memories'[id] = NoMemory,
           id \notin uncaptured \/ ~\E a \in archives : a.source = id
    PROVE  contentOutlives(id)
<1>1. TypeInv /\ TypeInv' /\ TextsKept
  BY StepTyped, TextsKeptStep DEF EvidenceInv
<1>2. Removed(id)
  <2>1. Kept(id) \/ Created(id) \/ Rewritten(id) \/ Removed(id)
    BY <1>1, RowStep
  <2>2. QED
    BY <2>1, StoreAssumption DEF Kept, Created, Rewritten, Written
<1>3. CoveredNext(memories[id].content)
  <2>1. CASE id \notin uncaptured
    BY <1>1, <2>1, CoveredKept DEF EvidenceInv, CoveredRow
  <2>2. CASE ~\E a \in archives : a.source = id
    BY <1>2, <2>2 DEF Removed
  <2>3. QED
    BY <2>1, <2>2
<1>4. QED
  BY <1>3 DEF CoveredNext, contentOutlives

\* Deleting a row leaves every atom of its text in the raw archive, if all its
\* texts were captured or no archive names it, through any number of restarts
\* with the raw archive on or off.
THEOREM EvidenceIsKept == Spec => CapturedEvidenceOutlivesRow
<1> DEFINE Secured ==
        \A id \in Ids :
            /\ memories[id] # NoMemory /\ memories'[id] = NoMemory
            /\ id \notin uncaptured \/ ~\E a \in archives : a.source = id
            => contentOutlives(id)
<1>1. Init => EvidenceInv
  BY InitTyped DEF Init, EvidenceInv, CoveredCopies, CoveredRow
<1>2. EvidenceInv /\ [Next]_vars => [Secured]_vars
  BY RemovalCovered
<1> HIDE DEF Secured
<1>3. Spec => [][Secured]_vars
  BY <1>1, <1>2, EvidenceStep, PTL DEF Spec
<1>4. QED
  BY <1>3 DEF Secured, CapturedEvidenceOutlivesRow
=============================================================================
