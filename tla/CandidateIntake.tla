-------------------------- MODULE CandidateIntake --------------------------
(***************************************************************************)
(* Host events are staged in the raw inbox and become candidates; a        *)
(* candidate is evaluated, promoted into the memories, and demoted again   *)
(* (src/ingestion/pipeline.ts and raw-inbox.ts, src/promotion/,            *)
(* src/db/candidate-repository.ts).                                        *)
(*                                                                         *)
(* Several processes work on one database (MCP servers, the scheduler's    *)
(* HTTP API).  A transaction is a step; so is a read and what is computed  *)
(* from it, because another process may commit between a read and the      *)
(* transaction that relies on it.  Interrupt is the end of a process, or a *)
(* statement that throws: transactions are rolled back and the rest of the *)
(* call is not done.                                                       *)
(*                                                                         *)
(* Data.  A candidate keeps the id it has as a memory.  Of a text only its *)
(* identity after normalisation counts; the key of a candidate is the hash *)
(* of kind and text.  A type is promotable or not: the extractor gives     *)
(* messages and unknown events types that memories do not have.            *)
(***************************************************************************)
EXTENDS Naturals, FiniteSets

CONSTANTS Actors,          \* processes
          Ids,             \* ids of candidates and memories
          Events,          \* event_ids that hosts send
          Content,         \* the kind and the text of each event
          Texts,
          Stored,          \* ids of memories that are there at first
          Sessions,
          AgeThreshold, MinAcks, MinSessions,   \* the judgment rules
          MaxTime, MaxAcks, \* bounds
          MaxCalls,        \* bound on the calls of all processes
          MaxWrites,       \* bound on what the memory service does
          None

Kinds == {"message", "tool", "unknown"}
States == {"pending", "held", "ready"}   \* nothing discards: the policy never says so

Key == [kind: Kinds, text: Texts]
Candidate == [text: Texts, promotable: BOOLEAN, key: Key \cup {None}, state: States,
              born: 0..MaxTime]
Memory == [text: Texts, claimed: BOOLEAN]

ASSUME IntakeAssumption ==
    /\ Content \in [Events -> [kind: Kinds, text: Texts \cup {None}]]
    /\ Stored \subseteq Ids /\ Ids \cap Events = {}
    /\ None \notin Texts \cup Events \cup Memory \cup Candidate \cup States \cup {"promoted"}
    /\ {AgeThreshold, MinAcks, MinSessions, MaxTime, MaxAcks, MaxCalls, MaxWrites} \subseteq Nat

VARIABLES inbox,           \* raw_inbox: the event ids it has
          candidates,      \* candidate_memories
          memories,        \* memories
          audit,           \* promotion_audit: to_state of the last entry of each id
                           \* that is not a keep
          acks,            \* usage_acks that say sufficient
          now,
          job,             \* what each process is in the middle of
          calls, writes,   \* what the bounds count
          deleted,         \* history: memories that MemoryService has deleted
          source           \* history: the event each candidate was made of

tables == <<inbox, candidates, memories, audit>>
vars == <<tables, acks, now, job, calls, writes, deleted, source>>

Trigger == {"manual", "policy", "sweep"}

Idle == [op |-> "idle"]

\* Mutant: a queue that has been worked off is not released.
evaluations_Kept(trigger, todo) == [op |-> "queue", trigger |-> trigger, todo |-> todo]

\* A queue of candidates that are evaluated one after the other.
evaluations(trigger, todo) ==
    IF todo = {} THEN Idle ELSE [op |-> "queue", trigger |-> trigger, todo |-> todo]

go(a, next) == job' = [job EXCEPT ![a] = next]

call(a) ==
    /\ job[a] = Idle /\ calls < MaxCalls
    /\ calls' = calls + 1
    /\ UNCHANGED writes

unused == {id \in Ids : candidates[id] = None /\ memories[id] = None /\ id \notin deleted}

newCandidate(text, promotable, key, state) ==
    [text |-> text, promotable |-> promotable, key |-> key, state |-> state, born |-> now]

recorded(id, to) == [audit EXCEPT ![id] = to]

----------------------------------------------------------------------------
(* Ingestion. *)

\* Mutant: an event that is in the inbox already is staged once more.
isNewEvent_Always(e) == TRUE

\* insertRawEvent; a repeated event is deduped and nothing else happens.
isNewEvent(e) == e \notin inbox

Stage(a, e) ==
    /\ call(a)
    /\ isNewEvent(e)
    /\ inbox' = inbox \cup {e}
    /\ go(a, [op |-> "staged", event |-> e, isNew |-> FALSE])
    /\ UNCHANGED <<candidates, memories, audit, acks, now, deleted, source>>

\* envelopeToCandidateInput: an unknown kind has no key.
keyOf(c) == IF c.kind = "unknown" THEN None ELSE [kind |-> c.kind, text |-> c.text]

\* findExistingCandidate looks among the candidates only.
isKnown(key) == key # None /\ \E id \in Ids : candidates[id] # None /\ candidates[id].key = key

\* materializeCandidate drops an event without text or whose key is known,
LookUp(a) ==
    LET c == Content[job[a].event] IN
    /\ job[a].op = "staged" /\ ~job[a].isNew
    /\ go(a, IF c.text = None \/ isKnown(keyOf(c)) THEN Idle
             ELSE [job[a] EXCEPT !.isNew = TRUE])
    /\ UNCHANGED <<tables, acks, now, calls, writes, deleted, source>>

\* and makes a candidate of another one, which is evaluated under the policy
\* trigger; a second process may have made one of that key in between.
Materialize(a) ==
    LET c == Content[job[a].event] IN
    /\ job[a].op = "staged" /\ job[a].isNew
    /\ \E id \in unused :
       /\ candidates' = [candidates EXCEPT ![id] =
              newCandidate(c.text, c.kind = "tool", keyOf(c), "pending")]
       /\ source' = [source EXCEPT ![id] = job[a].event]
       /\ go(a, evaluations("policy", {id}))
    /\ UNCHANGED <<inbox, memories, audit, acks, now, calls, writes, deleted>>

\* The tool candidate_create.
CreateCandidate(a, id, text) ==
    /\ call(a)
    /\ id \in unused
    /\ candidates' = [candidates EXCEPT ![id] = newCandidate(text, TRUE, None, "pending")]
    /\ UNCHANGED <<inbox, memories, audit, acks, now, job, deleted, source>>

----------------------------------------------------------------------------
(* Evaluation and promotion. *)

\* The age rule and the ack rule; acks count from the creation of the candidate,
\* which a demotion sets anew.
isRipe(id, c) ==
    LET history == {k \in acks : k.record = id /\ k.at >= c.born} IN
    \/ c.born + AgeThreshold <= now
    \/ /\ Cardinality(history) >= MinAcks
       /\ Cardinality({k.session : k \in history} \ {None}) >= MinSessions

\* findById and evaluate: what the transaction that follows relies on.
Evaluate(a, id, trigger, rest) ==
    IF candidates[id] = None THEN go(a, Idle)      \* CandidateNotFound ends a sweep, too
    ELSE go(a, [op |-> "acting", id |-> id, trigger |-> trigger, rest |-> rest,
                candidate |-> candidates[id],
                promote |-> trigger = "manual" \/ isRipe(id, candidates[id])])

\* candidate_promote and candidate_evaluate.
Call(a, id, trigger) ==
    /\ call(a)
    /\ Evaluate(a, id, trigger, {})
    /\ UNCHANGED <<tables, acks, now, deleted, source>>

\* runSweep: the list is read at once.
Sweep(a) ==
    /\ call(a)
    /\ go(a, evaluations("sweep", {id \in Ids : candidates[id] # None}))
    /\ UNCHANGED <<tables, acks, now, deleted, source>>

EvaluateNext(a) ==
    /\ job[a].op = "queue"
    /\ \E id \in job[a].todo : Evaluate(a, id, job[a].trigger, job[a].todo \ {id})
    /\ UNCHANGED <<tables, acks, now, calls, writes, deleted, source>>

acting(a, promotes) ==
    /\ job[a].op = "acting"
    /\ promotes <=> (job[a].promote /\ job[a].trigger # "policy")

goOn(a) == go(a, evaluations(job[a].trigger, job[a].rest))

\* Mutant: a promotion does not ask whether the candidate is still there.
canPromote_Absent(id) == memories[id] = None

\* The insert refuses an id that is there; the delete must find the candidate.
canPromote(id) == memories[id] = None /\ candidates[id] # None

\* promoteCandidate, with the shadow write that may be on, off or fail.
Promote(a) ==
    LET id == job[a].id
        c  == job[a].candidate
    IN  /\ acting(a, TRUE) /\ c.promotable
        /\ canPromote(id)
        /\ memories' = [memories EXCEPT ![id] = [text |-> c.text, claimed |-> FALSE]]
        /\ candidates' = [candidates EXCEPT ![id] = None]
        /\ audit' = recorded(id, "promoted")
        /\ inbox' \in {inbox, inbox \cup {id}}
        /\ goOn(a)
        /\ UNCHANGED <<acks, now, calls, writes, deleted, source>>

\* InvalidCandidateType: kept, with an audit entry.
KeepInvalid(a) ==
    /\ acting(a, TRUE) /\ ~job[a].candidate.promotable
    /\ goOn(a)
    /\ UNCHANGED <<tables, acks, now, calls, writes, deleted, source>>

\* Mutant: the audit entry of an evaluation has the state it started from.
recordedState_Before(c, promote) == c.state

\* mapDecisionToCandidateState
settled(promote) == IF promote THEN "ready" ELSE "held"

\* resolveAuditState
recordedState(c, promote) == settled(promote)

\* evaluateAndAct without a promotion.
Settle(a) ==
    LET id == job[a].id
        c  == job[a].candidate
    IN  /\ acting(a, FALSE)
        /\ candidates[id] # None
        /\ candidates' = [candidates EXCEPT ![id].state = settled(job[a].promote)]
        /\ audit' = recorded(id, recordedState(c, job[a].promote))
        /\ goOn(a)
        /\ UNCHANGED <<inbox, memories, acks, now, calls, writes, deleted, source>>

\* demoteManual reads the memory,
Demote(a, id) ==
    /\ call(a)
    /\ memories[id] # None
    /\ go(a, [op |-> "demoting", id |-> id, memory |-> memories[id]])
    /\ UNCHANGED <<tables, acks, now, deleted, source>>

\* and moves it in one transaction, unless claims hold it or it is gone.
DemoteCommit(a) ==
    LET id == job[a].id IN
    /\ job[a].op = "demoting"
    /\ candidates[id] = None
    /\ memories[id] # None /\ ~memories[id].claimed
    /\ candidates' = [candidates EXCEPT ![id] =
           newCandidate(job[a].memory.text, TRUE, None, "held")]
    /\ memories' = [memories EXCEPT ![id] = None]
    /\ audit' = recorded(id, "held")
    /\ go(a, Idle)
    /\ UNCHANGED <<inbox, acks, now, calls, writes, deleted, source>>

Interrupt(a) ==
    /\ job[a] # Idle
    /\ go(a, Idle)
    /\ UNCHANGED <<tables, acks, now, calls, writes, deleted, source>>

----------------------------------------------------------------------------
(* External: the memory service, the acknowledgements, time. *)

write ==
    /\ writes < MaxWrites /\ writes' = writes + 1
    /\ UNCHANGED <<inbox, candidates, audit, acks, now, job, calls, source>>

Rewrite(id, text, claimed) ==
    /\ write /\ memories[id] # None
    /\ memories' = [memories EXCEPT ![id] = [text |-> text, claimed |-> claimed]]
    /\ UNCHANGED deleted

Delete(id) ==
    /\ write /\ memories[id] # None
    /\ memories' = [memories EXCEPT ![id] = None]
    /\ deleted' = deleted \cup {id}

Acknowledge(id, session) ==
    /\ Cardinality(acks) < MaxAcks
    /\ acks' = acks \cup {[checkpoint |-> Cardinality(acks), record |-> id,
                           session |-> session, at |-> now]}
    /\ UNCHANGED <<tables, now, job, calls, writes, deleted, source>>

Tick ==
    /\ now < MaxTime
    /\ now' = now + 1
    /\ UNCHANGED <<tables, acks, job, calls, writes, deleted, source>>

----------------------------------------------------------------------------
Init ==
    /\ inbox = {}
    /\ candidates = [id \in Ids |-> None]
    /\ \E t \in Texts : memories = [id \in Ids |->
           IF id \in Stored THEN [text |-> t, claimed |-> FALSE] ELSE None]
    /\ audit = [id \in Ids |-> None]
    /\ acks = {} /\ now = 0
    /\ job = [a \in Actors |-> Idle] /\ calls = 0 /\ writes = 0
    /\ deleted = {} /\ source = [id \in Ids |-> None]

Next ==
    \/ \E a \in Actors :
        \/ \E e \in Events : Stage(a, e)
        \/ LookUp(a) \/ Materialize(a)
        \/ \E id \in Ids, t \in Texts : CreateCandidate(a, id, t)
        \/ \E id \in Ids, trigger \in {"manual", "policy"} : Call(a, id, trigger)
        \/ Sweep(a)
        \/ EvaluateNext(a)
        \/ Promote(a) \/ KeepInvalid(a) \/ Settle(a)
        \/ \E id \in Ids : Demote(a, id)
        \/ DemoteCommit(a)
        \/ Interrupt(a)
    \/ \E id \in Ids, t \in Texts, claimed \in BOOLEAN : Rewrite(id, t, claimed)
    \/ \E id \in Ids : Delete(id)
    \/ \E id \in Ids, s \in Sessions \cup {None} : Acknowledge(id, s)
    \/ Tick

Spec == Init /\ [][Next]_vars

----------------------------------------------------------------------------
TypeOK ==
    /\ inbox \subseteq Events \cup Ids
    /\ candidates \in [Ids -> Candidate \cup {None}]
    /\ memories \in [Ids -> Memory \cup {None}]
    /\ audit \in [Ids -> States \cup {"promoted", None}]
    /\ acks \subseteq [checkpoint: Nat, record: Ids, session: Sessions \cup {None},
                       at: 0..MaxTime]
    /\ now \in 0..MaxTime
    /\ \A a \in Actors :
        \/ job[a] = Idle
        \/ /\ job[a] \in [op: {"staged"}, event: inbox \cap Events, isNew: BOOLEAN]
           /\ job[a].isNew => Content[job[a].event].text # None
        \/ job[a] \in [op: {"queue"}, trigger: Trigger, todo: (SUBSET Ids) \ {{}}]
        \/ job[a] \in [op: {"acting"}, id: Ids, trigger: Trigger, rest: SUBSET Ids,
                       candidate: Candidate, promote: BOOLEAN]
        \/ job[a] \in [op: {"demoting"}, id: Ids, memory: Memory]
    /\ calls \in 0..MaxCalls /\ writes \in 0..MaxWrites
    /\ deleted \subseteq Ids
    /\ source \in [Ids -> Events \cup {None}]

\* The last entry that records a move says where an id is: promoted, or a
\* candidate in that state, whatever was read before another process's commit
\* and however a call was cut short.  An id is never in both tables, as long as
\* no vega import makes a memory of an exported id that has been demoted since:
\* the import does not ask candidate_memories, and is left out.
place(id) == IF memories[id] # None THEN "promoted" ELSE candidates[id].state

AuditTellsPlace ==
    \A id \in Ids :
        /\ candidates[id] = None \/ memories[id] = None
        /\ (candidates[id] # None \/ memories[id] # None) /\ audit[id] # None
           => audit[id] = place(id)

\* A memory that the service has deleted does not come back, neither by a
\* promotion nor by a demotion that had read it before.
DeletedStaysDeleted ==
    \A id \in deleted : memories[id] = None /\ candidates[id] = None

\* An event becomes a candidate once, however often it is delivered and
\* whatever has become of the candidate since (stageIngestEvent).
MaterializedOnce ==
    \A i, j \in Ids : i # j /\ source[i] # None => source[i] # source[j]

stageOf(id) ==
    IF id \in deleted THEN "deleted"
    ELSE IF id \in unused THEN "unused" ELSE place(id)

entryOf(id) == IF audit[id] = None THEN "none" ELSE audit[id]

Record(id) == INSTANCE CandidateRecord WITH stage <- stageOf(id), entry <- entryOf(id)

\* To each id the transactions of all processes, with what they had read before,
\* look like single moves that are audited as they are made: a promotion is one
\* of a candidate and a demotion one of a memory, and after its deletion none is
\* possible (promoteCandidate, evaluateAndAct, demoteManual).
RecordsMove == [][\A id \in Ids : [Record(id)!Next]_(Record(id)!vars)]_vars
=============================================================================
