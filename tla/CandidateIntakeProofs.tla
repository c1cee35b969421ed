----------------------- MODULE CandidateIntakeProofs -----------------------
(***************************************************************************)
(* The invariants of CandidateIntake, for every number of processes, ids,  *)
(* events and calls.                                                       *)
(*                                                                         *)
(* None of the three safety invariants is inductive alone.  What is new is *)
(* given an id that is in no table, so ids that have a past (an audit      *)
(* entry, a source) must be in a table or deleted; and an event is staged  *)
(* by one process only, before it has become a candidate.  With that every *)
(* id implements CandidateRecord.                                          *)
(***************************************************************************)
EXTENDS CandidateIntake, FiniteSetTheorems, TLAPS

Staged == {j \in [op: {"staged"}, event: Events, isNew: BOOLEAN] :
               j.isNew => Content[j.event].text # None}
Queue == [op: {"queue"}, trigger: Trigger, todo: (SUBSET Ids) \ {{}}]
Acting == [op: {"acting"}, id: Ids, trigger: Trigger, rest: SUBSET Ids,
           candidate: Candidate, promote: BOOLEAN]
Demoting == [op: {"demoting"}, id: Ids, memory: Memory]
Jobs == {Idle} \cup Staged \cup Queue \cup Acting \cup Demoting

\* What TypeOK says of the variables, apart from staged events.
Types ==
    /\ inbox \subseteq Events \cup Ids
    /\ candidates \in [Ids -> Candidate \cup {None}]
    /\ memories \in [Ids -> Memory \cup {None}]
    /\ audit \in [Ids -> States \cup {"promoted", None}]
    /\ acks \subseteq [checkpoint: Nat, record: Ids, session: Sessions \cup {None},
                       at: 0..MaxTime]
    /\ IsFiniteSet(acks)
    /\ now \in 0..MaxTime
    /\ job \in [Actors -> Jobs]
    /\ calls \in 0..MaxCalls /\ writes \in 0..MaxWrites
    /\ deleted \subseteq Ids
    /\ source \in [Ids -> Events \cup {None}]

\* An id with a past is in a table or has been deleted.
UsedIdsAreKnown ==
    \A id \in Ids : audit[id] # None \/ source[id] # None => id \notin unused

isStaged(a, e) == job[a].op = "staged" /\ job[a].event = e

\* An event that is staged or was made a candidate is in the inbox; it is staged
\* by one process, and not once it was made a candidate.
StagedOnce ==
    /\ \A a \in Actors, e \in Events : isStaged(a, e) =>
           /\ e \in inbox
           /\ \A b \in Actors : isStaged(b, e) => a = b
           /\ \A id \in Ids : source[id] # e
    /\ \A id \in Ids : source[id] # None => source[id] \in inbox

Inv == Types /\ AuditTellsPlace /\ DeletedStaysDeleted /\ MaterializedOnce
       /\ UsedIdsAreKnown /\ StagedOnce

\* The kinds of job are told apart by op.
LEMMA JobKinds ==
    ASSUME NEW j \in Jobs
    PROVE  /\ j.op = "staged" => j \in Staged
           /\ j.op = "queue" => j \in Queue
           /\ j.op = "acting" => j \in Acting
           /\ j.op = "demoting" => j \in Demoting
BY DEF Jobs, Idle, Staged, Queue, Acting, Demoting

\* A queue is a job, also when it is empty, and stages nothing.
LEMMA EvaluationsType ==
    ASSUME NEW trigger \in Trigger, NEW todo \in SUBSET Ids
    PROVE  /\ evaluations(trigger, todo) \in Jobs
           /\ evaluations(trigger, todo).op # "staged"
BY DEF evaluations, Jobs, Queue, Idle

\* What newCandidate makes is a candidate.
LEMMA NewCandidateType ==
    ASSUME NEW text \in Texts, NEW promotable \in BOOLEAN, NEW key \in Key \cup {None},
           NEW state \in States, now \in 0..MaxTime
    PROVE  /\ newCandidate(text, promotable, key, state) \in Candidate
           /\ newCandidate(text, promotable, key, state) # None
           /\ newCandidate(text, promotable, key, state).state = state
BY IntakeAssumption DEF newCandidate, Candidate

\* A state that a candidate may have is neither "promoted" nor None.
LEMMA StatesAreStates == "promoted" \notin States /\ Idle.op # "staged"
BY DEF States, Idle

\* What an evaluation leaves behind: a job of its own, and the tables alone.
LEMMA EvaluateStep ==
    ASSUME Types, NEW a \in Actors, NEW id \in Ids, NEW trigger \in Trigger,
           NEW rest \in SUBSET Ids, Evaluate(a, id, trigger, rest)
    PROVE  \E j \in Jobs : j.op # "staged" /\ go(a, j)
<1>1. CASE candidates[id] = None
  BY <1>1, StatesAreStates DEF Evaluate, Jobs
<1>2. CASE candidates[id] # None
  <2> DEFINE j == [op |-> "acting", id |-> id, trigger |-> trigger, rest |-> rest,
                   candidate |-> candidates[id],
                   promote |-> trigger = "manual" \/ isRipe(id, candidates[id])]
  <2>1. candidates[id] \in Candidate
    BY <1>2 DEF Types
  <2>2. isRipe(id, candidates[id]) \in BOOLEAN
    BY DEF isRipe
  <2>3. j \in Jobs /\ j.op # "staged"
    BY <2>1, <2>2 DEF Jobs, Acting
  <2>4. go(a, j)
    BY <1>2 DEF Evaluate
  <2> QED
    BY <2>3, <2>4
<1> QED
  BY <1>1, <1>2

\* A step that only gives a process another job, which stages nothing, and
\* counts, preserves the invariant.
LEMMA JobStep ==
    ASSUME Inv, NEW a \in Actors, NEW j \in Jobs, j.op # "staged", go(a, j),
           UNCHANGED <<tables, acks, now, deleted, source>>,
           calls' \in 0..MaxCalls, writes' \in 0..MaxWrites
    PROVE  Inv'
<1>1. job' \in [Actors -> Jobs]
  BY DEF go, Inv, Types
<1>2. \A b \in Actors, e \in Events : isStaged(b, e)' => isStaged(b, e)
  BY DEF go, isStaged, Inv, Types
<1>3. Types'
  BY <1>1 DEF Inv, Types, tables
<1>4. StagedOnce'
  BY <1>2 DEF Inv, StagedOnce, tables
<1>5. UsedIdsAreKnown'
  BY DEF Inv, UsedIdsAreKnown, unused, tables
<1> QED
  BY <1>3, <1>4, <1>5
     DEF Inv, AuditTellsPlace, place, DeletedStaysDeleted, MaterializedOnce, tables

\* A bounded call is counted within its bound.
LEMMA CallsType == ASSUME Types, NEW a, call(a) PROVE calls' \in 0..MaxCalls /\ writes' = writes
BY IntakeAssumption DEF Types, call

\* Initially nothing has happened.
LEMMA InitInv == Init => Inv
<1> SUFFICES ASSUME Init PROVE Inv
  OBVIOUS
<1> USE IntakeAssumption, StatesAreStates DEF Init
<1>1. Types
  <2>1. memories \in [Ids -> Memory \cup {None}]
    BY DEF Memory
  <2>2. IsFiniteSet(acks)
    BY FS_EmptySet
  <2>3. job \in [Actors -> Jobs]
    BY DEF Jobs
  <2>4. now \in 0..MaxTime /\ calls \in 0..MaxCalls /\ writes \in 0..MaxWrites
    OBVIOUS
  <2>5. audit \in [Ids -> States \cup {"promoted", None}]
    OBVIOUS
  <2> QED
    BY <2>1, <2>2, <2>3, <2>4, <2>5 DEF Types
<1>2. UsedIdsAreKnown /\ StagedOnce
  BY DEF UsedIdsAreKnown, StagedOnce, isStaged
<1> QED
  BY <1>1, <1>2 DEF Inv, AuditTellsPlace, DeletedStaysDeleted, MaterializedOnce

\* Staging an event: it is new, so nothing was made of it and nobody stages it.
LEMMA StageStep == ASSUME Inv, NEW a \in Actors, NEW e \in Events, Stage(a, e) PROVE Inv'
<1> DEFINE j == [op |-> "staged", event |-> e, isNew |-> FALSE]
<1>1. Types'
  <2>1. j \in Jobs
    BY DEF Jobs, Staged
  <2>2. job' \in [Actors -> Jobs]
    BY <2>1 DEF Stage, go, Inv, Types
  <2>3. calls' \in 0..MaxCalls /\ writes' = writes
    BY CallsType DEF Stage, Inv
  <2> QED
    BY <2>2, <2>3 DEF Stage, Inv, Types
<1>2. \A b \in Actors, f \in Events :
          isStaged(b, f)' => (b = a /\ f = e) \/ (b # a /\ isStaged(b, f))
  <2>1. \A b \in Actors : job'[b] = IF b = a THEN j ELSE job[b]
    BY DEF Stage, go, Inv, Types
  <2> QED
    BY <2>1 DEF isStaged
<1>3. StagedOnce'
  <2>1. e \notin inbox /\ inbox' = inbox \cup {e} /\ source' = source
    BY DEF Stage, isNewEvent
  <2>2. /\ \A b \in Actors : ~isStaged(b, e)
        /\ \A id \in Ids : source[id] # e
    BY <2>1, IntakeAssumption DEF Inv, StagedOnce
  <2> QED
    BY <1>2, <2>1, <2>2 DEF Inv, StagedOnce
<1>4. UsedIdsAreKnown'
  BY DEF Stage, Inv, UsedIdsAreKnown, unused
<1> QED
  BY <1>1, <1>3, <1>4
     DEF Stage, Inv, AuditTellsPlace, place, DeletedStaysDeleted, MaterializedOnce

\* The look-up ends the staging or leaves the event staged.
LEMMA LookUpStep == ASSUME Inv, NEW a \in Actors, LookUp(a) PROVE Inv'
<1> DEFINE c == Content[job[a].event]
           j == [job[a] EXCEPT !.isNew = TRUE]
<1>1. job[a] \in Staged
  BY JobKinds DEF LookUp, Inv, Types
<1>2. CASE c.text = None \/ isKnown(keyOf(c))
  BY <1>2, JobStep, StatesAreStates DEF LookUp, Inv, Types, Jobs, tables
<1>3. CASE ~(c.text = None \/ isKnown(keyOf(c)))
  <2>1. j \in Staged /\ j.op = job[a].op /\ j.event = job[a].event
    BY <1>1, <1>3 DEF Staged
  <2>2. job' = [job EXCEPT ![a] = j]
    BY <1>3 DEF LookUp, go
  <2>3. Types'
    BY <2>1, <2>2 DEF LookUp, Inv, Types, Jobs, tables
  <2>4. \A b \in Actors, e \in Events : isStaged(b, e)' => isStaged(b, e)
    BY <2>1, <2>2 DEF isStaged, Inv, Types
  <2>5. StagedOnce'
    BY <2>4 DEF LookUp, Inv, StagedOnce, tables
  <2>6. UNCHANGED <<candidates, memories, audit, deleted, source>>
    BY DEF LookUp, tables
  <2> QED
    BY <2>3, <2>5, <2>6
       DEF Inv, AuditTellsPlace, place, DeletedStaysDeleted, MaterializedOnce,
           UsedIdsAreKnown, unused
<1> QED
  BY <1>2, <1>3

\* What is made of a staged event is a candidate.
LEMMA EventCandidate ==
    ASSUME Inv, NEW a \in Actors, job[a].op = "staged", job[a].isNew
    PROVE  LET c == Content[job[a].event]
               new == newCandidate(c.text, c.kind = "tool", keyOf(c), "pending")
           IN  new \in Candidate /\ new # None /\ new.state = "pending"
<1> DEFINE c == Content[job[a].event]
<1>1. job[a] \in Staged
  BY JobKinds DEF Inv, Types
<1>2. c.text \in Texts /\ c.kind \in Kinds
  BY <1>1, IntakeAssumption DEF Staged
<1>3. keyOf(c) \in Key \cup {None}
  BY <1>2 DEF keyOf, Key
<1> QED
  BY <1>2, <1>3, NewCandidateType DEF Inv, Types, States

\* Materializing ends the staging; what is made has an unused id, and is the
\* only candidate of the event.
LEMMA MaterializeStep == ASSUME Inv, NEW a \in Actors, Materialize(a) PROVE Inv'
<1> DEFINE c == Content[job[a].event]
           e == job[a].event
<1>1. job[a] \in Staged /\ e \in Events /\ isStaged(a, e) /\ c.text # None
  BY JobKinds DEF Materialize, Inv, Types, Staged, isStaged
<1>2. ASSUME NEW id \in unused,
             candidates' = [candidates EXCEPT ![id] =
                 newCandidate(c.text, c.kind = "tool", keyOf(c), "pending")],
             source' = [source EXCEPT ![id] = e],
             go(a, evaluations("policy", {id}))
      PROVE  Inv'
  <2> DEFINE new == newCandidate(c.text, c.kind = "tool", keyOf(c), "pending")
  <2>0. id \in Ids /\ candidates[id] = None /\ memories[id] = None /\ id \notin deleted
    BY DEF unused
  <2>1. new \in Candidate /\ new # None
    BY EventCandidate DEF Materialize
  <2>2. job' \in [Actors -> Jobs] /\ job'[a].op # "staged"
        /\ \A b \in Actors \ {a} : job'[b] = job[b]
    BY <1>2, <2>0, EvaluationsType DEF go, Inv, Types, Trigger
  <2>3. Types'
    BY <1>1, <1>2, <2>0, <2>1, <2>2 DEF Materialize, Inv, Types
  <2>4. \A b \in Actors, f \in Events : isStaged(b, f)' => b # a /\ f # e /\ isStaged(b, f)
    BY <1>1, <2>2 DEF isStaged, Inv, StagedOnce
  <2>5. StagedOnce'
    BY <1>1, <1>2, <2>0, <2>4 DEF Materialize, Inv, Types, StagedOnce
  <2>6. audit[id] = None /\ source[id] = None
    BY <2>0 DEF Inv, UsedIdsAreKnown, unused
  <2>7. UsedIdsAreKnown'
    BY <1>2, <2>0, <2>1 DEF Materialize, Inv, Types, UsedIdsAreKnown, unused
  <2>8. MaterializedOnce'
    BY <1>1, <1>2, <2>0 DEF Inv, Types, StagedOnce, MaterializedOnce
  <2>9. AuditTellsPlace'
    BY <1>2, <2>0, <2>1, <2>6 DEF Materialize, Inv, Types, AuditTellsPlace, place
  <2>10. DeletedStaysDeleted'
    BY <1>2, <2>0 DEF Materialize, Inv, Types, DeletedStaysDeleted
  <2> QED
    BY <2>3, <2>5, <2>7, <2>8, <2>9, <2>10 DEF Inv
<1> QED
  BY <1>2 DEF Materialize

\* A candidate that a host creates has an unused id.
LEMMA CreateStep ==
    ASSUME Inv, NEW a \in Actors, NEW id \in Ids, NEW t \in Texts, CreateCandidate(a, id, t)
    PROVE  Inv'
<1> DEFINE new == newCandidate(t, TRUE, None, "pending")
<1>1. new \in Candidate /\ new # None
  BY NewCandidateType DEF Inv, Types, States
<1>2. calls' \in 0..MaxCalls /\ writes' = writes
  BY CallsType DEF CreateCandidate, Inv
<1>3. candidates[id] = None /\ memories[id] = None /\ id \notin deleted
      /\ candidates' = [candidates EXCEPT ![id] = new]
  BY DEF CreateCandidate, unused
<1>4. audit[id] = None /\ source[id] = None
  BY <1>3 DEF Inv, UsedIdsAreKnown, unused
<1>5. Types'
  BY <1>1, <1>2, <1>3 DEF CreateCandidate, Inv, Types
<1>6. StagedOnce'
  BY DEF CreateCandidate, Inv, StagedOnce, isStaged
<1>7. UsedIdsAreKnown'
  BY <1>1, <1>3 DEF CreateCandidate, Inv, Types, UsedIdsAreKnown, unused
<1>8. AuditTellsPlace'
  BY <1>1, <1>3, <1>4 DEF CreateCandidate, Inv, Types, AuditTellsPlace, place
<1>9. DeletedStaysDeleted' /\ MaterializedOnce'
  BY <1>3 DEF CreateCandidate, Inv, Types, DeletedStaysDeleted, MaterializedOnce
<1> QED
  BY <1>5, <1>6, <1>7, <1>8, <1>9 DEF Inv

----------------------------------------------------------------------------
\* The calls that read, and what a queue does next.
LEMMA ReadStep ==
    ASSUME Inv, NEW a \in Actors,
           \/ \E id \in Ids, trigger \in {"manual", "policy"} : Call(a, id, trigger)
           \/ Sweep(a)
           \/ EvaluateNext(a)
           \/ \E id \in Ids : Demote(a, id)
    PROVE  Inv'
<1> USE DEF tables
<1>0. calls \in 0..MaxCalls /\ writes \in 0..MaxWrites /\ Types
  BY DEF Inv, Types
<1>1. ASSUME NEW id \in Ids, NEW trigger \in {"manual", "policy"}, Call(a, id, trigger)
      PROVE  Inv'
  <2>1. PICK j \in Jobs : j.op # "staged" /\ go(a, j)
    BY <1>0, <1>1, EvaluateStep DEF Call, Trigger
  <2>2. calls' \in 0..MaxCalls /\ writes' = writes
    BY <1>0, <1>1, CallsType DEF Call
  <2> QED
    BY <1>0, <1>1, <2>1, <2>2, JobStep DEF Call
<1>2. CASE Sweep(a)
  <2>1. calls' \in 0..MaxCalls /\ writes' = writes
    BY <1>0, <1>2, CallsType DEF Sweep
  <2> DEFINE todo == {id \in Ids : candidates[id] # None}
  <2>2. evaluations("sweep", todo) \in Jobs /\ evaluations("sweep", todo).op # "staged"
    BY EvaluationsType DEF Trigger
  <2> QED
    BY <1>0, <1>2, <2>1, <2>2, JobStep DEF Sweep
<1>3. CASE EvaluateNext(a)
  <2>1. job[a] \in Queue
    BY <1>0, <1>3, JobKinds DEF EvaluateNext, Types
  <2>2. PICK id \in job[a].todo : Evaluate(a, id, job[a].trigger, job[a].todo \ {id})
    BY <1>3 DEF EvaluateNext
  <2>3. PICK j \in Jobs : j.op # "staged" /\ go(a, j)
    <3>1. id \in Ids /\ job[a].trigger \in Trigger /\ job[a].todo \ {id} \in SUBSET Ids
      BY <2>1, <2>2 DEF Queue
    <3> QED
      BY <1>0, <2>2, <3>1, EvaluateStep
  <2>4. UNCHANGED <<tables, acks, now, calls, writes, deleted, source>>
    BY <1>3 DEF EvaluateNext
  <2> QED
    BY <1>0, <2>3, <2>4, JobStep
<1>4. ASSUME NEW id \in Ids, Demote(a, id) PROVE Inv'
  <2> DEFINE j == [op |-> "demoting", id |-> id, memory |-> memories[id]]
  <2>1. j \in Jobs /\ j.op # "staged" /\ go(a, j)
    BY <1>0, <1>4 DEF Demote, Types, Jobs, Demoting
  <2>2. calls' \in 0..MaxCalls /\ writes' = writes
    BY <1>0, <1>4, CallsType DEF Demote
  <2> QED
    BY <1>0, <1>4, <2>1, <2>2, JobStep DEF Demote
<1> QED
  BY <1>1, <1>2, <1>3, <1>4

\* A step that moves one id between the tables preserves the invariant when the
\* audit entry says where it is now and the id was in a table before.
LEMMA MoveStep ==
    ASSUME Inv, NEW a \in Actors, NEW j \in Jobs, j.op # "staged", go(a, j),
           NEW id \in Ids, candidates[id] # None \/ memories[id] # None,
           NEW c \in Candidate \cup {None}, NEW m \in Memory \cup {None}, (c = None) # (m = None),
           NEW to \in States \cup {"promoted"},
           to = IF m # None THEN "promoted" ELSE c.state,
           candidates' = [candidates EXCEPT ![id] = c],
           memories' = [memories EXCEPT ![id] = m],
           audit' = [audit EXCEPT ![id] = to],
           inbox \subseteq inbox', inbox' \subseteq Events \cup Ids,
           UNCHANGED <<acks, now, calls, writes, deleted, source>>
    PROVE  Inv'
<1>1. job' \in [Actors -> Jobs]
  BY DEF go, Inv, Types
<1>2. \A b \in Actors, e \in Events : isStaged(b, e)' => isStaged(b, e)
  BY DEF go, isStaged, Inv, Types
<1>3. Types'
  BY <1>1 DEF Inv, Types
<1>4. StagedOnce'
  BY <1>2 DEF Inv, StagedOnce
<1>5. id \notin deleted
  BY DEF Inv, DeletedStaysDeleted
<1>6. UsedIdsAreKnown'
  BY <1>5 DEF Inv, Types, UsedIdsAreKnown, unused
<1>7. AuditTellsPlace'
  BY DEF Inv, Types, AuditTellsPlace, place
<1>8. DeletedStaysDeleted'
  BY <1>5 DEF Inv, Types, DeletedStaysDeleted
<1> QED
  BY <1>3, <1>4, <1>6, <1>7, <1>8 DEF Inv, MaterializedOnce

\* What an evaluation does in its transaction.
LEMMA ActStep ==
    ASSUME Inv, NEW a \in Actors, Promote(a) \/ KeepInvalid(a) \/ Settle(a)
    PROVE  Inv'
<1>1. job[a] \in Acting
  BY JobKinds DEF Promote, KeepInvalid, Settle, acting, Inv, Types
<1> DEFINE id == job[a].id
           c == job[a].candidate
           next == evaluations(job[a].trigger, job[a].rest)
<1>2. id \in Ids /\ c \in Candidate /\ job[a].promote \in BOOLEAN
  BY <1>1 DEF Acting
<1>3. next \in Jobs /\ next.op # "staged"
  BY <1>1, EvaluationsType DEF Acting
<1>4. CASE Promote(a)
  <2> DEFINE m == [text |-> c.text, claimed |-> FALSE]
  <2>0. c.text \in Texts
    BY <1>2 DEF Candidate
  <2>1. m \in Memory /\ m # None
    <3>1. m \in Memory
      BY <2>0 DEF Memory
    <3>2. None \notin Memory
      BY IntakeAssumption
    <3> QED
      BY <3>1, <3>2
  <2>2. /\ go(a, next)
        /\ candidates[id] # None /\ memories[id] = None
        /\ candidates' = [candidates EXCEPT ![id] = None]
        /\ memories' = [memories EXCEPT ![id] = m]
        /\ audit' = [audit EXCEPT ![id] = "promoted"]
        /\ inbox \subseteq inbox' /\ inbox' \subseteq inbox \cup {id}
        /\ UNCHANGED <<acks, now, calls, writes, deleted, source>>
    BY <1>4 DEF Promote, goOn, canPromote, recorded
  <2>3. inbox' \subseteq Events \cup Ids
    BY <1>2, <2>2 DEF Inv, Types
  <2> HIDE DEF id, c, next, m
  <2> QED
    BY <1>2, <1>3, <2>1, <2>2, <2>3, MoveStep
<1>5. CASE KeepInvalid(a)
  <2>1. go(a, next) /\ UNCHANGED <<tables, acks, now, calls, writes, deleted, source>>
    BY <1>5 DEF KeepInvalid, goOn
  <2>2. calls' \in 0..MaxCalls /\ writes' \in 0..MaxWrites
    BY <2>1 DEF Inv, Types
  <2> QED
    BY <1>3, <2>1, <2>2, JobStep
<1>6. CASE Settle(a)
  <2> DEFINE to == settled(job[a].promote)
             k == [candidates[id] EXCEPT !.state = to]
  <2>1. to \in States
    BY DEF settled, States
  <2>2. /\ go(a, next)
        /\ candidates[id] # None
        /\ candidates' = [candidates EXCEPT ![id] = k]
        /\ audit' = [audit EXCEPT ![id] = to]
        /\ UNCHANGED <<inbox, memories, acks, now, calls, writes, deleted, source>>
    BY <1>6 DEF Settle, goOn, recorded, recordedState
  <2>3. k \in Candidate /\ k # None /\ k.state = to
    BY <1>2, <2>1, <2>2, IntakeAssumption DEF Inv, Types, Candidate
  <2>4. memories[id] = None /\ memories' = [memories EXCEPT ![id] = None]
    BY <1>2, <2>2 DEF Inv, Types, AuditTellsPlace
  <2>5. inbox' \subseteq Events \cup Ids
    BY <2>2 DEF Inv, Types
  <2> HIDE DEF id, next, to, k
  <2> QED
    BY <1>2, <1>3, <2>1, <2>2, <2>3, <2>4, <2>5, MoveStep
<1> QED
  BY <1>4, <1>5, <1>6

\* A demotion finds the memory where it read it, or does nothing.
LEMMA DemoteStep == ASSUME Inv, NEW a \in Actors, DemoteCommit(a) PROVE Inv'
<1>1. job[a] \in Demoting
  BY JobKinds DEF DemoteCommit, Inv, Types
<1> DEFINE id == job[a].id
           c == newCandidate(job[a].memory.text, TRUE, None, "held")
<1>2. id \in Ids /\ job[a].memory.text \in Texts
  BY <1>1 DEF Demoting, Memory
<1>3. c \in Candidate /\ c # None /\ c.state = "held"
  BY <1>2, NewCandidateType DEF Inv, Types, States
<1>4. /\ go(a, Idle) /\ memories[id] # None
      /\ candidates' = [candidates EXCEPT ![id] = c]
      /\ memories' = [memories EXCEPT ![id] = None]
      /\ audit' = [audit EXCEPT ![id] = "held"]
      /\ UNCHANGED <<inbox, acks, now, calls, writes, deleted, source>>
  BY DEF DemoteCommit, recorded
<1>5. "held" \in States /\ Idle \in Jobs /\ inbox' \subseteq Events \cup Ids
  BY <1>4 DEF States, Jobs, Inv, Types
<1> HIDE DEF id, c
<1> QED
  BY <1>2, <1>3, <1>4, <1>5, StatesAreStates, MoveStep

----------------------------------------------------------------------------
\* The memory service, the acknowledgements and time.
LEMMA EnvironmentStep ==
    ASSUME Inv,
           \/ \E id \in Ids, t \in Texts, claimed \in BOOLEAN : Rewrite(id, t, claimed)
           \/ \E id \in Ids : Delete(id)
           \/ \E id \in Ids, s \in Sessions \cup {None} : Acknowledge(id, s)
           \/ Tick
           \/ UNCHANGED vars
    PROVE  Inv'
<1> USE DEF tables
<1>1. ASSUME NEW id \in Ids, NEW t \in Texts, NEW claimed \in BOOLEAN, Rewrite(id, t, claimed)
      PROVE  Inv'
  <2> DEFINE m == [text |-> t, claimed |-> claimed]
  <2>1. m \in Memory /\ m # None
    BY IntakeAssumption DEF Memory
  <2>2. /\ writes' \in 0..MaxWrites /\ memories[id] # None
        /\ memories' = [memories EXCEPT ![id] = m]
        /\ UNCHANGED <<inbox, candidates, audit, acks, now, job, calls, source, deleted>>
    BY <1>1, IntakeAssumption DEF Rewrite, write, Inv, Types
  <2>3. Types' /\ StagedOnce' /\ MaterializedOnce'
    BY <2>1, <2>2 DEF Inv, Types, StagedOnce, isStaged, MaterializedOnce
  <2>4. AuditTellsPlace' /\ DeletedStaysDeleted'
    BY <2>1, <2>2 DEF Inv, Types, AuditTellsPlace, place, DeletedStaysDeleted
  <2>5. UsedIdsAreKnown'
    BY <2>1, <2>2 DEF Inv, Types, UsedIdsAreKnown, unused
  <2> QED
    BY <2>3, <2>4, <2>5 DEF Inv
<1>2. ASSUME NEW id \in Ids, Delete(id) PROVE Inv'
  <2>2. /\ writes' \in 0..MaxWrites /\ memories[id] # None
        /\ memories' = [memories EXCEPT ![id] = None] /\ deleted' = deleted \cup {id}
        /\ UNCHANGED <<inbox, candidates, audit, acks, now, job, calls, source>>
    BY <1>2, IntakeAssumption DEF Delete, write, Inv, Types
  <2>3. Types' /\ StagedOnce' /\ MaterializedOnce'
    BY <2>2 DEF Inv, Types, StagedOnce, isStaged, MaterializedOnce
  <2>4. AuditTellsPlace' /\ DeletedStaysDeleted'
    BY <2>2 DEF Inv, Types, AuditTellsPlace, place, DeletedStaysDeleted
  <2>5. UsedIdsAreKnown'
    BY <2>2 DEF Inv, Types, UsedIdsAreKnown, unused
  <2> QED
    BY <2>3, <2>4, <2>5 DEF Inv
<1>3. ASSUME NEW id \in Ids, NEW s \in Sessions \cup {None}, Acknowledge(id, s) PROVE Inv'
  <2> DEFINE ack == [checkpoint |-> Cardinality(acks), record |-> id, session |-> s, at |-> now]
  <2>1. acks' = acks \cup {ack} /\ UNCHANGED <<tables, now, job, calls, writes, deleted, source>>
    BY <1>3 DEF Acknowledge
  <2>2. IsFiniteSet(acks) /\ Cardinality(acks) \in Nat
    BY FS_CardinalityType DEF Inv, Types
  <2>3. IsFiniteSet(acks')
    BY <2>1, <2>2, FS_AddElement
  <2>4. Types'
    BY <2>1, <2>2, <2>3 DEF Inv, Types
  <2> QED
    BY <2>1, <2>4 DEF Inv, AuditTellsPlace, place, DeletedStaysDeleted, MaterializedOnce,
       UsedIdsAreKnown, unused, StagedOnce, isStaged
<1>4. CASE Tick
  <2>1. Types'
    BY <1>4, IntakeAssumption DEF Tick, Inv, Types
  <2> QED
    BY <1>4, <2>1 DEF Tick, Inv, AuditTellsPlace, place, DeletedStaysDeleted,
       MaterializedOnce, UsedIdsAreKnown, unused, StagedOnce, isStaged
<1>5. CASE UNCHANGED vars
  BY <1>5 DEF vars, Inv, Types, AuditTellsPlace, place, DeletedStaysDeleted,
     MaterializedOnce, UsedIdsAreKnown, unused, StagedOnce, isStaged
<1> QED
  BY <1>1, <1>2, <1>3, <1>4, <1>5

\* An interrupted call leaves the tables as they are.
LEMMA InterruptStep == ASSUME Inv, NEW a \in Actors, Interrupt(a) PROVE Inv'
<1>1. go(a, Idle) /\ UNCHANGED <<tables, acks, now, calls, writes, deleted, source>>
  BY DEF Interrupt
<1>2. Idle \in Jobs /\ calls' \in 0..MaxCalls /\ writes' \in 0..MaxWrites
  BY <1>1 DEF Jobs, Inv, Types
<1> QED
  BY <1>1, <1>2, StatesAreStates, JobStep

\* The invariant is inductive.
LEMMA NextInv == Inv /\ [Next]_vars => Inv'
BY StageStep, LookUpStep, MaterializeStep, CreateStep, ReadStep, ActStep, DemoteStep, InterruptStep,
   EnvironmentStep DEF Next

\* The invariant holds in every behaviour.
LEMMA Invariance == Spec => []Inv
BY InitInv, NextInv, PTL DEF Spec

----------------------------------------------------------------------------
\* The intake keeps its types; no process stages what is not in the inbox.
THEOREM TypeCorrect == Spec => []TypeOK
<1>1. Inv => TypeOK
  <2> SUFFICES ASSUME Inv PROVE TypeOK
    OBVIOUS
  <2>1. ASSUME NEW a \in Actors, job[a] \in Staged
        PROVE  /\ job[a] \in [op: {"staged"}, event: inbox \cap Events, isNew: BOOLEAN]
               /\ job[a].isNew => Content[job[a].event].text # None
    BY <2>1 DEF Inv, StagedOnce, isStaged, Staged
  <2> QED
    BY <2>1 DEF Inv, Types, TypeOK, Jobs, Queue, Acting, Demoting
<1> QED
  BY <1>1, Invariance, PTL

\* Whatever two processes read before each other's commits and wherever a call
\* is cut short, the audit says where an id is and no id is in both tables
\* (promoteCandidate, evaluateAndAct, demoteManual).
THEOREM AuditIsRight == Spec => []AuditTellsPlace
BY Invariance, PTL DEF Inv

\* A deleted memory is never brought back (promoteCandidate, demoteManual).
THEOREM DeletedIsFinal == Spec => []DeletedStaysDeleted
BY Invariance, PTL DEF Inv

\* An event makes one candidate at most (stageIngestEvent, materializeCandidate).
THEOREM OneCandidatePerEvent == Spec => []MaterializedOnce
BY Invariance, PTL DEF Inv

----------------------------------------------------------------------------
(* Every id is a record by itself. *)

\* Where an id is can be told from the two tables.
LEMMA StageOf ==
    ASSUME Inv, NEW id \in Ids
    PROVE  /\ stageOf(id) = IF id \in deleted THEN "deleted"
                            ELSE IF memories[id] # None THEN "promoted"
                            ELSE IF candidates[id] # None THEN candidates[id].state
                            ELSE "unused"
           /\ candidates[id] # None =>
                 stageOf(id) \in States /\ memories[id] = None /\ id \notin deleted
           /\ memories[id] # None => id \notin deleted
           /\ stageOf(id) = "unused" => audit[id] = None
<1>1. stageOf(id) = IF id \in deleted THEN "deleted"
                    ELSE IF memories[id] # None THEN "promoted"
                    ELSE IF candidates[id] # None THEN candidates[id].state
                    ELSE "unused"
  BY DEF stageOf, unused, place
<1>2. candidates[id] # None => memories[id] = None /\ candidates[id].state \in States
  BY DEF Inv, Types, AuditTellsPlace, Candidate
<1>3. candidates[id] # None \/ memories[id] # None => id \notin deleted
  BY DEF Inv, DeletedStaysDeleted
<1>4. stageOf(id) = "unused" => id \in unused
  BY <1>1, <1>2 DEF unused, States
<1> QED
  BY <1>1, <1>2, <1>3, <1>4 DEF Inv, UsedIdsAreKnown

\* The same after a step.
LEMMA StageAfter ==
    ASSUME Inv', NEW id \in Ids
    PROVE  stageOf(id)' = IF id \in deleted' THEN "deleted"
                          ELSE IF memories'[id] # None THEN "promoted"
                          ELSE IF candidates'[id] # None THEN candidates'[id].state
                          ELSE "unused"
BY DEF stageOf, unused, place

\* A step that changes no entry of an id does not move it.
LEMMA RecordStays ==
    ASSUME NEW id, candidates'[id] = candidates[id], memories'[id] = memories[id],
           audit'[id] = audit[id], id \in deleted' <=> id \in deleted, id \in Ids
    PROVE  [Record(id)!Next]_(Record(id)!vars)
<1>1. stageOf(id)' = stageOf(id)
  BY DEF stageOf, unused, place
<1>2. entryOf(id)' = entryOf(id)
  BY DEF entryOf
<1> QED
  BY <1>1, <1>2 DEF Record!vars

\* An audited move is one of the record.
LEMMA RecordMoves ==
    ASSUME Inv, Inv', NEW id \in Ids, NEW to \in States \cup {"promoted"},
           audit' = [audit EXCEPT ![id] = to], stageOf(id)' = to,
           \/ candidates[id] # None /\ to # "pending"
           \/ memories[id] # None /\ to = "held"
    PROVE  Record(id)!Next
<1>1. entryOf(id)' = to
  BY IntakeAssumption DEF entryOf, Inv, Types
<1>2. \/ stageOf(id) \in States /\ to # "pending"
      \/ stageOf(id) = "promoted" /\ to = "held"
  BY StageOf
<1> QED
  BY <1>1, <1>2 DEF Record!Next, Record!Settle, Record!Promote, Record!Demote,
     Record!Record, Record!States, States

\* An id that is in no table becomes a pending candidate.
LEMMA NewRecord ==
    ASSUME Inv, Inv', NEW new \in unused, NEW c, c.state = "pending", c # None,
           candidates' = [candidates EXCEPT ![new] = c],
           UNCHANGED <<memories, audit, deleted>>, NEW id \in Ids
    PROVE  [Record(id)!Next]_(Record(id)!vars)
<1>1. CASE id # new
  BY <1>1, RecordStays DEF Inv, Types
<1>2. CASE id = new
  <2>1. stageOf(id) = "unused" /\ memories[id] = None /\ id \notin deleted
    BY <1>2 DEF stageOf, unused
  <2>2. candidates'[id] = c
    BY <1>2 DEF Inv, Types, unused
  <2>3. stageOf(id)' = "pending" /\ entryOf(id)' = entryOf(id)
    BY <2>1, <2>2, StageAfter DEF entryOf
  <2> QED
    BY <2>1, <2>3 DEF Record!Next, Record!Create
<1> QED
  BY <1>1, <1>2

\* What an evaluation or a demotion does in its transaction.
LEMMA ActMoves ==
    ASSUME Inv, Inv', NEW a \in Actors, Promote(a) \/ Settle(a) \/ DemoteCommit(a),
           NEW id \in Ids
    PROVE  [Record(id)!Next]_(Record(id)!vars)
<1> DEFINE moved == job[a].id
<1>1. job[a] \in Acting \cup Demoting
  BY JobKinds DEF Promote, Settle, DemoteCommit, acting, Inv, Types
<1>2. moved \in Ids
  BY <1>1 DEF Acting, Demoting
<1>3. /\ candidates' = [candidates EXCEPT ![moved] = candidates'[moved]]
      /\ memories' = [memories EXCEPT ![moved] = memories'[moved]]
      /\ audit' = [audit EXCEPT ![moved] = audit'[moved]]
      /\ deleted' = deleted
  BY <1>2 DEF Promote, Settle, DemoteCommit, recorded, Inv, Types
<1>4. CASE id # moved
  BY <1>3, <1>4, RecordStays DEF Inv, Types
<1>5. ASSUME id = moved PROVE Record(id)!Next
  <2>1. CASE Promote(a)
    <3>1. /\ candidates[id] # None /\ memories'[id] # None
          /\ audit' = [audit EXCEPT ![id] = "promoted"]
      <4>1. memories'[id] = [text |-> job[a].candidate.text, claimed |-> FALSE]
        BY <1>2, <1>5, <2>1 DEF Promote, Inv, Types
      <4>2. job[a].candidate \in Candidate
        BY <1>1, <2>1, JobKinds DEF Promote, acting, Acting, Inv, Types
      <4>3. memories'[id] \in Memory
        BY <4>1, <4>2 DEF Memory, Candidate
      <4> QED
        BY <1>5, <2>1, <4>3, IntakeAssumption DEF Promote, canPromote, recorded
    <3>2. id \notin deleted'
      BY <1>3, <3>1, StageOf
    <3> QED
      BY <3>1, <3>2, StageAfter, RecordMoves
  <2>2. CASE Settle(a)
    <3> DEFINE to == settled(job[a].promote)
    <3>1. to \in States \ {"pending"}
      BY DEF settled, States
    <3>2. /\ candidates[id] # None
          /\ candidates' = [candidates EXCEPT ![id].state = to]
          /\ audit' = [audit EXCEPT ![id] = to] /\ UNCHANGED <<memories, deleted>>
      BY <1>5, <2>2 DEF Settle, recorded, recordedState
    <3>3. candidates[id] \in Candidate /\ memories[id] = None /\ id \notin deleted
      BY <3>2, StageOf DEF Inv, Types
    <3>4. candidates'[id] \in Candidate /\ candidates'[id].state = to
      BY <3>1, <3>2, <3>3 DEF Candidate, Inv, Types
    <3> HIDE DEF to
    <3>5. stageOf(id)' = to
      BY <3>2, <3>3, <3>4, StageAfter, IntakeAssumption
    <3> QED
      BY <3>1, <3>2, <3>5, RecordMoves
  <2>3. CASE DemoteCommit(a)
    <3>1. /\ memories[id] # None /\ memories'[id] = None
          /\ candidates'[id].state = "held"
          /\ audit' = [audit EXCEPT ![id] = "held"]
      BY <1>2, <1>5, <2>3 DEF DemoteCommit, recorded, newCandidate, Inv, Types
    <3>2. id \notin deleted' /\ candidates'[id] # None
      <4>1. job[a].memory.text \in Texts
        BY <1>1, <2>3, JobKinds DEF DemoteCommit, Demoting, Memory, Inv, Types
      <4>2. newCandidate(job[a].memory.text, TRUE, None, "held") # None
        BY <4>1, NewCandidateType DEF Inv, Types, States
      <4>3. id \notin deleted'
        BY <1>3, <3>1, StageOf
      <4> QED
        BY <1>2, <1>5, <2>3, <4>2, <4>3 DEF DemoteCommit, Inv, Types
    <3>3. stageOf(id)' = "held" /\ "held" \in States
      BY <3>1, <3>2, StageAfter DEF States
    <3> QED
      BY <3>1, <3>3, RecordMoves
  <2> QED
    BY <2>1, <2>2, <2>3
<1> QED
  BY <1>4, <1>5

\* What the memory service does with a memory is not recorded; a deletion ends it.
LEMMA WriteMoves ==
    ASSUME Inv, Inv', NEW m \in Ids, NEW id \in Ids,
           Delete(m) \/ \E t \in Texts, claimed \in BOOLEAN : Rewrite(m, t, claimed)
    PROVE  [Record(id)!Next]_(Record(id)!vars)
<1>1. /\ memories[m] # None /\ UNCHANGED <<candidates, audit>>
      /\ \A n \in Ids \ {m} : memories'[n] = memories[n] /\ (n \in deleted' <=> n \in deleted)
  BY DEF Delete, Rewrite, write, Inv, Types
<1>2. CASE id # m
  BY <1>1, <1>2, RecordStays
<1>3. ASSUME id = m, Delete(m) PROVE Record(id)!Next
  <2>1. stageOf(id) = "promoted" /\ stageOf(id)' = "deleted"
    BY <1>1, <1>3, StageOf, StageAfter DEF Delete
  <2>2. entryOf(id)' = entryOf(id)
    BY <1>1 DEF entryOf
  <2> QED
    BY <2>1, <2>2 DEF Record!Next, Record!Delete
<1>4. ASSUME id = m, NEW t \in Texts, NEW claimed \in BOOLEAN, Rewrite(m, t, claimed)
      PROVE  UNCHANGED Record(id)!vars
  <2>1. [text |-> t, claimed |-> claimed] # None
    BY IntakeAssumption DEF Memory
  <2>2. memories'[id] # None /\ deleted' = deleted
    BY <1>4, <2>1 DEF Rewrite, Inv, Types
  <2>3. stageOf(id) = "promoted" /\ stageOf(id)' = "promoted"
    BY <1>1, <1>4, <2>2, StageOf, StageAfter
  <2> QED
    BY <1>1, <2>3 DEF entryOf, Record!vars
<1> QED
  BY <1>2, <1>3, <1>4

\* Every step is, to each id, a move of its record or none.
LEMMA StepMoves ==
    ASSUME Inv, [Next]_vars, NEW id \in Ids
    PROVE  [Record(id)!Next]_(Record(id)!vars)
<1>1. Inv'
  BY NextInv
<1>2. ASSUME NEW a \in Actors, Materialize(a) PROVE [Record(id)!Next]_(Record(id)!vars)
  <2> DEFINE c == Content[job[a].event]
             made == newCandidate(c.text, c.kind = "tool", keyOf(c), "pending")
  <2>1. made.state = "pending" /\ made # None
    BY <1>2, EventCandidate DEF Materialize
  <2>2. PICK new \in unused : candidates' = [candidates EXCEPT ![new] = made]
    BY <1>2 DEF Materialize
  <2> HIDE DEF made
  <2> QED
    BY <1>1, <1>2, <2>1, <2>2, NewRecord DEF Materialize
<1>3. ASSUME NEW a \in Actors, NEW new \in Ids, NEW t \in Texts, CreateCandidate(a, new, t)
      PROVE  [Record(id)!Next]_(Record(id)!vars)
  <2> DEFINE made == newCandidate(t, TRUE, None, "pending")
  <2>1. made.state = "pending" /\ made # None
    BY NewCandidateType DEF Inv, Types, States
  <2>2. new \in unused /\ candidates' = [candidates EXCEPT ![new] = made]
    BY <1>3 DEF CreateCandidate
  <2> HIDE DEF made
  <2> QED
    BY <1>1, <1>3, <2>1, <2>2, NewRecord DEF CreateCandidate
<1>4. ASSUME NEW a \in Actors, Promote(a) \/ Settle(a) \/ DemoteCommit(a)
      PROVE  [Record(id)!Next]_(Record(id)!vars)
  BY <1>1, <1>4, ActMoves
<1>5. ASSUME NEW m \in Ids,
             Delete(m) \/ \E t \in Texts, claimed \in BOOLEAN : Rewrite(m, t, claimed)
      PROVE  [Record(id)!Next]_(Record(id)!vars)
  BY <1>1, <1>5, WriteMoves
<1>6. CASE UNCHANGED <<candidates, memories, audit, deleted>>
  BY <1>6, RecordStays
<1>7. ASSUME NEW a \in Actors,
             \/ \E e \in Events : Stage(a, e)
             \/ LookUp(a) \/ Sweep(a) \/ EvaluateNext(a) \/ KeepInvalid(a) \/ Interrupt(a)
             \/ \E i \in Ids, trigger \in {"manual", "policy"} : Call(a, i, trigger)
             \/ \E i \in Ids : Demote(a, i)
      PROVE  UNCHANGED <<candidates, memories, audit, deleted>>
  BY <1>7 DEF Stage, LookUp, Sweep, EvaluateNext, KeepInvalid, Interrupt, Call, Demote, tables
<1>8. ASSUME \/ \E i \in Ids, s \in Sessions \cup {None} : Acknowledge(i, s)
             \/ Tick \/ UNCHANGED vars
      PROVE  UNCHANGED <<candidates, memories, audit, deleted>>
  BY <1>8 DEF Acknowledge, Tick, vars, tables
<1> QED
  BY <1>2, <1>3, <1>4, <1>5, <1>6, <1>7, <1>8 DEF Next

\* To each id the interleaved transactions of all processes are moves of its record
\* (promoteCandidate, evaluateAndAct, demoteManual).
THEOREM RecordsFollowed == Spec => RecordsMove
<1> DEFINE Follow == \A id \in Ids : [Record(id)!Next]_(Record(id)!vars)
<1>1. Inv /\ [Next]_vars => [Follow]_vars
  BY StepMoves
<1> HIDE DEF Follow
<1>2. Spec => [][Follow]_vars
  BY <1>1, Invariance, PTL DEF Spec
<1> QED
  BY <1>2 DEF Follow, RecordsMove

\* The whole life of each id is one of CandidateRecord.
THEOREM RecordRefined == ASSUME NEW id \in Ids PROVE Spec => Record(id)!Spec
<1>1. Init => Record(id)!Init
  BY DEF Init, stageOf, entryOf, unused, place, Record!Init
<1>2. Inv /\ [Next]_vars => [Record(id)!Next]_(Record(id)!vars)
  BY StepMoves
<1> QED
  BY <1>1, <1>2, Invariance, PTL DEF Spec, Record!Spec

\* An audit entry is true until the id is deleted, and only what was promoted or
\* never audited is deleted.
THEOREM EntriesAreTrue == ASSUME NEW id \in Ids PROVE Spec => []Record(id)!EntryIsTrue
<1>1. Record(id)!Init => Record(id)!EntryIsTrue
  BY DEF Record!Init, Record!EntryIsTrue, Record!States
<1>2. Record(id)!EntryIsTrue /\ [Record(id)!Next]_(Record(id)!vars) => Record(id)!EntryIsTrue'
  BY DEF Record!EntryIsTrue, Record!Next, Record!Create, Record!Settle, Record!Promote,
     Record!Demote, Record!Delete, Record!Record, Record!States, Record!vars
<1> QED
  BY <1>1, <1>2, RecordRefined, PTL DEF Record!Spec
=============================================================================
