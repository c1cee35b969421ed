------------------------ MODULE RetrievalLoopProofs ------------------------
(***************************************************************************)
(* The retrieval loop keeps its promises for any hosts, requests, digests, *)
(* deadlines and guardrails, and any number of checkpoints.  What is known *)
(* of the breaker's helpers comes from CircuitBreakerProofs.               *)
(***************************************************************************)
EXTENDS RetrievalLoop, TLAPS

B == INSTANCE CircuitBreakerProofs WITH log <- <<>>, MaxEvents <- 0

\* The breaker's calls keep its entry well formed.
LEMMA Calls ==
    /\ B!WellFormed(Breaker!createDefaultSurfaceState)
    /\ \A e : B!WellFormed(e) => e \in Breaker!Entry
    /\ \A e, t : B!WellFormed(e) /\ t \in Nat =>
         /\ B!WellFormed(Breaker!afterStatus(e, t))
         /\ B!WellFormed(Breaker!afterCheckpoint(e, t))
         /\ \A s \in Sufficiency : B!WellFormed(Breaker!afterAck(e, s, t))
<1> USE LoopAssumption
<1>1. B!WellFormed(Breaker!createDefaultSurfaceState)
  BY B!FreshWellFormed DEF B!createDefaultSurfaceState, Breaker!createDefaultSurfaceState
<1>2. \A e : B!WellFormed(e) => e \in Breaker!Entry
  BY DEF B!WellFormed, B!Counted, B!Entry, Breaker!Entry, B!States, Breaker!States,
         B!Sample, Breaker!Sample, B!SampleKinds, Breaker!SampleKinds,
         B!Sufficiency, Breaker!Sufficiency
<1>3. ASSUME NEW e, NEW t \in Nat, B!WellFormed(e)
      PROVE  /\ B!WellFormed(B!afterStatus(e, t))
             /\ B!WellFormed(B!afterCheckpoint(e, t))
             /\ \A s \in B!Sufficiency : B!WellFormed(B!afterAck(e, s, t))
  BY <1>3, B!CallsWellFormed
<1>4. \A S : B!Cardinality(S) = Breaker!Cardinality(S)
  BY DEF B!Cardinality, Breaker!Cardinality
<1>5. \A e, t : B!pruneWindow(e, t) = Breaker!pruneWindow(e, t)
  <2>1. \A e : B!maybeCompactSamples(e) = Breaker!maybeCompactSamples(e)
    BY DEF B!maybeCompactSamples, Breaker!maybeCompactSamples
  <2>2. \A e, t : B!newHead(e, t) = Breaker!newHead(e, t)
    BY <1>4 DEF B!newHead, Breaker!newHead
  <2>3. \A kinds, list, from, to :
          B!countIn(kinds, list, from, to) = Breaker!countIn(kinds, list, from, to)
    BY <1>4 DEF B!countIn, Breaker!countIn
  <2>4. /\ B!Checkpoints = Breaker!Checkpoints /\ B!Acks = Breaker!Acks
        /\ B!Sufficient = Breaker!Sufficient /\ B!Followups = Breaker!Followups
    BY DEF B!Checkpoints, Breaker!Checkpoints, B!Acks, Breaker!Acks, B!Sufficient,
           Breaker!Sufficient, B!Followups, Breaker!Followups, B!Sufficiency,
           Breaker!Sufficiency
  <2> QED
    BY <2>1, <2>2, <2>3, <2>4 DEF B!pruneWindow, Breaker!pruneWindow
<1>6. \A e, t : B!syncEntry(e, t) = Breaker!syncEntry(e, t)
  <2>1. \A t : B!minTimestamp(t) = Breaker!minTimestamp(t)
    BY DEF B!minTimestamp, Breaker!minTimestamp
  <2> QED
    BY <1>5, <2>1 DEF B!syncEntry, Breaker!syncEntry, B!maybeAdvanceToCooldown,
       Breaker!maybeAdvanceToCooldown
<1>7. \A e, s : B!addSample(e, s) = Breaker!addSample(e, s)
  BY DEF B!addSample, Breaker!addSample, B!Checkpoints, Breaker!Checkpoints,
         B!Followups, Breaker!Followups
<1>8. /\ \A e, t : B!afterStatus(e, t) = Breaker!afterStatus(e, t)
      /\ \A e, t : B!afterCheckpoint(e, t) = Breaker!afterCheckpoint(e, t)
      /\ \A e, s, t : B!afterAck(e, s, t) = Breaker!afterAck(e, s, t)
  <2>1. \A e, t : B!maybeTripSurface(e, t) = Breaker!maybeTripSurface(e, t)
    BY DEF B!maybeTripSurface, Breaker!maybeTripSurface, B!lowAckRate,
       Breaker!lowAckRate, B!highFollowupRate, Breaker!highFollowupRate
  <2>2. \A e, s : B!maybeCloseFromCooldown(e, s) = Breaker!maybeCloseFromCooldown(e, s)
    BY DEF B!maybeCloseFromCooldown, Breaker!maybeCloseFromCooldown,
       B!closeSurfaceState, Breaker!closeSurfaceState, B!createDefaultSurfaceState,
       Breaker!createDefaultSurfaceState
  <2>3. \A e, t : B!maybeAdvanceToCooldown(e, t) = Breaker!maybeAdvanceToCooldown(e, t)
    BY DEF B!maybeAdvanceToCooldown, Breaker!maybeAdvanceToCooldown
  <2> QED
    BY <1>6, <1>7, <2>1, <2>2, <2>3 DEF B!afterStatus, Breaker!afterStatus,
       B!afterCheckpoint, Breaker!afterCheckpoint, B!afterAck, Breaker!afterAck
<1>9. Sufficiency = B!Sufficiency
  BY DEF Sufficiency, Breaker!Sufficiency, B!Sufficiency
<1> QED
  BY <1>1, <1>2, <1>3, <1>8, <1>9

----------------------------------------------------------------------------
(* The invariant.  Types, with a breaker whose counters are right; then what   *)
(* is stored was issued before, so that no new checkpoint id is named by an    *)
(* old one, and what the breaker and the host were told of an ack is what is   *)
(* on record of it.                                                           *)

Types ==
    /\ B!WellFormed(entry)
    /\ TypeOK

\* Stored checkpoints and those they continue have ids that were drawn.
StoredIsIssued ==
    \A id \in Ids : checkpoints[id] # None =>
        id \in issued /\ (checkpoints[id].prev # None => checkpoints[id].prev \in issued)

\* What was told and answered about an ack that is on record, and of no other.
RecordedAcks ==
    \A id \in Ids :
        /\ samples[id] <= 1
        /\ acks[id] = None => samples[id] = 0 /\ answers[id] = None
        /\ acks[id] # None => acks[id].at <= now
        /\ answers[id] # None =>
             answers[id] = buildResponse(acks[id].sufficiency, acks[id].overridden)

LoopInv == Types /\ StoredIsIssued /\ LineageSound /\ RecordedAcks /\ LoopGuardHolds

\* Sweeping the cache and looking up a checkpoint yield what is stored.
LEMMA Reads ==
    ASSUME Types
    PROVE  /\ swept \in [Requests -> [bundle: Bundle, expires: Nat] \cup {None}]
           /\ \A id \in Ids : getCheckpoint(id) # None =>
                getCheckpoint(id) = checkpoints[id] /\ checkpoints[id] \in Checkpoint
           /\ \A id \in Ids : \A known \in lookups(id) : known # None =>
                known = checkpoints[id] /\ known \in Checkpoint
BY DEF Types, TypeOK, swept, getCheckpoint, lookups

\* Initially nothing is stored, told or answered.
LEMMA InitLoopInv == Init => LoopInv
<1> SUFFICES ASSUME Init PROVE LoopInv
  OBVIOUS
<1>1. Types
  BY Calls DEF Init, Types, TypeOK
<1> QED
  BY <1>1 DEF Init, LoopInv, StoredIsIssued, LineageSound, RecordedAcks, LoopGuardHolds

\* A status call and the sample of a stored checkpoint leave a good breaker.
LEMMA PersistBreaker ==
    ASSUME Types, NEW id \in Ids, NEW record \in Checkpoint, NEW persisted \in BOOLEAN,
           persistCheckpoint(id, record, persisted)
    PROVE  /\ B!WellFormed(entry') /\ entry' \in Breaker!Entry
           /\ issued' = issued \cup {id}
           /\ checkpoints' \in {checkpoints, [checkpoints EXCEPT ![id] = record]}
<1>1. now \in Nat /\ B!WellFormed(entry)
  BY DEF Types, TypeOK
<1>2. B!WellFormed(status)
  BY <1>1, Calls DEF status
<1>3. B!WellFormed(Breaker!afterCheckpoint(status, now))
  BY <1>1, <1>2, Calls
<1> QED
  BY <1>2, <1>3, Calls DEF persistCheckpoint

\* A new checkpoint that starts a lineage, or continues one within the guardrails.
startsOrContinues(id, record) ==
    /\ record \in Checkpoint
    /\ \/ record.prev = None /\ record.depth = 0
       \/ /\ record.prev \in Ids /\ checkpoints[record.prev] # None
          /\ checkpoints[record.prev].depth < MaxFollowups
          /\ record.depth = checkpoints[record.prev].depth + 1
          /\ record.root = checkpoints[record.prev].root
          /\ record.session = checkpoints[record.prev].session
          /\ record.created >= checkpoints[record.prev].created + FollowupCooldown

\* Storing such a checkpoint, or failing to, keeps the invariant.
LEMMA Persist ==
    ASSUME LoopInv, NEW id \in Ids \ issued, NEW record, startsOrContinues(id, record),
           NEW persisted \in BOOLEAN, persistCheckpoint(id, record, persisted),
           cache' \in [Requests -> [bundle: Bundle, expires: Nat] \cup {None}],
           UNCHANGED <<now, acks, answers, samples, overrideFailed>>
    PROVE  LoopInv'
<1>1. Types /\ StoredIsIssued /\ LineageSound /\ record \in Checkpoint
  BY DEF LoopInv, startsOrContinues
<1>2. /\ B!WellFormed(entry') /\ entry' \in Breaker!Entry
      /\ issued' = issued \cup {id}
      /\ checkpoints' \in {checkpoints, [checkpoints EXCEPT ![id] = record]}
  BY <1>1, PersistBreaker
<1>3. checkpoints \in [Ids -> Checkpoint \cup {None}]
  BY <1>1 DEF Types, TypeOK
<1>4. Types'
  BY <1>1, <1>2, <1>3 DEF Types, TypeOK
<1>5. StoredIsIssued'
  BY <1>1, <1>2, <1>3 DEF StoredIsIssued, startsOrContinues
<1>6. LineageSound'
  <2>1. CASE checkpoints' = checkpoints
    BY <1>1, <2>1 DEF LineageSound
  <2>2. CASE checkpoints' = [checkpoints EXCEPT ![id] = record]
    <3> DEFINE Sound(r) ==
          /\ r.depth <= MaxFollowups
          /\ r.prev # None /\ checkpoints'[r.prev] # None =>
               /\ r.depth = checkpoints'[r.prev].depth + 1
               /\ r.root = checkpoints'[r.prev].root
               /\ r.session = checkpoints'[r.prev].session
               /\ r.created >= checkpoints'[r.prev].created + FollowupCooldown
    <3>1. checkpoints[id] = None
      BY <1>1 DEF StoredIsIssued
    <3>2. Sound(record)
      BY <1>1, <1>3, <2>2, <3>1, LoopAssumption DEF startsOrContinues, Checkpoint
    <3>3. ASSUME NEW c \in Ids \ {id}, checkpoints[c] # None PROVE Sound(checkpoints[c])
      BY <1>1, <1>3, <2>2, <3>3 DEF LineageSound, StoredIsIssued
    <3> QED
      BY <1>3, <2>2, <3>2, <3>3 DEF LineageSound
  <2> QED
    BY <1>2, <2>1, <2>2
<1>7. RecordedAcks' /\ LoopGuardHolds'
  BY DEF LoopInv, RecordedAcks, LoopGuardHolds, buildResponse
<1> QED
  BY <1>4, <1>5, <1>6, <1>7 DEF LoopInv

----------------------------------------------------------------------------
(* The steps. *)

\* A fresh checkpoint of a request starts a lineage.
LEMMA NewStarts ==
    ASSUME Types, NEW id \in Ids, NEW session \in Sessions, NEW digest \in Digests
    PROVE  startsOrContinues(id, newCheckpoint(id, session, digest))
BY DEF startsOrContinues, newCheckpoint, Checkpoint, Types, TypeOK

\* A resolve, from the cache or from the sources, keeps the invariant.
LEMMA ResolveStep ==
    ASSUME LoopInv, NEW id \in Ids, NEW r \in Requests,
           ResolveCached(id, r) \/ ResolveFresh(id, r)
    PROVE  LoopInv'
<1> DEFINE Cache == [Requests -> [bundle: Bundle, expires: Nat] \cup {None}]
<1>0. Types /\ SessionOf[r] \in Sessions /\ swept \in Cache /\ breakerOpen \in BOOLEAN
      /\ now \in Nat
  BY LoopAssumption, Reads DEF LoopInv, breakerOpen, Types, TypeOK
<1>1. CASE ResolveCached(id, r)
  <2>1. PICK persisted \in BOOLEAN :
          /\ id \notin issued
          /\ swept[r] # None
          /\ persistCheckpoint(id,
                 newCheckpoint(id, SessionOf[r], cachedAnswer(r).digest), persisted)
          /\ cache' = swept
          /\ UNCHANGED <<now, acks, answers, samples, overrideFailed>>
    BY <1>1 DEF ResolveCached
  <2>2. cachedAnswer(r).digest \in Digests
    BY <1>0, <2>1 DEF cachedAnswer, Bundle
  <2> QED
    BY <1>0, <2>1, <2>2, NewStarts, Persist
<1>2. CASE ResolveFresh(id, r)
  <2>1. PICK digest \in Served, persisted \in BOOLEAN :
          /\ id \notin issued
          /\ cache' = [swept EXCEPT ![r] =
                [bundle |-> [digest |-> digest, signal |-> breakerOpen],
                 expires |-> now + CacheTtl]]
          /\ persistCheckpoint(id, newCheckpoint(id, SessionOf[r], digest), persisted)
          /\ UNCHANGED <<now, acks, answers, samples, overrideFailed>>
    BY <1>2 DEF ResolveFresh
  <2>2. digest \in Digests
    BY LoopAssumption
  <2>3. [bundle |-> [digest |-> digest, signal |-> breakerOpen], expires |-> now + CacheTtl]
          \in [bundle: Bundle, expires: Nat]
    BY <1>0, <2>2, LoopAssumption DEF Bundle
  <2>4. cache' \in Cache
    BY <1>0, <2>1, <2>3
  <2> HIDE DEF Cache
  <2>5. startsOrContinues(id, newCheckpoint(id, SessionOf[r], digest))
    BY <1>0, <2>2, NewStarts
  <2> QED
    BY <2>1, <2>4, <2>5, Persist DEF Cache
<1> QED
  BY <1>1, <1>2

\* So does a followup resolve.
LEMMA FollowupStep ==
    ASSUME LoopInv, NEW id \in Ids, NEW session \in Sessions, NEW prev \in Ids,
           ResolveFollowup(id, session, prev)
    PROVE  LoopInv'
<1>0. Types /\ cache \in [Requests -> [bundle: Bundle, expires: Nat] \cup {None}]
      /\ now \in Nat
  BY DEF LoopInv, Types, TypeOK
<1>1. PICK digest \in Served, persisted \in BOOLEAN :
        /\ id \notin issued
        /\ followupAllowed(session, prev)
        /\ persistCheckpoint(id, followupCheckpoint(id, session, digest, prev), persisted)
        /\ UNCHANGED <<now, cache, acks, answers, samples, overrideFailed>>
  BY DEF ResolveFollowup
<1>2. /\ checkpoints[prev] # None /\ checkpoints[prev] \in Checkpoint
      /\ checkpoints[prev].session = session
      /\ now >= checkpoints[prev].created + FollowupCooldown
      /\ checkpoints[prev].depth < MaxFollowups
  BY <1>0, <1>1, Reads DEF followupAllowed
<1>3. startsOrContinues(id, followupCheckpoint(id, session, digest, prev))
  <2> DEFINE old == checkpoints[prev]
             record == followupCheckpoint(id, session, digest, prev)
             base == newCheckpoint(id, session, digest)
  <2>1. base \in Checkpoint /\ base.session = session /\ base.created = now
    BY <1>0, LoopAssumption, NewStarts DEF startsOrContinues, newCheckpoint
  <2>2. old.root \in Ids /\ old.depth \in Nat /\ digest \in Digests
    BY <1>2, LoopAssumption DEF Checkpoint
  <2> DEFINE linked == [base EXCEPT !.prev = prev]
             rooted == [linked EXCEPT !.root = old.root]
  <2>3. record = [rooted EXCEPT !.depth = old.depth + 1]
    BY DEF followupCheckpoint
  <2> HIDE DEF record, base
  <2>4. linked \in Checkpoint /\ linked.prev = prev
        /\ linked.session = session /\ linked.created = now
    BY <2>1 DEF Checkpoint
  <2> HIDE DEF linked
  <2>5. rooted \in Checkpoint /\ rooted.prev = prev /\ rooted.root = old.root
        /\ rooted.session = session /\ rooted.created = now
    BY <2>2, <2>4 DEF Checkpoint
  <2> HIDE DEF rooted
  <2>6. record \in Checkpoint /\ record.prev = prev /\ record.root = old.root
        /\ record.session = session /\ record.created = now /\ record.depth = old.depth + 1
    BY <2>2, <2>3, <2>5 DEF Checkpoint
  <2> QED
    BY <1>2, <2>6 DEF startsOrContinues, record
<1> QED
  BY <1>0, <1>1, <1>3, Persist

\* A first ack leaves one sample, and the answer that is on record; the loop
\* guard has seen the acks it would make two with.
LEMMA FirstAckStep ==
    ASSUME LoopInv, NEW id \in Ids, NEW digest \in Digests, NEW tier \in HostTiers,
           NEW sufficiency \in Claims, AckFirst(id, digest, tier, sufficiency)
    PROVE  LoopInv'
<1>0. Types /\ RecordedAcks /\ LoopGuardHolds /\ now \in Nat
      /\ acks \in [Ids -> Ack \cup {None}]
  BY DEF LoopInv, Types, TypeOK
<1>1. PICK known \in lookups(id), overridden \in BOOLEAN :
        /\ acks[id] = None
        /\ acks' = [acks EXCEPT ![id] =
                [digest |-> digest, tier |-> tier, session |-> sessionOf(known), at |-> now,
                 sufficiency |-> IF overridden THEN "needs_external" ELSE sufficiency,
                 overridden |-> overridden]]
        /\ overrideFailed' = IF loopGuardFires(id, known, sufficiency) /\ ~overridden
                             THEN overrideFailed \cup {id} ELSE overrideFailed
        /\ tellBreaker(id, known, sufficiency)
        /\ respond(id, firstAnswer(sufficiency, overridden))
        /\ UNCHANGED <<now, cache, checkpoints, issued>>
  BY DEF AckFirst, loopGuardFires
<1> DEFINE record == acks'[id]
<1>2. /\ record \in Ack /\ record # None
      /\ record.session = sessionOf(known) /\ record.at = now
      /\ record.sufficiency = IF overridden THEN "needs_external" ELSE sufficiency
      /\ record.overridden = overridden
      /\ \A other \in Ids \ {id} : acks'[other] = acks[other]
  <2>1. known = None \/ known \in Checkpoint
    BY <1>0, Reads
  <2>2. sessionOf(known) \in Sessions \cup {None}
    BY <2>1 DEF sessionOf, Checkpoint
  <2>3. overridden \in BOOLEAN /\ sufficiency \in Sufficiency /\ "needs_external" \in Sufficiency
    BY LoopAssumption DEF loopGuardFires, Sufficiency, Breaker!Sufficiency
  <2>4. [digest |-> digest, tier |-> tier, session |-> sessionOf(known), at |-> now,
         sufficiency |-> IF overridden THEN "needs_external" ELSE sufficiency,
         overridden |-> overridden] \in Ack
    BY <1>0, <2>2, <2>3 DEF Ack
  <2> QED
    BY <1>0, <1>1, <2>4, NoneAssumption
<1>3. /\ B!WellFormed(entry') /\ entry' \in Breaker!Entry
      /\ samples' \in [Ids -> Nat] /\ samples'[id] <= 1
      /\ \A other \in Ids \ {id} : samples'[other] = samples[other]
  <2>1. B!WellFormed(entry) /\ samples \in [Ids -> Nat] /\ samples[id] = 0
        /\ sufficiency \in Sufficiency
    BY <1>0, <1>1, LoopAssumption
       DEF Types, TypeOK, RecordedAcks, Sufficiency, Breaker!Sufficiency
  <2>2. B!WellFormed(Breaker!afterAck(entry, sufficiency, now))
    BY <1>0, <2>1, Calls
  <2>3. B!WellFormed(entry')
    BY <1>1, <2>1, <2>2 DEF tellBreaker
  <2> QED
    BY <1>1, <2>1, <2>3, Calls DEF tellBreaker
<1>4. /\ answers' \in [Ids -> Answers \cup {None}]
      /\ answers'[id] = buildResponse(record.sufficiency, record.overridden)
      /\ \A other \in Ids \ {id} : answers'[other] = answers[other]
  <2>1. answers \in [Ids -> Answers \cup {None}]
    BY <1>0 DEF Types, TypeOK
  <2>2. firstAnswer(sufficiency, overridden) \in Answers
    BY DEF firstAnswer, buildResponse, Answers
  <2>3. firstAnswer(sufficiency, overridden) = buildResponse(record.sufficiency, record.overridden)
    BY <1>2 DEF firstAnswer
  <2> QED
    BY <1>1, <2>1, <2>2, <2>3 DEF respond
<1> HIDE DEF record
<1>5. Types'
  <2>1. acks' \in [Ids -> Ack \cup {None}]
    BY <1>0, <1>1, <1>2 DEF record
  <2>2. overrideFailed' \subseteq Ids
    BY <1>0, <1>1 DEF Types, TypeOK
  <2> QED
    BY <1>0, <1>1, <1>3, <1>4, <2>1, <2>2 DEF Types, TypeOK
<1>6. RecordedAcks'
  <2> SUFFICES ASSUME NEW other \in Ids
               PROVE  /\ samples'[other] <= 1
                      /\ acks'[other] = None => samples'[other] = 0 /\ answers'[other] = None
                      /\ acks'[other] # None => acks'[other].at <= now'
                      /\ answers'[other] # None => answers'[other] =
                           buildResponse(acks'[other].sufficiency, acks'[other].overridden)
    BY DEF RecordedAcks, buildResponse
  <2>1. CASE other = id
    BY <1>0, <1>1, <1>2, <1>3, <1>4, <2>1 DEF record
  <2>2. CASE other # id
    BY <1>0, <1>1, <1>2, <1>3, <1>4, <2>2 DEF RecordedAcks
  <2> QED
    BY <2>1, <2>2
<1>7. LoopGuardHolds'
  <2>1. \A other \in Ids \ {id} :
          /\ acks[other] # None /\ record.session # None
          /\ acks[other].session = record.session
          /\ record.sufficiency = "needs_followup" /\ acks[other].sufficiency = "needs_followup"
          /\ now <= acks[other].at + LoopGuardWindow
          => id \in overrideFailed'
    <3> SUFFICES ASSUME NEW other \in Ids \ {id}, acks[other] # None, record.session # None,
                        acks[other].session = record.session,
                        record.sufficiency = "needs_followup",
                        acks[other].sufficiency = "needs_followup",
                        now <= acks[other].at + LoopGuardWindow
                 PROVE  id \in overrideFailed'
      OBVIOUS
    <3>1. acks[other].at \in Nat /\ LoopGuardWindow \in Nat
      BY <1>0, LoopAssumption DEF Ack
    <3>2. known # None /\ record.session = known.session /\ ~overridden
          /\ sufficiency = "needs_followup"
      BY <1>2 DEF sessionOf
    <3>3. other \in recentFollowups(id, known.session)
      BY <1>0, <3>1, <3>2 DEF recentFollowups
    <3>4. loopGuardFires(id, known, sufficiency)
      BY <3>2, <3>3 DEF loopGuardFires
    <3> QED
      BY <1>1, <3>2, <3>4
  <2>2. overrideFailed \subseteq overrideFailed'
    BY <1>1
  <2> SUFFICES ASSUME NEW first \in Ids, NEW second \in Ids, first # second,
                      acks'[first] # None, acks'[second] # None,
                      acks'[first].session # None,
                      acks'[first].session = acks'[second].session,
                      acks'[first].sufficiency = "needs_followup",
                      acks'[second].sufficiency = "needs_followup",
                      acks'[first].at <= acks'[second].at,
                      acks'[second].at <= acks'[first].at + LoopGuardWindow
               PROVE  first \in overrideFailed' \/ second \in overrideFailed'
    BY DEF LoopGuardHolds
  <2>3. CASE first # id /\ second # id
    BY <1>0, <1>2, <2>2, <2>3 DEF LoopGuardHolds
  <2>4. CASE first = id
    <3>1. acks[second].at \in Nat /\ LoopGuardWindow \in Nat /\ acks[second].at = now
      BY <1>0, <1>2, <2>4, LoopAssumption DEF Ack, RecordedAcks, record
    <3> QED
      BY <1>0, <1>2, <2>1, <2>4, <3>1 DEF record
  <2>5. CASE second = id
    BY <1>2, <2>1, <2>5 DEF record
  <2> QED
    BY <2>3, <2>4, <2>5
<1>8. StoredIsIssued' /\ LineageSound'
  BY <1>1 DEF LoopInv, StoredIsIssued, LineageSound
<1> QED
  BY <1>5, <1>6, <1>7, <1>8 DEF LoopInv

\* A repeated ack is answered from the record.
LEMMA AckAgainStep ==
    ASSUME LoopInv, NEW id \in Ids, NEW digest \in Digests, NEW tier \in HostTiers,
           AckAgain(id, digest, tier)
    PROVE  LoopInv' /\ (answers[id] # None => answers'[id] = answers[id])
<1> DEFINE answer == buildResponse(acks[id].sufficiency, acks[id].overridden)
<1>1. /\ acks[id] # None
      /\ answers' \in {answers, [answers EXCEPT ![id] = answer]}
      /\ UNCHANGED <<breaker, cache, checkpoints, acks, samples, overrideFailed, issued>>
  BY DEF AckAgain, respond
<1>2. answer \in Answers
  BY DEF buildResponse, Answers
<1>3. answers \in [Ids -> Answers \cup {None}] /\ Types /\ RecordedAcks
  BY DEF LoopInv, Types, TypeOK
<1>4. answers[id] # None => answer = answers[id]
  BY <1>3 DEF RecordedAcks
<1>5. answers'[id] \in {answers[id], answer} /\ \A other \in Ids \ {id} : answers'[other] = answers[other]
  BY <1>1, <1>3
<1> HIDE DEF answer
<1>6. Types'
  BY <1>1, <1>2, <1>3 DEF Types, TypeOK, breaker
<1>7. RecordedAcks'
  <2> SUFFICES ASSUME NEW other \in Ids
               PROVE  /\ samples'[other] <= 1
                      /\ acks'[other] = None => samples'[other] = 0 /\ answers'[other] = None
                      /\ acks'[other] # None => acks'[other].at <= now'
                      /\ answers'[other] # None => answers'[other] =
                           buildResponse(acks'[other].sufficiency, acks'[other].overridden)
    BY DEF RecordedAcks, buildResponse
  <2> QED
    BY <1>1, <1>3, <1>5 DEF RecordedAcks, breaker, answer
<1>8. StoredIsIssued' /\ LineageSound' /\ LoopGuardHolds'
  BY <1>1 DEF LoopInv, StoredIsIssued, LineageSound, LoopGuardHolds
<1> QED
  BY <1>1, <1>3, <1>4, <1>5, <1>6, <1>7, <1>8 DEF LoopInv

\* The rest changes the breaker, the cache or the clock alone.
LEMMA OtherStep ==
    ASSUME LoopInv,
           ResolveRefused \/ ResetBreaker \/ Restart \/ Tick \/ UNCHANGED vars
    PROVE  LoopInv'
<1>0. Types /\ now \in Nat /\ B!WellFormed(entry)
  BY DEF LoopInv, Types, TypeOK
<1>1. /\ entry' \in {entry, status, Breaker!createDefaultSurfaceState}
      /\ cache' \in {cache, [r \in Requests |-> None]}
      /\ now' \in {now, now + 1}
      /\ UNCHANGED <<checkpoints, acks, history>>
  BY DEF ResolveRefused, ResetBreaker, Restart, Tick, vars, breaker, Breaker!closeSurfaceState
<1>2. B!WellFormed(entry') /\ entry' \in Breaker!Entry
  BY <1>0, <1>1, Calls DEF status
<1>3. Types'
  BY <1>0, <1>1, <1>2 DEF Types, TypeOK, history
<1>4. RecordedAcks'
  <2>1. \A id \in Ids : acks[id] # None => acks[id].at \in Nat
    BY <1>0 DEF Types, TypeOK, Ack
  <2> QED
    BY <1>0, <1>1, <2>1 DEF LoopInv, RecordedAcks, history, buildResponse
<1>5. StoredIsIssued' /\ LineageSound' /\ LoopGuardHolds'
  BY <1>1 DEF LoopInv, StoredIsIssued, LineageSound, LoopGuardHolds, history
<1> QED
  BY <1>3, <1>4, <1>5 DEF LoopInv

\* Every step keeps the invariant.
LEMMA NextLoopInv == LoopInv /\ [Next]_vars => LoopInv'
<1> SUFFICES ASSUME LoopInv, [Next]_vars PROVE LoopInv'
  OBVIOUS
<1>1. ASSUME NEW id \in Ids, NEW r \in Requests, ResolveCached(id, r) \/ ResolveFresh(id, r)
      PROVE  LoopInv'
  BY <1>1, ResolveStep
<1>2. ASSUME NEW id \in Ids, NEW session \in Sessions, NEW prev \in Ids,
             ResolveFollowup(id, session, prev)
      PROVE  LoopInv'
  BY <1>2, FollowupStep
<1>3. ASSUME NEW id \in Ids, NEW digest \in Digests, AckMismatch(id, digest) \/ AckPersistFails(id, digest)
      PROVE  LoopInv'
  BY <1>3, OtherStep DEF AckMismatch, AckPersistFails, vars
<1>4. ASSUME NEW id \in Ids, NEW digest \in Digests, NEW tier \in HostTiers, AckAgain(id, digest, tier)
      PROVE  LoopInv'
  BY <1>4, AckAgainStep
<1>5. ASSUME NEW id \in Ids, NEW digest \in Digests, NEW tier \in HostTiers,
             NEW sufficiency \in Claims, AckFirst(id, digest, tier, sufficiency)
      PROVE  LoopInv'
  BY <1>5, FirstAckStep
<1>6. CASE ResolveRefused \/ ResetBreaker \/ Restart \/ Tick \/ UNCHANGED vars
  BY <1>6, OtherStep
<1> QED
  BY <1>1, <1>2, <1>3, <1>4, <1>5, <1>6 DEF Next

\* The invariant holds in every reachable state.
LEMMA LoopInvAlways == Spec => []LoopInv
BY InitLoopInv, NextLoopInv, PTL DEF Spec

----------------------------------------------------------------------------
(* The results. *)

\* Every reachable state has its declared types, the composed breaker included
\* (RetrievalOrchestrator.resolve, processUsageAck).
THEOREM LoopTyped == Spec => []TypeOK
<1>1. LoopInv => TypeOK
  BY DEF LoopInv, Types
<1> QED
  BY <1>1, LoopInvAlways, PTL

\* The breaker that the loop drives counts its window exactly, and has a trip on
\* record exactly while it is not closed, through resolves, acks, resets and
\* restarts (RetrievalOrchestrator.resolve, processUsageAck).
THEOREM LoopBreakerExact == Spec => [](Breaker!CountersMatchWindow /\ Breaker!TripRecordConsistent)
<1>1. B!WellFormed(entry) => B!CountersMatchWindow /\ B!TripRecordConsistent
  BY DEF B!WellFormed, B!Counted, B!Consistent, B!live, B!CountersMatchWindow,
         B!TripRecordConsistent
<1>2. \A kinds, list, from, to :
        B!countIn(kinds, list, from, to) = Breaker!countIn(kinds, list, from, to)
  <2>1. \A S : B!Cardinality(S) = Breaker!Cardinality(S)
    BY DEF B!Cardinality, Breaker!Cardinality
  <2> QED
    BY <2>1 DEF B!countIn, Breaker!countIn
<1>3. B!CountersMatchWindow => Breaker!CountersMatchWindow
  BY <1>2 DEF B!CountersMatchWindow, Breaker!CountersMatchWindow,
     B!Checkpoints, Breaker!Checkpoints, B!Acks, Breaker!Acks, B!Sufficient,
     Breaker!Sufficient, B!Followups, Breaker!Followups, B!Sufficiency, Breaker!Sufficiency
<1>4. B!TripRecordConsistent => Breaker!TripRecordConsistent
  BY DEF B!TripRecordConsistent, Breaker!TripRecordConsistent
<1>5. LoopInv => Breaker!CountersMatchWindow /\ Breaker!TripRecordConsistent
  BY <1>1, <1>3, <1>4 DEF LoopInv, Types
<1> QED
  BY <1>5, LoopInvAlways, PTL

\* A lineage of followups stays in one session, under one root, paced by the
\* cooldown and no longer than max_followups (the followup guards of
\* RetrievalOrchestrator.resolve).
THEOREM LineagesAreSound == Spec => []LineageSound
<1>1. LoopInv => LineageSound
  BY DEF LoopInv
<1> QED
  BY <1>1, LoopInvAlways, PTL

\* The breaker is told of a checkpoint's ack at most once, however often the
\* host retries and whatever the store answers (processUsageAck).
THEOREM OneSample == Spec => []OneSamplePerCheckpoint
<1>1. LoopInv => OneSamplePerCheckpoint
  BY DEF LoopInv, RecordedAcks, OneSamplePerCheckpoint
<1> QED
  BY <1>1, LoopInvAlways, PTL

\* The loop guard leaves no two needs_followup acks of a session in its window,
\* unless an override failed (processUsageAck).
THEOREM LoopGuardIsKept == Spec => []LoopGuardHolds
<1>1. LoopInv => LoopGuardHolds
  BY DEF LoopInv
<1> QED
  BY <1>1, LoopInvAlways, PTL

\* Once an ack has been answered, no step changes the answer.
LEMMA AnswerStep ==
    ASSUME LoopInv, [Next]_vars, NEW id \in Ids, answers[id] # None
    PROVE  answers'[id] = answers[id]
<1>0. answers \in [Ids -> Answers \cup {None}]
  BY DEF LoopInv, Types, TypeOK
<1>1. ASSUME NEW other \in Ids, NEW digest \in Digests, NEW tier \in HostTiers,
             AckAgain(other, digest, tier)
      PROVE  answers'[id] = answers[id]
  <2>1. CASE other = id
    BY <1>1, <2>1, AckAgainStep
  <2>2. CASE other # id
    BY <1>0, <1>1, <2>2 DEF AckAgain, respond
  <2> QED
    BY <2>1, <2>2
<1>2. ASSUME NEW other \in Ids, NEW digest \in Digests, NEW tier \in HostTiers,
             NEW sufficiency \in Claims, AckFirst(other, digest, tier, sufficiency)
      PROVE  answers'[id] = answers[id]
  <2>1. acks[other] = None /\ other # id
    BY <1>2 DEF AckFirst, LoopInv, RecordedAcks
  <2> QED
    BY <1>0, <1>2, <2>1 DEF AckFirst, respond
<1>3. CASE UNCHANGED answers
  BY <1>3
<1> QED
  BY <1>1, <1>2, <1>3 DEF Next, vars, history, ResolveCached, ResolveFresh, ResolveFollowup,
     AckMismatch, AckPersistFails, ResolveRefused, ResetBreaker, Restart, Tick

\* A host that repeats an ack gets the first answer again, also when the loop
\* guard overrode it or its override threw (buildResponseFromRecord).
THEOREM RetriesAreConsistent == Spec => RetryConsistent
<1>1. LoopInv /\ [Next]_vars
        => [\A id \in Ids : answers[id] # None => answers'[id] = answers[id]]_vars
  BY AnswerStep
<1> QED
  BY <1>1, LoopInvAlways, PTL DEF Spec, RetryConsistent
=============================================================================
