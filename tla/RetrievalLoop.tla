--------------------------- MODULE RetrievalLoop ---------------------------
(***************************************************************************)
(* The retrieval loop of a host: context.resolve hands out a checkpoint,   *)
(* usage.ack reports how good it was, and a followup resolve continues     *)
(* from it (src/retrieval/orchestrator.ts, resolve-cache.ts,               *)
(* src/usage/checkpoint-store.ts, ack-store.ts, usage-ack-handler.ts).     *)
(* Resolves and acks feed the circuit breaker of their surface, and every  *)
(* resolve asks it whether to halve its budget.                            *)
(*                                                                         *)
(* Both handlers are synchronous, so each call is one step.  The cache and *)
(* the breaker live in memory; checkpoints and acks are in SQLite.         *)
(*                                                                         *)
(* Data.  One surface; a digest is a member of a small set and the sources *)
(* may yield any served one for a request; a request that is not a         *)
(* followup is its cache key.  Bundles, rankings and evidence are left out.*)
(***************************************************************************)
EXTENDS Naturals, Sequences, FiniteSets

CONSTANTS Window, Cooldown, MinAckRate, MaxFollowupRate, MinCheckpoints,
          MinAcks, HealthyClose, NoTime, MaxTime,  \* the breaker's
          Ids,               \* checkpoint ids
          Sessions,
          Requests,          \* cache keys of requests, each of one session
          SessionOf,         \* the session of each request
          Digests,           \* bundle digests that hosts report
          Served,            \* those of the bundles the sources yield
          HostTiers,
          Claims,            \* the sufficiencies that hosts report
          CheckpointTtl,     \* ttl of resolved checkpoints
          CacheTtl,          \* ttl of the resolve cache
          FollowupCooldown,  \* followup_guardrails.cooldown_ms
          MaxFollowups,      \* followup_guardrails.max_followups
          LoopGuardWindow,
          None               \* no row, no entry, no answer

ASSUME LoopAssumption ==
    /\ Window \in Nat \ {0} /\ Cooldown \in Nat \ {0}
    /\ MinAckRate \in 0..100 /\ MaxFollowupRate \in 0..100
    /\ MinCheckpoints \in Nat \ {0} /\ MinAcks \in Nat \ {0}
    /\ HealthyClose \in Nat \ {0}
    /\ MaxTime \in Nat /\ NoTime \notin Nat
    /\ SessionOf \in [Requests -> Sessions]
    /\ Served \subseteq Digests
    /\ Claims \subseteq {"sufficient", "needs_followup", "needs_external"}
    /\ CheckpointTtl \in Nat \ {0} /\ CacheTtl \in Nat \ {0}
    /\ FollowupCooldown \in Nat /\ MaxFollowups \in Nat /\ LoopGuardWindow \in Nat \ {0}

VARIABLES entry, now,       \* the breaker
          cache,            \* resolve cache: an entry per request
          checkpoints,      \* resolved_checkpoints
          acks,             \* usage_acks
          answers,          \* history: the last undegraded answer per ack
          samples,          \* history: acks the breaker was told per checkpoint
          overrideFailed,   \* history: acks whose override threw
          issued            \* history: the uuids drawn so far

breaker == <<entry, now>>
history == <<answers, samples, overrideFailed, issued>>
vars == <<breaker, cache, checkpoints, acks, history>>

\* The breaker's own history is not kept here: Ids bounds its samples.
Breaker == INSTANCE CircuitBreaker WITH log <- <<>>, MaxEvents <- 0

Sufficiency == Breaker!Sufficiency

Checkpoint == [session: Sessions, digest: Digests, prev: Ids \cup {None}, root: Ids,
               depth: Nat, created: Nat]
Ack == [digest: Digests, tier: HostTiers, sufficiency: Sufficiency,
        session: Sessions \cup {None}, at: Nat, overridden: BOOLEAN]
\* signal is the circuit_breaker field of a response; the bundle of one that has
\* it was assembled under the reduced budget.
Bundle == [digest: Digests, signal: BOOLEAN]

ASSUME NoneAssumption == None \notin Checkpoint \cup Ack

----------------------------------------------------------------------------
(* Stores. *)

getCheckpoint(id) ==
    IF checkpoints[id] = None \/ checkpoints[id].created + CheckpointTtl <= now
    THEN None ELSE checkpoints[id]

swept == [r \in Requests |-> IF cache[r] # None /\ cache[r].expires <= now
                             THEN None ELSE cache[r]]

\* countRecent of needs_followup acks, as the check of the loop guard reads it.
recentFollowups(id, session) ==
    {other \in Ids \ {id} : /\ acks[other] # None
                            /\ acks[other].session = session
                            /\ acks[other].sufficiency = "needs_followup"
                            /\ acks[other].at + LoopGuardWindow >= now}

----------------------------------------------------------------------------
(* RetrievalOrchestrator.resolve. *)

status == Breaker!afterStatus(entry, now)
breakerOpen == status.state = "open"

\* persistCheckpoint, and the sample the breaker gets when the put succeeds.
persistCheckpoint(id, record, persisted) ==
    /\ issued' = issued \cup {id}
    /\ IF persisted
       THEN /\ checkpoints' = [checkpoints EXCEPT ![id] = record]
            /\ entry' = Breaker!afterCheckpoint(status, now)
       ELSE /\ UNCHANGED checkpoints
            /\ entry' = status

\* Mutant: the first checkpoint of a lineage has no root.
newCheckpoint_NoRoot(id, session, digest) ==
    [session |-> session, digest |-> digest, prev |-> None, root |-> None,
     depth |-> 0, created |-> now]

newCheckpoint(id, session, digest) ==
    [session |-> session, digest |-> digest, prev |-> None, root |-> id,
     depth |-> 0, created |-> now]

\* What a resolve answers on a cache hit: the cached response with the signal
\* of an open breaker, and otherwise with the signal it was cached with.
cachedAnswer(r) == [swept[r].bundle EXCEPT !.signal = breakerOpen \/ @]

\* The cached response is answered under a checkpoint id of its own.
ResolveCached(id, r) == \E persisted \in BOOLEAN :
    /\ id \notin issued
    /\ swept[r] # None
    /\ persistCheckpoint(id, newCheckpoint(id, SessionOf[r], cachedAnswer(r).digest), persisted)
    /\ cache' = swept
    /\ UNCHANGED <<now, acks, answers, samples, overrideFailed>>

ResolveFresh(id, r) == \E digest \in Served, persisted \in BOOLEAN :
    LET bundle == [digest |-> digest, signal |-> breakerOpen] IN
    /\ id \notin issued
    /\ swept[r] = None
    /\ cache' = [swept EXCEPT ![r] = [bundle |-> bundle, expires |-> now + CacheTtl]]
    /\ persistCheckpoint(id, newCheckpoint(id, SessionOf[r], digest), persisted)
    /\ UNCHANGED <<now, acks, answers, samples, overrideFailed>>

\* Mutant: the limit is compared after the fact.
followupAllowed_OffByOne(session, prev) ==
    LET previous == getCheckpoint(prev) IN
    /\ previous # None
    /\ previous.session = session
    /\ now >= previous.created + FollowupCooldown
    /\ previous.depth <= MaxFollowups

followupAllowed(session, prev) ==
    LET previous == getCheckpoint(prev) IN
    /\ previous # None
    /\ previous.session = session
    /\ now >= previous.created + FollowupCooldown
    /\ previous.depth < MaxFollowups

followupCheckpoint(id, session, digest, prev) ==
    [newCheckpoint(id, session, digest) EXCEPT
        !.prev  = prev,
        !.root  = checkpoints[prev].root,
        !.depth = checkpoints[prev].depth + 1]

ResolveFollowup(id, session, prev) == \E digest \in Served, persisted \in BOOLEAN :
    /\ id \notin issued
    /\ followupAllowed(session, prev)
    /\ persistCheckpoint(id, followupCheckpoint(id, session, digest, prev), persisted)
    /\ UNCHANGED <<now, cache, acks, answers, samples, overrideFailed>>

\* A refused followup is an error response: no checkpoint, no sample.  So is a
\* resolve whose sources throw.
ResolveRefused ==
    /\ entry' = status
    /\ UNCHANGED <<now, cache, checkpoints, acks, history>>

----------------------------------------------------------------------------
(* processUsageAck.  An id nobody was given is answered like one whose         *)
(* checkpoint could not be stored, so hosts ack issued ids only.              *)

\* buildResponseFromRecord.
buildResponse(sufficiency, overridden) ==
    CASE sufficiency = "needs_followup" -> "follow_up_hint"
      [] sufficiency = "needs_external" /\ overridden -> "forced_external"
      [] OTHER -> "ok"

\* What looking up the acked checkpoint yields: nothing also when reading fails.
lookups(id) == {getCheckpoint(id), None}

sessionOf(known) == IF known = None THEN None ELSE known.session

\* Mutant: the checkpoint being acked counts against itself, and the guard
\* wants one more.
loopGuardFires_AfterTwo(id, known, sufficiency) ==
    /\ sufficiency = "needs_followup"
    /\ known # None
    /\ Cardinality(recentFollowups(id, known.session)) > 1

loopGuardFires(id, known, sufficiency) ==
    /\ sufficiency = "needs_followup"
    /\ known # None
    /\ recentFollowups(id, known.session) # {}

\* circuitBreaker.recordAck, for a checkpoint that is known and not expired.
tellBreaker(id, known, sufficiency) ==
    IF known = None THEN UNCHANGED <<entry, samples>>
    ELSE /\ entry' = Breaker!afterAck(entry, sufficiency, now)
         /\ samples' = [samples EXCEPT ![id] = @ + 1]

respond(id, text) == answers' = [answers EXCEPT ![id] = text]

digestMismatch(known, digest) == known # None /\ known.digest # digest

AckMismatch(id, digest) ==
    /\ digestMismatch(getCheckpoint(id), digest)
    /\ UNCHANGED <<breaker, cache, checkpoints, acks, history>>

\* Mutant: the first answer is the one before the override.
firstAnswer_BeforeOverride(sufficiency, overridden) == buildResponse(sufficiency, FALSE)

firstAnswer(sufficiency, overridden) ==
    buildResponse(IF overridden THEN "needs_external" ELSE sufficiency, overridden)

\* The first ack of a checkpoint is stored and told to the breaker; the loop
\* guard may then override it, unless its query or its update throws.
AckFirst(id, digest, tier, sufficiency) ==
    \E known \in lookups(id) : \E overridden \in {loopGuardFires(id, known, sufficiency), FALSE} :
    /\ ~digestMismatch(known, digest)
    /\ acks[id] = None
    /\ acks' = [acks EXCEPT ![id] =
            [digest |-> digest, tier |-> tier, session |-> sessionOf(known), at |-> now,
             sufficiency |-> IF overridden THEN "needs_external" ELSE sufficiency,
             overridden |-> overridden]]
    /\ overrideFailed' = IF loopGuardFires(id, known, sufficiency) /\ ~overridden
                         THEN overrideFailed \cup {id} ELSE overrideFailed
    /\ tellBreaker(id, known, sufficiency)
    /\ respond(id, firstAnswer(sufficiency, overridden))
    /\ UNCHANGED <<now, cache, checkpoints, issued>>

\* Mutant: a repeated ack is told to the breaker again.
AckAgain_Counted(id, digest, tier) == \E known \in lookups(id), sufficiency \in Claims :
    /\ ~digestMismatch(known, digest)
    /\ acks[id] # None
    /\ acks[id].digest = digest /\ acks[id].tier = tier
    /\ tellBreaker(id, known, sufficiency)
    /\ respond(id, buildResponse(acks[id].sufficiency, acks[id].overridden))
    /\ UNCHANGED <<now, cache, checkpoints, acks, overrideFailed, issued>>

\* A repeated ack with the same digest and tier gets the stored answer,
\* whatever sufficiency it now claims; any other is a conflict.
AckAgain(id, digest, tier) == \E known \in lookups(id) :
    /\ ~digestMismatch(known, digest)
    /\ acks[id] # None
    /\ IF acks[id].digest = digest /\ acks[id].tier = tier
       THEN respond(id, buildResponse(acks[id].sufficiency, acks[id].overridden))
       ELSE UNCHANGED answers
    /\ UNCHANGED <<breaker, cache, checkpoints, acks, samples, overrideFailed, issued>>

AckPersistFails(id, digest) == \E known \in lookups(id) :
    /\ ~digestMismatch(known, digest)
    /\ acks[id] = None
    /\ UNCHANGED <<breaker, cache, checkpoints, acks, history>>

----------------------------------------------------------------------------
(* circuit_breaker.reset, restart and the clock.  Expired checkpoints stay in   *)
(* their table: nothing calls evictExpired.                                    *)

ResetBreaker ==
    /\ entry' = Breaker!closeSurfaceState(entry)
    /\ UNCHANGED <<now, cache, checkpoints, acks, history>>

\* The process restarts: its cache and its breaker are new.
Restart ==
    /\ cache' = [r \in Requests |-> None]
    /\ entry' = Breaker!createDefaultSurfaceState
    /\ UNCHANGED <<now, checkpoints, acks, history>>

Tick ==
    /\ now < MaxTime
    /\ now' = now + 1
    /\ UNCHANGED <<entry, cache, checkpoints, acks, history>>

Init ==
    /\ entry = Breaker!createDefaultSurfaceState
    /\ now = 0
    /\ cache = [r \in Requests |-> None]
    /\ checkpoints = [id \in Ids |-> None]
    /\ acks = [id \in Ids |-> None]
    /\ answers = [id \in Ids |-> None]
    /\ samples = [id \in Ids |-> 0]
    /\ overrideFailed = {}
    /\ issued = {}

Next ==
    \/ \E id \in Ids :
        \/ \E r \in Requests : ResolveCached(id, r) \/ ResolveFresh(id, r)
        \/ \E session \in Sessions, prev \in Ids : ResolveFollowup(id, session, prev)
        \/ \E digest \in Digests :
            /\ id \in issued
            /\ \/ AckMismatch(id, digest)
               \/ AckPersistFails(id, digest)
               \/ \E tier \in HostTiers :
                   \/ AckAgain(id, digest, tier)
                   \/ \E sufficiency \in Claims : AckFirst(id, digest, tier, sufficiency)
    \/ ResolveRefused
    \/ ResetBreaker \/ Restart \/ Tick

Spec == Init /\ [][Next]_vars

----------------------------------------------------------------------------
(* Properties. *)

Answers == {"ok", "follow_up_hint", "forced_external"}

TypeOK ==
    /\ entry \in Breaker!Entry
    /\ now \in Nat
    /\ cache \in [Requests -> [bundle: Bundle, expires: Nat] \cup {None}]
    /\ checkpoints \in [Ids -> Checkpoint \cup {None}]
    /\ acks \in [Ids -> Ack \cup {None}]
    /\ answers \in [Ids -> Answers \cup {None}]
    /\ samples \in [Ids -> Nat]
    /\ overrideFailed \subseteq Ids
    /\ issued \subseteq Ids

\* A chain of followups is no longer than max_followups however its steps are
\* spread over expiry and restarts, its checkpoints stay in one
\* session and name one root, and each is one deeper than the one before.
LineageSound ==
    \A id \in Ids : checkpoints[id] # None =>
        /\ checkpoints[id].depth <= MaxFollowups
        /\ LET prev == checkpoints[id].prev IN
           prev # None /\ checkpoints[prev] # None =>
               /\ checkpoints[id].depth = checkpoints[prev].depth + 1
               /\ checkpoints[id].root = checkpoints[prev].root
               /\ checkpoints[id].session = checkpoints[prev].session
               /\ checkpoints[id].created >= checkpoints[prev].created + FollowupCooldown

\* Retried, conflicting and mismatched acks never reach the breaker: it counts
\* each checkpoint's ack at most once.
OneSamplePerCheckpoint == \A id \in Ids : samples[id] <= 1

\* A session never has two needs_followup acks on record within the loop guard
\* window, unless overriding the second one failed.
LoopGuardHolds ==
    \A first, second \in Ids :
        (/\ first # second
         /\ acks[first] # None /\ acks[second] # None
         /\ acks[first].session # None
         /\ acks[first].session = acks[second].session
         /\ acks[first].sufficiency = "needs_followup"
         /\ acks[second].sufficiency = "needs_followup"
         /\ acks[first].at <= acks[second].at
         /\ acks[second].at <= acks[first].at + LoopGuardWindow)
        => first \in overrideFailed \/ second \in overrideFailed

\* The first answer and every retry of an ack stay consistent, also when the
\* loop guard overrode it or the override threw, and after a restart.
RetryConsistent ==
    [][\A id \in Ids : answers[id] # None => answers'[id] = answers[id]]_vars
=============================================================================
