--------------------------- MODULE CircuitBreaker ---------------------------
(***************************************************************************)
(* The retrieval circuit breaker (src/retrieval/circuit-breaker.ts).  It   *)
(* counts the checkpoints and the acks of the last Window time units, opens *)
(* when too few checkpoints are acked or too many acks ask for a followup, *)
(* and closes after a cooldown and a run of healthy acks.                  *)
(*                                                                         *)
(* Surfaces share nothing but the clock, so the state is that of one       *)
(* surface.  The helpers are functions from entry to entry, as in the code *)
(* they mutate it; rates are percentages; metrics are left out.            *)
(***************************************************************************)
EXTENDS Naturals, Sequences, FiniteSets

CONSTANTS Window,            \* window_ms
          Cooldown,          \* cooldown_ms
          MinAckRate,        \* min_ack_rate, in percent
          MaxFollowupRate,   \* max_followup_rate, in percent
          MinCheckpoints,    \* min_checkpoint_count
          MinAcks,           \* min_ack_count
          HealthyClose,      \* healthy_close_count
          NoTime,            \* tripped_at of a closed breaker
          MaxTime,           \* bound: the clock
          MaxEvents          \* bound: samples recorded since the last close

ASSUME BreakerAssumption ==
    /\ Window \in Nat \ {0} /\ Cooldown \in Nat \ {0}
    /\ MinAckRate \in 0..100 /\ MaxFollowupRate \in 0..100
    /\ MinCheckpoints \in Nat \ {0} /\ MinAcks \in Nat \ {0}
    /\ HealthyClose \in Nat \ {0}
    /\ MaxTime \in Nat /\ MaxEvents \in Nat
    /\ NoTime \notin Nat

States == {"closed", "open", "cooldown"}
Sufficiency == {"sufficient", "needs_followup", "needs_external"}

\* A sample is a checkpoint or an ack, which carries its sufficiency.  An ack
\* that does not ask for a followup counts as sufficient.
SampleKinds == {"checkpoint"} \cup Sufficiency
Checkpoints == {"checkpoint"}
Acks        == Sufficiency
Followups   == {"needs_followup"}
Sufficient  == Acks \ Followups
Sample == [kind: SampleKinds, timestamp: Nat]

VARIABLES entry,  \* the surface's state
          now,    \* the clock
          log     \* history: every sample recorded since the last close

vars == <<entry, now, log>>

----------------------------------------------------------------------------
(* Helpers over entries. *)

createDefaultSurfaceState ==
    [state |-> "closed", tripped_at |-> NoTime, reasons |-> {}, healthy |-> 0,
     samples |-> <<>>, head |-> 0,
     checkpoints |-> 0, acks |-> 0, sufficient |-> 0, followups |-> 0]

addSample(e, s) ==
    IF s.kind \in Checkpoints
    THEN [e EXCEPT !.samples = Append(@, s), !.checkpoints = @ + 1]
    ELSE IF s.kind \in Followups
    THEN [e EXCEPT !.samples = Append(@, s), !.acks = @ + 1, !.followups = @ + 1]
    ELSE [e EXCEPT !.samples = Append(@, s), !.acks = @ + 1, !.sufficient = @ + 1]

\* Mutant: the samples are cut and the head stays where it was.
maybeCompactSamples_KeepHead(e) ==
    IF e.head = 0 \/ 2 * e.head < Len(e.samples) THEN e
    ELSE [e EXCEPT !.samples = SubSeq(@, e.head + 1, Len(@))]

maybeCompactSamples(e) ==
    IF e.head = 0 \/ 2 * e.head < Len(e.samples) THEN e
    ELSE [e EXCEPT !.samples = SubSeq(@, e.head + 1, Len(@)), !.head = 0]

\* Where the loop of pruneWindow stops: after the live samples at the front
\* that are all older than the oldest timestamp to keep.
newHead(e, oldest) ==
    e.head + Cardinality({h \in (e.head + 1)..Len(e.samples) :
                            \A i \in (e.head + 1)..h : e.samples[i].timestamp < oldest})

\* How many of the samples from..to are of the kinds.
countIn(kinds, samples, from, to) ==
    Cardinality({i \in from..to : samples[i].kind \in kinds})

\* Mutant: an expired followup is taken for a sufficient ack.
pruneWindow_Miscount(e, oldest) ==
    LET h == newHead(e, oldest) IN
    maybeCompactSamples([e EXCEPT
        !.head        = h,
        !.checkpoints = @ - countIn(Checkpoints, e.samples, e.head + 1, h),
        !.acks        = @ - countIn(Acks, e.samples, e.head + 1, h),
        !.sufficient  = @ - countIn(Acks, e.samples, e.head + 1, h)])

pruneWindow(e, oldest) ==
    LET h == newHead(e, oldest) IN
    maybeCompactSamples([e EXCEPT
        !.head        = h,
        !.checkpoints = @ - countIn(Checkpoints, e.samples, e.head + 1, h),
        !.acks        = @ - countIn(Acks, e.samples, e.head + 1, h),
        !.sufficient  = @ - countIn(Sufficient, e.samples, e.head + 1, h),
        !.followups   = @ - countIn(Followups, e.samples, e.head + 1, h)])

\* closeSurfaceState(entry, true), the only way it is called.
closeSurfaceState(e) == createDefaultSurfaceState

maybeAdvanceToCooldown(e, t) ==
    IF e.state = "open" /\ e.tripped_at # NoTime /\ t >= e.tripped_at + Cooldown
    THEN [e EXCEPT !.state = "cooldown"]
    ELSE e

lowAckRate(checkpoints, acks) ==
    /\ checkpoints >= MinCheckpoints
    /\ acks * 100 < MinAckRate * checkpoints

highFollowupRate(acks, followups) ==
    /\ acks >= MinAcks
    /\ followups * 100 > MaxFollowupRate * acks

maybeTripSurface(e, t) ==
    LET reasons ==
          {r \in {"low_ack_rate", "high_followup_rate"} :
              \/ r = "low_ack_rate" /\ lowAckRate(e.checkpoints, e.acks)
              \/ r = "high_followup_rate" /\ highFollowupRate(e.acks, e.followups)}
    IN  IF e.state # "closed" \/ reasons = {} THEN e
        ELSE [e EXCEPT !.state = "open", !.tripped_at = t,
                       !.reasons = reasons, !.healthy = 0]

\* Mutant: a followup does not end the run of healthy acks.
maybeCloseFromCooldown_NoReset(e, sufficiency) ==
    IF e.state # "cooldown" \/ sufficiency = "needs_followup" THEN e
    ELSE IF e.healthy + 1 >= HealthyClose THEN closeSurfaceState(e)
    ELSE [e EXCEPT !.healthy = @ + 1]

maybeCloseFromCooldown(e, sufficiency) ==
    IF e.state # "cooldown" THEN e
    ELSE IF sufficiency = "needs_followup" THEN [e EXCEPT !.healthy = 0]
    ELSE IF e.healthy + 1 >= HealthyClose THEN closeSurfaceState(e)
    ELSE [e EXCEPT !.healthy = @ + 1]

minTimestamp(t) == IF t >= Window THEN t - Window ELSE 0

syncEntry(e, t) == maybeAdvanceToCooldown(pruneWindow(e, minTimestamp(t)), t)

afterCheckpoint(e, t) ==
    addSample(syncEntry(e, t), [kind |-> "checkpoint", timestamp |-> t])

afterAck(e, sufficiency, t) ==
    maybeCloseFromCooldown(
        maybeAdvanceToCooldown(
            addSample(syncEntry(e, t), [kind |-> sufficiency, timestamp |-> t]), t),
        sufficiency)

\* getStatus, and listAllStatuses for each surface: it prunes and may trip.
afterStatus(e, t) == maybeTripSurface(syncEntry(e, t), t)

----------------------------------------------------------------------------
Init ==
    /\ entry = createDefaultSurfaceState
    /\ now = 0
    /\ log = <<>>

recordCheckpoint ==
    /\ Len(log) < MaxEvents
    /\ entry' = afterCheckpoint(entry, now)
    /\ log' = Append(log, [kind |-> "checkpoint", timestamp |-> now])
    /\ UNCHANGED now

recordAck(sufficiency) ==
    /\ Len(log) < MaxEvents
    /\ entry' = afterAck(entry, sufficiency, now)
    /\ log' = IF entry.state # "closed" /\ entry'.state = "closed" THEN <<>>
              ELSE Append(log, [kind |-> sufficiency, timestamp |-> now])
    /\ UNCHANGED now

getStatus ==
    /\ entry' = afterStatus(entry, now)
    /\ UNCHANGED <<now, log>>

reset ==
    /\ entry' = closeSurfaceState(entry)
    /\ log' = <<>>
    /\ UNCHANGED now

Tick ==
    /\ now < MaxTime
    /\ now' = now + 1
    /\ UNCHANGED <<entry, log>>

Next ==
    \/ recordCheckpoint
    \/ \E sufficiency \in Sufficiency : recordAck(sufficiency)
    \/ getStatus
    \/ reset
    \/ Tick

Spec == Init /\ [][Next]_vars

----------------------------------------------------------------------------
(* Properties. *)

Entry == [state: States, tripped_at: Nat \cup {NoTime},
          reasons: SUBSET {"low_ack_rate", "high_followup_rate"}, healthy: Nat,
          samples: Seq(Sample), head: Nat,
          checkpoints: Nat, acks: Nat, sufficient: Nat, followups: Nat]

TypeOK ==
    /\ entry \in Entry
    /\ entry.head <= Len(entry.samples)
    /\ now \in Nat
    /\ log \in Seq(Sample)

\* The four counters, which every record and prune adjusts one by one, are the
\* counts of the samples that are still live, across pruning and compaction of
\* the sample array.
CountersMatchWindow ==
    LET first == entry.head + 1
        last == Len(entry.samples)
    IN  /\ entry.checkpoints = countIn(Checkpoints, entry.samples, first, last)
        /\ entry.acks = countIn(Acks, entry.samples, first, last)
        /\ entry.sufficient = countIn(Sufficient, entry.samples, first, last)
        /\ entry.followups = countIn(Followups, entry.samples, first, last)

\* A breaker has a trip time and reasons exactly while it is not closed, and
\* counts healthy acks only in cooldown, short of the number that closes it.
TripRecordConsistent ==
    /\ entry.state = "closed" <=> entry.tripped_at = NoTime
    /\ entry.state = "closed" <=> entry.reasons = {}
    /\ entry.healthy > 0 => entry.state = "cooldown" /\ entry.healthy < HealthyClose

\* What happened in the window, told from the whole history and not from the
\* breaker's own counters.
recent(kinds) ==
    Cardinality({i \in 1..Len(log) :
                    log[i].timestamp >= minTimestamp(now) /\ log[i].kind \in kinds})

unhealthy ==
    \/ lowAckRate(recent(Checkpoints), recent(Acks))
    \/ highFollowupRate(recent(Acks), recent(Followups))

\* A status call on a closed breaker opens it if and only if the samples of the
\* last Window units since it last closed are unhealthy: it neither trips on
\* expired or pre-close evidence nor misses a trip.
StatusIsExact ==
    entry.state = "closed" =>
        (afterStatus(entry, now).state = "open" <=> unhealthy)

\* An ack closes the breaker only when the last HealthyClose acks were healthy
\* and all of them came after the cooldown had passed.  A sample is one of the
\* last k acks when it is an ack and at most k acks follow from it to the end.
lastAcks(history, k) ==
    {i \in 1..Len(history) : /\ history[i].kind \in Acks
                             /\ countIn(Acks, history, i, Len(history)) <= k}

ClosesAfterHealthyRun ==
    [][\A sufficiency \in Sufficiency :
        recordAck(sufficiency) /\ entry.state # "closed" /\ entry'.state = "closed" =>
            LET history == Append(log, [kind |-> sufficiency, timestamp |-> now])
            IN  /\ countIn(Acks, history, 1, Len(history)) >= HealthyClose
                /\ \A i \in lastAcks(history, HealthyClose) :
                    /\ history[i].kind \in Sufficient
                    /\ history[i].timestamp >= entry.tripped_at + Cooldown]_vars

Policy == INSTANCE BreakerPolicy WITH
    state <- entry.state, tripped_at <- entry.tripped_at, reasons <- entry.reasons,
    history <- log

\* Each call of the breaker, which prunes, compacts and counts as it goes, does
\* what the policy makes of the whole history: it trips on nothing that has
\* expired, for the reasons that hold, and an ack closes the breaker when and only
\* when it completes a run of healthy acks after the cooldown.
CallsFollowPolicy ==
    [][/\ recordCheckpoint => Policy!Checkpoint
       /\ \A sufficiency \in Sufficiency : recordAck(sufficiency) => Policy!Ack(sufficiency)
       /\ getStatus => Policy!Status
       /\ reset => Policy!Close]_vars
=============================================================================
