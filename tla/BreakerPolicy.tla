--------------------------- MODULE BreakerPolicy ---------------------------
(***************************************************************************)
(* What the circuit breaker of a surface promises, told from everything    *)
(* that was recorded since it last closed: when it opens, when it lets the *)
(* cooldown begin and when it closes.  It knows nothing of windows that    *)
(* are pruned, arrays that are compacted or counters that are adjusted.    *)
(* CircuitBreaker implements it.                                           *)
(***************************************************************************)
EXTENDS Naturals, Sequences, FiniteSets

CONSTANTS Window, Cooldown, MinAckRate, MaxFollowupRate,
          MinCheckpoints, MinAcks, HealthyClose, NoTime

VARIABLES state, tripped_at, reasons,  \* what a status tells
          history,                     \* the samples since the last close
          now

vars == <<state, tripped_at, reasons, history, now>>

Acks == {"sufficient", "needs_followup", "needs_external"}
Healthy == Acks \ {"needs_followup"}

\* How many samples of the last Window units are of the kinds.
recent(kinds) ==
    Cardinality({i \in 1..Len(history) :
                    history[i].timestamp + Window >= now /\ history[i].kind \in kinds})

\* Too few checkpoints are acked; too many acks ask for a followup.
LowAckRate ==
    /\ recent({"checkpoint"}) >= MinCheckpoints
    /\ recent(Acks) * 100 < MinAckRate * recent({"checkpoint"})

HighFollowupRate ==
    /\ recent(Acks) >= MinAcks
    /\ recent({"needs_followup"}) * 100 > MaxFollowupRate * recent(Acks)

unhealthy ==
    {r \in {"low_ack_rate", "high_followup_rate"} :
        \/ r = "low_ack_rate" /\ LowAckRate
        \/ r = "high_followup_rate" /\ HighFollowupRate}

\* The state that a call finds.
current ==
    IF state = "open" /\ now >= tripped_at + Cooldown THEN "cooldown" ELSE state

\* From i on there are at most n acks.
amongLast(n, samples, i) ==
    Cardinality({j \in i..Len(samples) : samples[j].kind \in Acks}) <= n

\* There are n acks or more, and the last n are healthy and came after the cooldown.
recovered(n, samples) ==
    /\ Cardinality({j \in 1..Len(samples) : samples[j].kind \in Acks}) >= n
    /\ \A i \in 1..Len(samples) :
        samples[i].kind \in Acks /\ amongLast(n, samples, i) =>
            /\ samples[i].kind \in Healthy
            /\ samples[i].timestamp >= tripped_at + Cooldown

----------------------------------------------------------------------------
Init ==
    /\ state = "closed" /\ tripped_at = NoTime /\ reasons = {}
    /\ history = <<>>
    /\ now = 0

Close ==
    /\ state' = "closed" /\ tripped_at' = NoTime /\ reasons' = {}
    /\ history' = <<>>
    /\ UNCHANGED now

Record(kind) ==
    /\ history' = Append(history, [kind |-> kind, timestamp |-> now])
    /\ state' = current
    /\ UNCHANGED <<tripped_at, reasons, now>>

Checkpoint == Record("checkpoint")

\* An ack closes the breaker exactly when it completes the run of healthy acks.
Ack(kind) ==
    LET completes == /\ current = "cooldown"
                     /\ recovered(HealthyClose,
                                  Append(history, [kind |-> kind, timestamp |-> now]))
    IN  \/ completes /\ Close
        \/ ~completes /\ Record(kind)

\* A status opens a closed breaker exactly when the window is unhealthy.
Status ==
    /\ IF state = "closed" /\ unhealthy # {}
       THEN state' = "open" /\ tripped_at' = now /\ reasons' = unhealthy
       ELSE state' = current /\ UNCHANGED <<tripped_at, reasons>>
    /\ UNCHANGED <<history, now>>

Tick == now' = now + 1 /\ UNCHANGED <<state, tripped_at, reasons, history>>

Next ==
    \/ Checkpoint
    \/ \E kind \in Acks : Ack(kind)
    \/ Status
    \/ Close
    \/ Tick

Spec == Init /\ [][Next]_vars
=============================================================================
