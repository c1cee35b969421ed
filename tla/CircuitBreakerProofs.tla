------------------------ MODULE CircuitBreakerProofs ------------------------
(***************************************************************************)
(* Proofs about CircuitBreaker, for any window, cooldown and thresholds:   *)
(* that the counters are exact, that a pruned window decides as the whole  *)
(* history would, and that the breaker implements BreakerPolicy.           *)
(***************************************************************************)
EXTENDS CircuitBreaker, FiniteSetTheorems, FunctionTheorems, SequenceTheorems,
        WellFoundedInduction, TLAPS

----------------------------------------------------------------------------
(* Counting samples. *)

\* A count is a number.
LEMMA CountType ==
    ASSUME NEW kinds, NEW samples, NEW from \in Int, NEW to \in Int
    PROVE  countIn(kinds, samples, from, to) \in Nat
<1>1. IsFiniteSet({i \in from..to : samples[i].kind \in kinds})
  BY FS_Interval, FS_Subset
<1>2. QED
  BY <1>1, FS_CardinalityType DEF countIn

\* The count of a range is the sum of the counts of its two parts.
LEMMA CountSplit ==
    ASSUME NEW kinds, NEW samples, NEW from \in Nat, NEW mid \in Nat, NEW to \in Nat,
           from <= mid + 1, mid <= to
    PROVE  countIn(kinds, samples, from, to) =
           countIn(kinds, samples, from, mid) + countIn(kinds, samples, mid + 1, to)
<1> DEFINE S == {i \in from..mid : samples[i].kind \in kinds}
           T == {i \in (mid + 1)..to : samples[i].kind \in kinds}
<1>1. IsFiniteSet(S) /\ IsFiniteSet(T)
  <2>1. IsFiniteSet(from..mid) /\ IsFiniteSet((mid + 1)..to)
    BY FS_Interval
  <2>2. S \in SUBSET (from..mid) /\ T \in SUBSET ((mid + 1)..to)
    OBVIOUS
  <2>3. QED
    BY <2>1, <2>2, FS_Subset
<1>2. Cardinality(S \cup T) = Cardinality(S) + Cardinality(T) - Cardinality(S \cap T)
  BY <1>1, FS_Union
<1>3. S \cap T = {}
  OBVIOUS
<1>4. S \cup T = {i \in from..to : samples[i].kind \in kinds}
  OBVIOUS
<1>5. Cardinality(S) \in Nat /\ Cardinality(T) \in Nat
  BY <1>1, FS_CardinalityType
<1>6. Cardinality(S \cap T) = 0
  BY <1>3, FS_EmptySet
<1>7. /\ countIn(kinds, samples, from, to) = Cardinality(S \cup T)
      /\ countIn(kinds, samples, from, mid) = Cardinality(S)
      /\ countIn(kinds, samples, mid + 1, to) = Cardinality(T)
  BY <1>4 DEF countIn
<1> HIDE DEF S, T
<1>8. QED
  BY <1>2, <1>5, <1>6, <1>7

\* The count depends on nothing outside the range.
LEMMA CountSame ==
    ASSUME NEW kinds, NEW samples, NEW other, NEW from \in Nat, NEW to \in Nat,
           \A i \in from..to : samples[i] = other[i]
    PROVE  countIn(kinds, samples, from, to) = countIn(kinds, other, from, to)
<1>1. {i \in from..to : samples[i].kind \in kinds} = {i \in from..to : other[i].kind \in kinds}
  OBVIOUS
<1>2. QED
  BY <1>1 DEF countIn

\* The count of a single sample.
LEMMA CountOne ==
    ASSUME NEW kinds, NEW samples, NEW at \in Nat
    PROVE  countIn(kinds, samples, at, at) = IF samples[at].kind \in kinds THEN 1 ELSE 0
<1>1. {i \in at..at : samples[i].kind \in kinds} = IF samples[at].kind \in kinds THEN {at} ELSE {}
  <2>1. at..at = {at}
    OBVIOUS
  <2>2. QED
    BY <2>1
<1>2. QED
  BY <1>1, FS_Singleton, FS_EmptySet DEF countIn

\* Appending a sample adds one to the counts of its kinds.
LEMMA CountAppend ==
    ASSUME NEW kinds, NEW samples \in Seq(Sample), NEW s \in Sample,
           NEW from \in Nat \ {0}, from <= Len(samples) + 1
    PROVE  countIn(kinds, Append(samples, s), from, Len(Append(samples, s))) =
           countIn(kinds, samples, from, Len(samples)) + (IF s.kind \in kinds THEN 1 ELSE 0)
<1> DEFINE longer == Append(samples, s)
           n == Len(samples)
<1>1. /\ n \in Nat /\ Len(longer) = n + 1 /\ longer[n + 1] = s
      /\ \A i \in from..n : longer[i] = samples[i]
  OBVIOUS
<1> HIDE DEF longer, n
<1>2. countIn(kinds, longer, from, n + 1) =
        countIn(kinds, longer, from, n) + countIn(kinds, longer, n + 1, n + 1)
  BY <1>1, CountSplit DEF n
<1>3. countIn(kinds, longer, from, n) = countIn(kinds, samples, from, n)
  BY <1>1, CountSame
<1>4. countIn(kinds, longer, n + 1, n + 1) = IF s.kind \in kinds THEN 1 ELSE 0
  BY <1>1, CountOne
<1>5. QED
  BY <1>1, <1>2, <1>3, <1>4 DEF longer, n

\* Cutting off the samples up to the head shifts the range and keeps its count.
LEMMA CountShift ==
    ASSUME NEW kinds, NEW samples \in Seq(Sample), NEW head \in Nat, head <= Len(samples)
    PROVE  LET cut == SubSeq(samples, head + 1, Len(samples)) IN
           /\ cut \in Seq(Sample)
           /\ countIn(kinds, cut, 1, Len(cut)) =
              countIn(kinds, samples, head + 1, Len(samples))
<1> DEFINE n == Len(samples)
           cut == SubSeq(samples, head + 1, n)
           S == {i \in (head + 1)..n : samples[i].kind \in kinds}
           T == {i \in 1..(n - head) : cut[i].kind \in kinds}
           f == [i \in S |-> i - head]
<1>1. n \in Nat /\ cut \in Seq(Sample) /\ Len(cut) = n - head
      /\ \A i \in 1..(n - head) : cut[i] = samples[i + head]
  <2>1. \A i \in (head + 1)..n : samples[i] \in Sample
    BY ElementOfSeq
  <2>2. n \in Nat
    BY LenProperties
  <2>3. QED
    BY <2>1, <2>2, SubSeqProperties
<1>2. IsFiniteSet(S)
  <2>1. IsFiniteSet((head + 1)..n)
    BY <1>1, FS_Interval
  <2>2. QED
    BY <2>1, FS_Subset
<1>3. f \in Bijection(S, T)
  <2>1. f \in [S -> T]
    <3>1. ASSUME NEW i \in S PROVE i - head \in T
      <4>1. i \in (head + 1)..n /\ samples[i].kind \in kinds
        OBVIOUS
      <4>2. i - head \in 1..(n - head) /\ cut[i - head] = samples[(i - head) + head]
        BY <1>1, <4>1
      <4>3. (i - head) + head = i
        BY <1>1, <4>1
      <4>4. QED
        BY <4>1, <4>2, <4>3
    <3>2. QED
      BY <3>1
  <2>2. \A i, j \in S : f[i] = f[j] => i = j
    BY <1>1
  <2>3. ASSUME NEW j \in T PROVE \E i \in S : f[i] = j
    <3>1. j + head \in S
      BY <1>1, <2>3
    <3>2. f[j + head] = j
      BY <1>1, <3>1
    <3>3. QED
      BY <3>1, <3>2
  <2>4. QED
    BY <2>1, <2>2, <2>3, Fun_IsBij
<1>4. Cardinality(T) = Cardinality(S)
  BY <1>2, <1>3, FS_Bijection DEF ExistsBijection
<1>5. QED
  BY <1>1, <1>4 DEF countIn

----------------------------------------------------------------------------
(* Helpers over entries.  Each of them keeps an entry well formed: of its type *)
(* with counters that count its live samples, and a consistent trip record.   *)

live(kinds, e) == countIn(kinds, e.samples, e.head + 1, Len(e.samples))

Counted(e) ==
    /\ e \in Entry
    /\ e.head <= Len(e.samples)
    /\ e.checkpoints = live(Checkpoints, e)
    /\ e.acks = live(Acks, e)
    /\ e.sufficient = live(Sufficient, e)
    /\ e.followups = live(Followups, e)

Consistent(e) ==
    /\ e.state = "closed" <=> e.tripped_at = NoTime
    /\ e.state = "closed" <=> e.reasons = {}
    /\ e.healthy > 0 => e.state = "cooldown" /\ e.healthy < HealthyClose

WellFormed(e) == Counted(e) /\ Consistent(e)

\* A fresh entry is well formed.
LEMMA FreshWellFormed == WellFormed(createDefaultSurfaceState)
<1> DEFINE e == createDefaultSurfaceState
<1>1. /\ e \in Entry /\ e.head = 0 /\ Len(e.samples) = 0
      /\ e.state = "closed" /\ e.tripped_at = NoTime /\ e.reasons = {} /\ e.healthy = 0
      /\ e.checkpoints = 0 /\ e.acks = 0 /\ e.sufficient = 0 /\ e.followups = 0
  BY DEF createDefaultSurfaceState, Entry, States
<1> HIDE DEF e
<1>2. \A kinds : live(kinds, e) = 0
  <2>1. \A kinds : {i \in 1..0 : e.samples[i].kind \in kinds} = {}
    OBVIOUS
  <2>2. QED
    BY <1>1, <2>1, FS_EmptySet DEF live, countIn
<1>3. WellFormed(e)
  BY <1>1, <1>2 DEF WellFormed, Counted, Consistent
<1>4. QED
  BY <1>3 DEF e

\* Recording a sample appends it and changes nothing else but the counters.
LEMMA AddSampleShape ==
    ASSUME NEW e \in Entry, NEW s \in Sample
    PROVE  LET after == addSample(e, s) IN
           /\ after \in Entry
           /\ after.samples = Append(e.samples, s) /\ after.head = e.head
           /\ after.state = e.state /\ after.tripped_at = e.tripped_at
           /\ after.reasons = e.reasons /\ after.healthy = e.healthy
<1> DEFINE after == addSample(e, s)
           longer == Append(e.samples, s)
<1>1. longer \in Seq(Sample)
  BY DEF Entry
<1>2. after = IF s.kind \in Checkpoints
              THEN [e EXCEPT !.samples = longer, !.checkpoints = @ + 1]
              ELSE IF s.kind \in Followups
              THEN [e EXCEPT !.samples = longer, !.acks = @ + 1, !.followups = @ + 1]
              ELSE [e EXCEPT !.samples = longer, !.acks = @ + 1, !.sufficient = @ + 1]
  BY DEF addSample
<1>3. /\ e.checkpoints + 1 \in Nat /\ e.acks + 1 \in Nat
      /\ e.sufficient + 1 \in Nat /\ e.followups + 1 \in Nat
  BY DEF Entry
<1> HIDE DEF after, longer
<1>4. /\ after \in Entry
      /\ after.samples = longer /\ after.head = e.head
      /\ after.state = e.state /\ after.tripped_at = e.tripped_at
      /\ after.reasons = e.reasons /\ after.healthy = e.healthy
  BY <1>1, <1>2, <1>3 DEF Entry
<1>5. QED
  BY <1>4 DEF longer, after

\* Recording a sample counts it once, in the counters of its kind.
LEMMA AddSampleWellFormed ==
    ASSUME NEW e, WellFormed(e), NEW s \in Sample
    PROVE  /\ WellFormed(addSample(e, s))
           /\ addSample(e, s).state = e.state
<1> DEFINE after == addSample(e, s)
<1>1. e \in Entry /\ e.samples \in Seq(Sample) /\ e.head \in Nat
      /\ Append(e.samples, s) \in Seq(Sample) /\ Len(Append(e.samples, s)) = Len(e.samples) + 1
      /\ e.head <= Len(e.samples)
  BY DEF WellFormed, Counted, Entry
<1>2. /\ after \in Entry
      /\ after.samples = Append(e.samples, s) /\ after.head = e.head
      /\ after.state = e.state /\ after.tripped_at = e.tripped_at
      /\ after.reasons = e.reasons /\ after.healthy = e.healthy
  BY <1>1, AddSampleShape
<1>3. /\ after.checkpoints = e.checkpoints + (IF s.kind \in Checkpoints THEN 1 ELSE 0)
      /\ after.acks = e.acks + (IF s.kind \in Acks THEN 1 ELSE 0)
      /\ after.sufficient = e.sufficient + (IF s.kind \in Sufficient THEN 1 ELSE 0)
      /\ after.followups = e.followups + (IF s.kind \in Followups THEN 1 ELSE 0)
  <2>1. s.kind \in SampleKinds
    BY DEF Sample
  <2>2. CASE s.kind \in Checkpoints
    <3>1. s.kind \notin Acks /\ s.kind \notin Sufficient /\ s.kind \notin Followups
      BY <2>2 DEF Checkpoints, Acks, Sufficient, Followups, Sufficiency
    <3>2. QED
      BY <1>1, <2>2, <3>1 DEF addSample, Entry
  <2>3. CASE s.kind \in Followups
    <3>1. s.kind \notin Checkpoints /\ s.kind \in Acks /\ s.kind \notin Sufficient
      BY <2>3 DEF Checkpoints, Acks, Sufficient, Followups, Sufficiency
    <3>2. QED
      BY <1>1, <2>3, <3>1 DEF addSample, Entry
  <2>4. CASE s.kind \notin Checkpoints /\ s.kind \notin Followups
    <3>1. s.kind \in Acks /\ s.kind \in Sufficient
      BY <2>1, <2>4 DEF SampleKinds, Checkpoints, Acks, Sufficient, Followups, Sufficiency
    <3>2. QED
      BY <1>1, <2>4, <3>1 DEF addSample, Entry
  <2>5. QED
    BY <2>2, <2>3, <2>4
<1> HIDE DEF after
<1>4. ASSUME NEW kinds
      PROVE  live(kinds, after) = live(kinds, e) + (IF s.kind \in kinds THEN 1 ELSE 0)
  <2>1. e.head + 1 \in Nat \ {0} /\ e.head + 1 <= Len(e.samples) + 1
    BY <1>1, LenProperties
  <2>2. QED
    BY <1>1, <1>2, <2>1, CountAppend DEF live
<1>5. Counted(after)
  <2>1. Len(e.samples) \in Nat
    BY <1>1, LenProperties
  <2>2. QED
    BY <1>1, <1>2, <1>3, <1>4, <2>1 DEF WellFormed, Counted
<1>6. Consistent(after)
  BY <1>2 DEF WellFormed, Consistent
<1>7. QED
  BY <1>2, <1>5, <1>6 DEF WellFormed, after

\* Compaction changes no count.
LEMMA CompactWellFormed ==
    ASSUME NEW e, WellFormed(e)
    PROVE  /\ WellFormed(maybeCompactSamples(e))
           /\ maybeCompactSamples(e).state = e.state
<1> DEFINE cut == SubSeq(e.samples, e.head + 1, Len(e.samples))
           after == [e EXCEPT !.samples = cut, !.head = 0]
<1>1. e \in Entry /\ e.samples \in Seq(Sample) /\ e.head \in Nat /\ e.head <= Len(e.samples)
  BY DEF WellFormed, Counted, Entry
<1>2. cut \in Seq(Sample) /\ \A kinds : countIn(kinds, cut, 1, Len(cut)) = live(kinds, e)
  BY <1>1, CountShift DEF live
<1> HIDE DEF cut
<1>3. /\ after \in Entry /\ after.samples = cut /\ after.head = 0
      /\ after.state = e.state /\ after.tripped_at = e.tripped_at
      /\ after.reasons = e.reasons /\ after.healthy = e.healthy
      /\ after.checkpoints = e.checkpoints /\ after.acks = e.acks
      /\ after.sufficient = e.sufficient /\ after.followups = e.followups
  BY <1>1, <1>2 DEF Entry
<1>4. maybeCompactSamples(e) \in {e, after}
  BY DEF maybeCompactSamples, cut
<1> HIDE DEF after
<1>5. WellFormed(after)
  <2>1. \A kinds : live(kinds, after) = live(kinds, e)
    BY <1>2, <1>3 DEF live
  <2>2. Len(cut) \in Nat
    BY <1>2, LenProperties
  <2>3. QED
    BY <1>3, <2>1, <2>2 DEF WellFormed, Counted, Consistent
<1>6. QED
  BY <1>3, <1>4, <1>5

\* The head moves forward within the samples.
LEMMA NewHeadRange ==
    ASSUME NEW e, WellFormed(e), NEW oldest \in Nat
    PROVE  /\ newHead(e, oldest) \in Nat
           /\ e.head <= newHead(e, oldest)
           /\ newHead(e, oldest) <= Len(e.samples)
<1> DEFINE range == (e.head + 1)..Len(e.samples)
           expired == {h \in range :
                         \A i \in (e.head + 1)..h : e.samples[i].timestamp < oldest}
<1>1. e.head \in Nat /\ Len(e.samples) \in Nat /\ e.head <= Len(e.samples)
  BY LenProperties DEF WellFormed, Counted, Entry
<1>2. IsFiniteSet(range) /\ Cardinality(range) = Len(e.samples) - e.head
  <2>1. e.head + 1 \in Int /\ Len(e.samples) \in Int
    BY <1>1
  <2>2. IsFiniteSet(range) /\ Cardinality(range) =
          IF e.head + 1 > Len(e.samples) THEN 0 ELSE Len(e.samples) - (e.head + 1) + 1
    BY <2>1, FS_Interval
  <2>3. QED
    BY <1>1, <2>2
<1>3. expired \in SUBSET range
  OBVIOUS
<1> HIDE DEF range
<1>4. IsFiniteSet(expired) /\ Cardinality(expired) <= Cardinality(range)
  BY <1>2, <1>3, FS_Subset
<1>5. Cardinality(expired) \in Nat
  BY <1>4, FS_CardinalityType
<1>6. newHead(e, oldest) = e.head + Cardinality(expired)
  BY DEF newHead, range
<1> HIDE DEF expired
<1>7. QED
  BY <1>1, <1>2, <1>4, <1>5, <1>6

\* Moving the head takes from each counter what it takes from the live samples.
LEMMA PruneMoves ==
    ASSUME NEW e, WellFormed(e), NEW oldest \in Nat
    PROVE  LET h == newHead(e, oldest)
               moved == [e EXCEPT
                   !.head        = h,
                   !.checkpoints = @ - countIn(Checkpoints, e.samples, e.head + 1, h),
                   !.acks        = @ - countIn(Acks, e.samples, e.head + 1, h),
                   !.sufficient  = @ - countIn(Sufficient, e.samples, e.head + 1, h),
                   !.followups   = @ - countIn(Followups, e.samples, e.head + 1, h)]
           IN  WellFormed(moved) /\ moved.state = e.state
<1> DEFINE h == newHead(e, oldest)
           gone(kinds) == countIn(kinds, e.samples, e.head + 1, h)
           after == [e EXCEPT !.head        = h,
                              !.checkpoints = @ - gone(Checkpoints),
                              !.acks        = @ - gone(Acks),
                              !.sufficient  = @ - gone(Sufficient),
                              !.followups   = @ - gone(Followups)]
<1>1. /\ e \in Entry /\ e.head \in Nat /\ Len(e.samples) \in Nat
      /\ h \in Nat /\ e.head <= h /\ h <= Len(e.samples)
  BY NewHeadRange, LenProperties DEF WellFormed, Counted, Entry
<1> HIDE DEF h
<1>2. ASSUME NEW kinds
      PROVE  /\ gone(kinds) \in Nat
             /\ countIn(kinds, e.samples, h + 1, Len(e.samples)) \in Nat
             /\ live(kinds, e) = gone(kinds) + countIn(kinds, e.samples, h + 1, Len(e.samples))
  BY <1>1, CountType, CountSplit DEF live
<1> HIDE DEF gone
<1>3. /\ e.checkpoints - gone(Checkpoints) = countIn(Checkpoints, e.samples, h + 1, Len(e.samples))
      /\ e.acks - gone(Acks) = countIn(Acks, e.samples, h + 1, Len(e.samples))
      /\ e.sufficient - gone(Sufficient) = countIn(Sufficient, e.samples, h + 1, Len(e.samples))
      /\ e.followups - gone(Followups) = countIn(Followups, e.samples, h + 1, Len(e.samples))
  BY <1>2 DEF WellFormed, Counted
<1>4. /\ after \in Entry /\ after.samples = e.samples /\ after.head = h
      /\ after.state = e.state /\ after.tripped_at = e.tripped_at
      /\ after.reasons = e.reasons /\ after.healthy = e.healthy
      /\ after.checkpoints = e.checkpoints - gone(Checkpoints)
      /\ after.acks = e.acks - gone(Acks)
      /\ after.sufficient = e.sufficient - gone(Sufficient)
      /\ after.followups = e.followups - gone(Followups)
  BY <1>1, <1>2, <1>3 DEF Entry
<1> HIDE DEF after
<1>5. WellFormed(after)
  BY <1>1, <1>3, <1>4 DEF WellFormed, Counted, Consistent, live
<1>6. QED
  BY <1>4, <1>5 DEF after, h, gone

\* Pruning keeps the entry well formed, and its state.
LEMMA PruneWellFormed ==
    ASSUME NEW e, WellFormed(e), NEW oldest \in Nat
    PROVE  /\ WellFormed(pruneWindow(e, oldest))
           /\ pruneWindow(e, oldest).state = e.state
BY PruneMoves, CompactWellFormed DEF pruneWindow

\* maybeAdvanceToCooldown keeps the entry well formed.
LEMMA AdvanceWellFormed ==
    ASSUME NEW e, WellFormed(e), NEW t \in Nat
    PROVE  WellFormed(maybeAdvanceToCooldown(e, t))
<1> DEFINE after == [e EXCEPT !.state = "cooldown"]
<1>1. Counted(after)
  BY DEF WellFormed, Counted, live, Entry, States
<1>2. e.state = "open" => Consistent(after)
  BY DEF WellFormed, Counted, Consistent, Entry
<1>3. (e.state = "open" /\ maybeAdvanceToCooldown(e, t) = after) \/ maybeAdvanceToCooldown(e, t) = e
  BY DEF maybeAdvanceToCooldown
<1>4. QED
  BY <1>1, <1>2, <1>3 DEF WellFormed

\* maybeTripSurface keeps the entry well formed.
LEMMA TripWellFormed ==
    ASSUME NEW e, WellFormed(e), NEW t \in Nat
    PROVE  WellFormed(maybeTripSurface(e, t))
<1> DEFINE why == {r \in {"low_ack_rate", "high_followup_rate"} :
                     \/ r = "low_ack_rate" /\ lowAckRate(e.checkpoints, e.acks)
                     \/ r = "high_followup_rate" /\ highFollowupRate(e.acks, e.followups)}
           after == [e EXCEPT !.state = "open", !.tripped_at = t, !.reasons = why, !.healthy = 0]
<1>1. maybeTripSurface(e, t) = IF e.state # "closed" \/ why = {} THEN e ELSE after
  BY DEF maybeTripSurface
<1>2. why \in SUBSET {"low_ack_rate", "high_followup_rate"}
  OBVIOUS
<1> HIDE DEF why
<1>3. Counted(after)
  BY <1>2 DEF WellFormed, Counted, live, Entry, States
<1>4. why # {} => Consistent(after)
  BY <1>2, BreakerAssumption DEF WellFormed, Counted, Consistent, Entry
<1>5. QED
  BY <1>1, <1>3, <1>4 DEF WellFormed

\* maybeCloseFromCooldown keeps the entry well formed.
LEMMA CloseWellFormed ==
    ASSUME NEW e, WellFormed(e), NEW sufficiency \in Sufficiency
    PROVE  WellFormed(maybeCloseFromCooldown(e, sufficiency))
<1> DEFINE reset_ == [e EXCEPT !.healthy = 0]
           counted == [e EXCEPT !.healthy = @ + 1]
<1>0. e \in Entry /\ e.healthy \in Nat
  BY DEF WellFormed, Counted, Entry
<1>1. Counted(reset_) /\ Counted(counted)
  <2>1. reset_ \in Entry /\ counted \in Entry
    BY <1>0 DEF Entry
  <2>2. \A f \in {"samples", "head", "checkpoints", "acks", "sufficient", "followups"} :
          reset_[f] = e[f] /\ counted[f] = e[f]
    BY <1>0 DEF Entry
  <2> QED
    BY <2>1, <2>2 DEF WellFormed, Counted, live
<1>2. Consistent(reset_)
  BY DEF WellFormed, Counted, Consistent, Entry
<1>3. e.state = "cooldown" /\ ~(e.healthy + 1 >= HealthyClose) => Consistent(counted)
  BY BreakerAssumption DEF WellFormed, Counted, Consistent, Entry
<1>4. maybeCloseFromCooldown(e, sufficiency) =
        IF e.state # "cooldown" THEN e
        ELSE IF sufficiency = "needs_followup" THEN reset_
        ELSE IF e.healthy + 1 >= HealthyClose THEN createDefaultSurfaceState
        ELSE counted
  BY DEF maybeCloseFromCooldown, closeSurfaceState
<1> HIDE DEF reset_, counted
<1>5. QED
  BY <1>1, <1>2, <1>3, <1>4, FreshWellFormed DEF WellFormed

\* syncEntry keeps the entry well formed.
LEMMA SyncWellFormed ==
    ASSUME NEW e, WellFormed(e), NEW t \in Nat
    PROVE  WellFormed(syncEntry(e, t))
<1>1. minTimestamp(t) \in Nat
  BY BreakerAssumption DEF minTimestamp
<1>2. WellFormed(pruneWindow(e, minTimestamp(t)))
  BY <1>1, PruneWellFormed
<1>3. QED
  BY <1>2, AdvanceWellFormed DEF syncEntry

\* The three calls keep an entry well formed.
LEMMA CallsWellFormed ==
    ASSUME NEW e, WellFormed(e), NEW t \in Nat
    PROVE  /\ WellFormed(afterStatus(e, t))
           /\ WellFormed(afterCheckpoint(e, t))
           /\ \A sufficiency \in Sufficiency : WellFormed(afterAck(e, sufficiency, t))
<1>1. WellFormed(syncEntry(e, t))
  BY SyncWellFormed
<1>2. WellFormed(afterStatus(e, t))
  BY <1>1, TripWellFormed DEF afterStatus
<1>3. \A kind \in SampleKinds : [kind |-> kind, timestamp |-> t] \in Sample
  BY DEF Sample
<1>4. WellFormed(afterCheckpoint(e, t))
  BY <1>1, <1>3, AddSampleWellFormed DEF afterCheckpoint, SampleKinds
<1>5. ASSUME NEW sufficiency \in Sufficiency PROVE WellFormed(afterAck(e, sufficiency, t))
  <2>1. WellFormed(addSample(syncEntry(e, t), [kind |-> sufficiency, timestamp |-> t]))
    BY <1>1, <1>3, AddSampleWellFormed DEF SampleKinds
  <2> QED
    BY <2>1, AdvanceWellFormed, CloseWellFormed DEF afterAck
<1> QED
  BY <1>2, <1>4, <1>5

----------------------------------------------------------------------------
(* The invariants. *)

Inv == WellFormed(entry) /\ now \in Nat /\ log \in Seq(Sample)

\* Every step keeps the invariant.
LEMMA InvStep == Inv /\ [Next]_vars => Inv'
<1> SUFFICES ASSUME Inv, [Next]_vars PROVE Inv'
  OBVIOUS
<1>1. WellFormed(entry) /\ now \in Nat /\ log \in Seq(Sample)
  BY DEF Inv
<1>2. CASE recordCheckpoint
  <2>1. [kind |-> "checkpoint", timestamp |-> now] \in Sample
    BY <1>1 DEF Sample, SampleKinds
  <2> QED
    BY <1>1, <1>2, <2>1, CallsWellFormed DEF recordCheckpoint, Inv
<1>3. ASSUME NEW sufficiency \in Sufficiency, recordAck(sufficiency) PROVE Inv'
  <2> DEFINE s == [kind |-> sufficiency, timestamp |-> now]
  <2>1. s \in Sample
    BY <1>1 DEF Sample, SampleKinds
  <2>2. WellFormed(entry') /\ now' = now /\ log' \in {<<>>, Append(log, s)}
    BY <1>1, <1>3, CallsWellFormed DEF recordAck
  <2> HIDE DEF s
  <2>3. Append(log, s) \in Seq(Sample) /\ <<>> \in Seq(Sample)
    BY <1>1, <2>1
  <2> QED
    BY <1>1, <2>2, <2>3 DEF Inv
<1>4. CASE getStatus
  BY <1>1, <1>4, CallsWellFormed DEF getStatus, Inv
<1>5. CASE reset
  BY <1>1, <1>5, FreshWellFormed DEF reset, closeSurfaceState, Inv, WellFormed
<1>6. CASE Tick
  BY <1>1, <1>6 DEF Tick, Inv
<1>7. CASE UNCHANGED vars
  BY <1>1, <1>7 DEF vars, Inv
<1>8. QED
  BY <1>2, <1>3, <1>4, <1>5, <1>6, <1>7 DEF Next

\* The invariant holds in every reachable state.
LEMMA InvAlways == Spec => []Inv
<1>1. Init => Inv
  BY FreshWellFormed DEF Init, Inv
<1>2. QED
  BY <1>1, InvStep, PTL DEF Spec

\* Every reachable state has the types declared for it.
THEOREM BreakerTyped == Spec => []TypeOK
<1>1. Inv => TypeOK
  BY DEF Inv, WellFormed, Counted, TypeOK
<1>2. QED
  BY <1>1, InvAlways, PTL

\* Through pruning and compaction, each counter counts the live samples of its
\* kinds.
THEOREM CountersAreExact == Spec => []CountersMatchWindow
<1>1. Inv => CountersMatchWindow
  BY DEF Inv, WellFormed, Counted, live, CountersMatchWindow
<1>2. QED
  BY <1>1, InvAlways, PTL

\* A breaker has a trip time and reasons exactly while it is not closed, and
\* counts healthy acks only in cooldown.
THEOREM TripRecordIsKept == Spec => []TripRecordConsistent
<1>1. Inv => TripRecordConsistent
  BY DEF Inv, WellFormed, Consistent, TripRecordConsistent
<1>2. QED
  BY <1>1, InvAlways, PTL

----------------------------------------------------------------------------
(* The window and the history.  What the entry's samples say of the window   *)
(* is what the history says of it, because                                  *)
(*   - the samples, the dead ones included, are the end of the history;     *)
(*   - what comes before the live samples is older than the window;         *)
(*   - the history is sorted by time, so that the loop of pruneWindow, which *)
(*     stops at the first sample to keep, leaves no expired one behind it.   *)

Sorted(history) ==
    \A i, j \in 1..Len(history) : i <= j => history[i].timestamp <= history[j].timestamp

\* The number of samples of the history that have been cut off from the entry's.
dropped(e, history) == Len(history) - Len(e.samples)

Tracks(e, history, oldest) ==
    /\ Len(e.samples) <= Len(history)
    /\ \A i \in 1..Len(e.samples) : e.samples[i] = history[i + dropped(e, history)]
    /\ \A i \in 1..(dropped(e, history) + e.head) : history[i].timestamp < oldest

\* Every set of numbers that is not empty has a least one.
LEMMA LeastNumber ==
    ASSUME NEW T \in SUBSET Nat, T # {}
    PROVE  \E x \in T : \A y \in T : x <= y
<1>1. PICK x \in T : \A y \in T : ~(<<y, x>> \in OpToRel(<, Nat))
  BY NatLessThanWellFounded, WFMin
<1>2. \A y \in T : ~(y < x)
  BY <1>1 DEF OpToRel
<1>3. QED
  BY <1>2

\* How many numbers follow a up to b.
LEMMA IntervalSize ==
    ASSUME NEW a \in Nat, NEW b \in Nat, a <= b
    PROVE  Cardinality((a + 1)..b) = b - a
<1>1. a + 1 \in Int /\ b \in Int
  OBVIOUS
<1>2. Cardinality((a + 1)..b) = IF a + 1 > b THEN 0 ELSE b - (a + 1) + 1
  BY <1>1, FS_Interval
<1>3. QED
  BY <1>2

\* The head moves over expired samples only, and stops at the first that is not.
LEMMA NewHeadStops ==
    ASSUME NEW e, WellFormed(e), NEW oldest \in Nat
    PROVE  LET h == newHead(e, oldest) IN
           /\ \A i \in (e.head + 1)..h : e.samples[i].timestamp < oldest
           /\ h < Len(e.samples) => e.samples[h + 1].timestamp >= oldest
<1> DEFINE n == Len(e.samples)
           range == (e.head + 1)..n
           kept == {i \in range : ~(e.samples[i].timestamp < oldest)}
           expired == {h \in range :
                         \A i \in (e.head + 1)..h : e.samples[i].timestamp < oldest}
<1>1. /\ e.head \in Nat /\ n \in Nat /\ e.head <= n
      /\ \A i \in range : e.samples[i].timestamp \in Nat
  <2>1. e.samples \in Seq(Sample) /\ e.head \in Nat /\ e.head <= n
    BY DEF WellFormed, Counted, Entry
  <2>2. n \in Nat /\ \A i \in 1..n : e.samples[i] \in Sample
    BY <2>1, LenProperties, ElementOfSeq
  <2>3. QED
    BY <2>1, <2>2 DEF Sample
<1>2. newHead(e, oldest) = e.head + Cardinality(expired)
  BY DEF newHead
<1> HIDE DEF n
<1>3. CASE kept = {}
  <2>1. expired = range
    <3>1. \A i \in range : e.samples[i].timestamp < oldest
      BY <1>3
    <3>2. \A h \in range : \A i \in (e.head + 1)..h : i \in range
      BY <1>1
    <3>3. QED
      BY <3>1, <3>2
  <2>2. Cardinality(range) = n - e.head
    BY <1>1, IntervalSize
  <2> HIDE DEF range, expired
  <2>3. newHead(e, oldest) = n
    BY <1>1, <1>2, <2>1, <2>2
  <2>4. QED
    BY <1>1, <1>3, <2>3 DEF n, range
<1>4. CASE kept # {}
  <2>1. kept \in SUBSET Nat
    BY <1>1
  <2>2. PICK k \in kept : \A j \in kept : k <= j
    BY <1>4, <2>1, LeastNumber
  <2>3. k \in Nat /\ e.head + 1 <= k /\ k <= n /\ ~(e.samples[k].timestamp < oldest)
    BY <1>1
  <2>4. \A i \in (e.head + 1)..(k - 1) : e.samples[i].timestamp < oldest
    BY <1>1, <2>2, <2>3
  <2>5. expired = (e.head + 1)..(k - 1)
    <3>1. ASSUME NEW h \in expired PROVE h \in (e.head + 1)..(k - 1)
      BY <1>1, <2>3
    <3>2. ASSUME NEW h \in (e.head + 1)..(k - 1) PROVE h \in expired
      BY <1>1, <2>3, <2>4
    <3>3. QED
      BY <3>1, <3>2
  <2>6. Cardinality((e.head + 1)..(k - 1)) = k - 1 - e.head
    BY <1>1, <2>3, IntervalSize
  <2> HIDE DEF expired
  <2>7. newHead(e, oldest) = k - 1
    BY <1>1, <1>2, <2>3, <2>5, <2>6
  <2>8. e.samples[k].timestamp >= oldest
    BY <1>1, <2>3
  <2>9. QED
    BY <2>3, <2>4, <2>7, <2>8 DEF n
<1>5. QED
  BY <1>3, <1>4

\* Recording a sample in the entry and in the history keeps the two in step.
LEMMA AddSampleTracks ==
    ASSUME NEW e \in Entry, e.head <= Len(e.samples), NEW s \in Sample,
           NEW history \in Seq(Sample), NEW oldest \in Nat, Tracks(e, history, oldest)
    PROVE  Tracks(addSample(e, s), Append(history, s), oldest)
<1> DEFINE after == addSample(e, s)
           longer == Append(history, s)
           m == Len(e.samples)
           n == Len(history)
<1>1. after.samples = Append(e.samples, s) /\ after.head = e.head
  BY AddSampleShape
<1>2. e.samples \in Seq(Sample) /\ e.head \in Nat
  BY DEF Entry
<1>3. /\ m \in Nat /\ Len(after.samples) = m + 1 /\ after.samples[m + 1] = s
      /\ \A i \in 1..m : after.samples[i] = e.samples[i]
  BY <1>1, <1>2
<1>4. /\ n \in Nat /\ Len(longer) = n + 1 /\ longer[n + 1] = s
      /\ \A i \in 1..n : longer[i] = history[i]
  OBVIOUS
<1>5. /\ m <= n /\ e.head <= m
      /\ \A i \in 1..m : e.samples[i] = history[i + (n - m)]
      /\ \A i \in 1..((n - m) + e.head) : history[i].timestamp < oldest
  BY DEF Tracks, dropped
<1> HIDE DEF after, longer, m, n
<1>6. \A i \in 1..(m + 1) : after.samples[i] = longer[i + ((n + 1) - (m + 1))]
  <2>1. ASSUME NEW i \in 1..m PROVE after.samples[i] = longer[i + ((n + 1) - (m + 1))]
    <3>1. i + ((n + 1) - (m + 1)) = i + (n - m) /\ i + (n - m) \in 1..n
      BY <1>3, <1>4, <1>5
    <3>2. QED
      BY <1>3, <1>4, <1>5, <3>1
  <2>2. (m + 1) + ((n + 1) - (m + 1)) = n + 1
    BY <1>3, <1>4
  <2>3. QED
    BY <1>3, <1>4, <2>1, <2>2
<1>7. \A i \in 1..(((n + 1) - (m + 1)) + after.head) : longer[i].timestamp < oldest
  BY <1>1, <1>2, <1>3, <1>4, <1>5
<1>8. Tracks(after, longer, oldest)
  BY <1>3, <1>4, <1>5, <1>6, <1>7 DEF Tracks, dropped
<1>9. QED
  BY <1>8 DEF after, longer

\* Compaction cuts off dead samples only, and keeps the trip record.
LEMMA CompactTracks ==
    ASSUME NEW e, WellFormed(e), NEW history \in Seq(Sample), NEW oldest \in Nat,
           Tracks(e, history, oldest)
    PROVE  LET after == maybeCompactSamples(e) IN
           /\ Tracks(after, history, oldest)
           /\ after.tripped_at = e.tripped_at /\ after.healthy = e.healthy
           /\ after.head < Len(after.samples) =>
                 /\ e.head < Len(e.samples)
                 /\ after.samples[after.head + 1] = e.samples[e.head + 1]
<1> DEFINE short == SubSeq(e.samples, e.head + 1, Len(e.samples))
           after == [e EXCEPT !.samples = short, !.head = 0]
           m == Len(e.samples)
           n == Len(history)
<1>1. e \in Entry /\ e.samples \in Seq(Sample) /\ e.head \in Nat /\ e.head <= m
  BY DEF WellFormed, Counted, Entry
<1>2. m \in Nat /\ n \in Nat
  BY <1>1, LenProperties
<1>3. Len(short) = m - e.head /\ \A i \in 1..(m - e.head) : short[i] = e.samples[i + e.head]
  <2>1. \A i \in (e.head + 1)..m : e.samples[i] \in Sample
    BY <1>1, <1>2, ElementOfSeq
  <2>2. e.head + 1 \in Int /\ m \in Int
    BY <1>1, <1>2
  <2>3. /\ Len(short) = IF e.head + 1 <= m THEN m - (e.head + 1) + 1 ELSE 0
        /\ \A i \in 1..(m - (e.head + 1) + 1) : short[i] = e.samples[(e.head + 1) + i - 1]
    BY <2>1, <2>2, SubSeqProperties
  <2> HIDE DEF m, short
  <2>4. \A i \in 1..(m - e.head) : (e.head + 1) + i - 1 = i + e.head
    BY <1>1, <1>2
  <2>5. m - (e.head + 1) + 1 = m - e.head
    BY <1>1, <1>2
  <2>6. Len(short) = m - e.head
    BY <1>1, <1>2, <2>3
  <2>7. ASSUME NEW i \in 1..(m - e.head) PROVE short[i] = e.samples[i + e.head]
    <3>1. i \in 1..(m - (e.head + 1) + 1)
      BY <2>5
    <3>2. short[i] = e.samples[(e.head + 1) + i - 1]
      BY <2>3, <3>1
    <3>3. QED
      BY <2>4, <3>2
  <2>8. QED
    BY <2>6, <2>7
<1>4. maybeCompactSamples(e) \in {e, after}
  BY DEF maybeCompactSamples
<1> HIDE DEF short
<1>5. /\ after.samples = short /\ after.head = 0
      /\ after.tripped_at = e.tripped_at /\ after.healthy = e.healthy
  BY <1>1 DEF Entry
<1>6. /\ m <= n
      /\ \A i \in 1..m : e.samples[i] = history[i + (n - m)]
      /\ \A i \in 1..((n - m) + e.head) : history[i].timestamp < oldest
  BY DEF Tracks, dropped
<1> HIDE DEF after
<1>7. Tracks(after, history, oldest)
  <2>1. Len(after.samples) = m - e.head
    BY <1>3, <1>5
  <2>2. \A i \in 1..(m - e.head) : after.samples[i] = history[i + (n - (m - e.head))]
    <3>1. ASSUME NEW i \in 1..(m - e.head)
          PROVE  after.samples[i] = history[i + (n - (m - e.head))]
      <4>1. i + e.head \in 1..m /\ (i + e.head) + (n - m) = i + (n - (m - e.head))
        BY <1>1, <1>2
      <4>2. QED
        BY <1>3, <1>5, <1>6, <4>1
    <3>2. QED
      BY <3>1
  <2>3. \A i \in 1..((n - (m - e.head)) + after.head) : history[i].timestamp < oldest
    BY <1>1, <1>2, <1>5, <1>6
  <2> HIDE DEF m
  <2>4. QED
    BY <1>1, <1>2, <1>6, <2>1, <2>2, <2>3 DEF Tracks, dropped
<1>8. after.head < Len(after.samples) =>
        e.head < m /\ after.samples[after.head + 1] = e.samples[e.head + 1]
  BY <1>1, <1>2, <1>3, <1>5
<1>9. QED
  BY <1>4, <1>5, <1>7, <1>8

\* Pruning takes the entry to a later window: what it leaves begins with a
\* sample of that window.  It keeps the trip record.
LEMMA PruneTracks ==
    ASSUME NEW e, WellFormed(e), NEW history \in Seq(Sample), NEW before \in Nat,
           NEW oldest \in Nat, before <= oldest, Tracks(e, history, before)
    PROVE  LET after == pruneWindow(e, oldest) IN
           /\ Tracks(after, history, oldest)
           /\ after.tripped_at = e.tripped_at /\ after.healthy = e.healthy
           /\ after.head < Len(after.samples) =>
                 after.samples[after.head + 1].timestamp >= oldest
<1> DEFINE h == newHead(e, oldest)
           gone(kinds) == countIn(kinds, e.samples, e.head + 1, h)
           moved == [e EXCEPT !.head        = h,
                              !.checkpoints = @ - gone(Checkpoints),
                              !.acks        = @ - gone(Acks),
                              !.sufficient  = @ - gone(Sufficient),
                              !.followups   = @ - gone(Followups)]
           m == Len(e.samples)
           n == Len(history)
<1>1. /\ e \in Entry /\ e.head \in Nat /\ m \in Nat /\ n \in Nat
      /\ h \in Nat /\ e.head <= h /\ h <= m
  BY NewHeadRange, LenProperties DEF WellFormed, Counted, Entry
<1>2. /\ \A i \in (e.head + 1)..h : e.samples[i].timestamp < oldest
      /\ h < m => e.samples[h + 1].timestamp >= oldest
  BY NewHeadStops
<1>3. WellFormed(moved)
  BY PruneMoves
<1>4. pruneWindow(e, oldest) = maybeCompactSamples(moved)
  BY DEF pruneWindow
<1> HIDE DEF h, gone
<1>5. /\ moved.samples = e.samples /\ moved.head = h
      /\ moved.tripped_at = e.tripped_at /\ moved.healthy = e.healthy
  BY <1>1 DEF Entry
<1> HIDE DEF moved
<1>6. /\ m <= n
      /\ \A i \in 1..m : e.samples[i] = history[i + (n - m)]
      /\ \A i \in 1..((n - m) + e.head) : history[i].timestamp < before
  BY DEF Tracks, dropped
<1>7. \A i \in 1..((n - m) + h) : history[i].timestamp < oldest
  <2>1. ASSUME NEW i \in 1..((n - m) + h) PROVE history[i].timestamp < oldest
    <3>1. CASE i <= (n - m) + e.head
      <4>1. i \in 1..n
        BY <1>1, <1>6
      <4>2. history[i].timestamp \in Nat
        <5>1. history[i] \in Sample
          BY <4>1, ElementOfSeq
        <5>2. QED
          BY <5>1 DEF Sample
      <4>3. i \in 1..((n - m) + e.head)
        BY <1>1, <1>6, <3>1
      <4>4. history[i].timestamp < before
        BY <1>6, <4>3
      <4>5. QED
        BY <4>2, <4>4
    <3>2. CASE i > (n - m) + e.head
      <4> DEFINE j == i - (n - m)
      <4>1. j \in (e.head + 1)..h /\ j \in 1..m /\ j + (n - m) = i
        BY <1>1, <1>6, <3>2
      <4>2. e.samples[j] = history[j + (n - m)]
        BY <1>6, <4>1
      <4>3. e.samples[j].timestamp < oldest
        BY <1>2, <4>1
      <4> HIDE DEF j
      <4>4. QED
        BY <4>1, <4>2, <4>3
    <3>3. QED
      BY <1>1, <1>6, <3>1, <3>2
  <2>2. QED
    BY <2>1
<1>8. Tracks(moved, history, oldest)
  BY <1>5, <1>6, <1>7 DEF Tracks, dropped
<1>9. QED
  BY <1>2, <1>3, <1>4, <1>5, <1>8, CompactTracks

\* The live samples of an entry that has just been pruned are the samples of the
\* history that are in the window.
LEMMA LiveIsRecent ==
    ASSUME NEW e, WellFormed(e), NEW history \in Seq(Sample), NEW oldest \in Nat,
           Sorted(history), Tracks(e, history, oldest),
           e.head < Len(e.samples) => e.samples[e.head + 1].timestamp >= oldest,
           NEW kinds
    PROVE  live(kinds, e) =
           Cardinality({i \in 1..Len(history) :
                          history[i].timestamp >= oldest /\ history[i].kind \in kinds})
<1> DEFINE m == Len(e.samples)
           n == Len(history)
           S == {i \in (e.head + 1)..m : e.samples[i].kind \in kinds}
           T == {i \in 1..n : history[i].timestamp >= oldest /\ history[i].kind \in kinds}
           f == [i \in S |-> i + (n - m)]
<1>1. /\ e.samples \in Seq(Sample) /\ e.head \in Nat /\ e.head <= m
      /\ m \in Nat /\ n \in Nat /\ m <= n
      /\ \A i \in 1..m : e.samples[i] = history[i + (n - m)]
      /\ \A i \in 1..((n - m) + e.head) : history[i].timestamp < oldest
      /\ \A i \in 1..n : history[i].timestamp \in Nat
  <2>1. e.samples \in Seq(Sample) /\ e.head \in Nat /\ e.head <= m
    BY DEF WellFormed, Counted, Entry
  <2>2. m \in Nat /\ n \in Nat
    BY <2>1, LenProperties
  <2>3. /\ m <= n
        /\ \A i \in 1..m : e.samples[i] = history[i + (n - m)]
        /\ \A i \in 1..((n - m) + e.head) : history[i].timestamp < oldest
    BY DEF Tracks, dropped
  <2>4. \A i \in 1..n : history[i] \in Sample
    BY ElementOfSeq
  <2>5. \A i \in 1..n : history[i].timestamp \in Nat
    BY <2>4 DEF Sample
  <2>6. QED
    BY <2>1, <2>2, <2>3, <2>5
<1>2. /\ \A i, j \in 1..n : i <= j => history[i].timestamp <= history[j].timestamp
      /\ e.head < m => e.samples[e.head + 1].timestamp >= oldest
  BY DEF Sorted
<1> HIDE DEF m, n
<1>3. ASSUME NEW i \in S
      PROVE  i \in Nat /\ i + (n - m) \in T
  <2>0. i \in (e.head + 1)..m /\ e.samples[i].kind \in kinds
    OBVIOUS
  <2>1. /\ i \in Nat /\ e.head < m /\ i \in 1..m /\ i + (n - m) \in 1..n
        /\ e.head + 1 \in 1..m /\ (e.head + 1) + (n - m) \in 1..n
        /\ (e.head + 1) + (n - m) <= i + (n - m)
    <3>1. e.head \in Nat /\ m \in Nat /\ n \in Nat /\ m <= n /\ i \in (e.head + 1)..m
      BY <1>1, <2>0
    <3> HIDE DEF S, T, f
    <3>2. i \in Nat /\ e.head + 1 <= i /\ i <= m
      BY <3>1
    <3>3. QED
      BY <3>1, <3>2
  <2>2. /\ history[i + (n - m)] = e.samples[i]
        /\ history[(e.head + 1) + (n - m)] = e.samples[e.head + 1]
    BY <1>1, <2>1
  <2>3. history[(e.head + 1) + (n - m)].timestamp <= history[i + (n - m)].timestamp
    BY <1>2, <2>1
  <2>4. /\ history[(e.head + 1) + (n - m)].timestamp \in Nat
        /\ history[i + (n - m)].timestamp \in Nat
        /\ history[(e.head + 1) + (n - m)].timestamp >= oldest
    BY <1>1, <1>2, <2>1, <2>2
  <2>5. history[i + (n - m)].timestamp >= oldest
    BY <2>3, <2>4
  <2>6. QED
    BY <2>0, <2>1, <2>2, <2>5
<1>4. ASSUME NEW j \in T
      PROVE  \E i \in S : i + (n - m) = j
  <2>1. j \in 1..n /\ ~(history[j].timestamp < oldest)
    BY <1>1
  <2>2. j \notin 1..((n - m) + e.head)
    BY <1>1, <2>1
  <2>3. /\ j - (n - m) \in (e.head + 1)..m /\ j - (n - m) \in 1..m
        /\ (j - (n - m)) + (n - m) = j
    BY <1>1, <2>1, <2>2
  <2>4. e.samples[j - (n - m)] = history[(j - (n - m)) + (n - m)]
    BY <1>1, <2>3
  <2>5. j - (n - m) \in S
    BY <2>3, <2>4
  <2>6. QED
    BY <2>3, <2>5
<1>5. IsFiniteSet(S)
  <2>1. IsFiniteSet((e.head + 1)..m)
    BY <1>1, FS_Interval
  <2>2. QED
    BY <2>1, FS_Subset
<1>6. f \in Bijection(S, T)
  <2>1. \A i, j \in S : f[i] = f[j] => i = j
    BY <1>1, <1>3
  <2>2. f \in [S -> T]
    BY <1>3
  <2>3. \A j \in T : \E i \in S : f[i] = j
    BY <1>4
  <2> HIDE DEF f, S, T
  <2>4. QED
    BY <2>1, <2>2, <2>3, Fun_IsBij
<1>7. Cardinality(S) = Cardinality(T)
  BY <1>5, <1>6, FS_Bijection DEF ExistsBijection
<1>8. QED
  BY <1>7 DEF live, countIn, m, n

\* Advancing to cooldown changes nothing but the state, and happens when the
\* cooldown has passed since the trip.
LEMMA AdvanceShape ==
    ASSUME NEW e \in Entry, NEW t \in Nat
    PROVE  LET after == maybeAdvanceToCooldown(e, t) IN
           /\ after.samples = e.samples /\ after.head = e.head
           /\ after.tripped_at = e.tripped_at /\ after.healthy = e.healthy
           /\ after.state = "closed" <=> e.state = "closed"
           /\ e.state = "closed" => after = e
           /\ after.state = "cooldown" =>
                 e.state = "cooldown" \/ t >= e.tripped_at + Cooldown
BY DEF maybeAdvanceToCooldown, Entry, States

\* Once it is in step with the clock, an entry's live samples are the history's
\* of the last Window units.
LEMMA SyncTracks ==
    ASSUME NEW e, WellFormed(e), NEW history \in Seq(Sample), NEW before \in Nat,
           NEW t \in Nat, before <= minTimestamp(t), Tracks(e, history, before)
    PROVE  LET after == syncEntry(e, t) IN
           /\ Tracks(after, history, minTimestamp(t))
           /\ after.tripped_at = e.tripped_at /\ after.healthy = e.healthy
           /\ after.state = "closed" <=> e.state = "closed"
           /\ after.state = "cooldown" =>
                 e.state = "cooldown" \/ t >= e.tripped_at + Cooldown
           /\ after.head < Len(after.samples) =>
                 after.samples[after.head + 1].timestamp >= minTimestamp(t)
<1> DEFINE oldest == minTimestamp(t)
           pruned == pruneWindow(e, oldest)
           after == maybeAdvanceToCooldown(pruned, t)
<1>1. oldest \in Nat
  BY BreakerAssumption DEF minTimestamp
<1>2. /\ pruned \in Entry /\ pruned.state = e.state
  BY <1>1, PruneWellFormed DEF WellFormed, Counted
<1>3. /\ Tracks(pruned, history, oldest)
      /\ pruned.tripped_at = e.tripped_at /\ pruned.healthy = e.healthy
      /\ pruned.head < Len(pruned.samples) =>
            pruned.samples[pruned.head + 1].timestamp >= oldest
  BY <1>1, PruneTracks
<1>4. syncEntry(e, t) = after
  BY DEF syncEntry
<1> HIDE DEF oldest, pruned
<1>5. /\ after.samples = pruned.samples /\ after.head = pruned.head
      /\ after.tripped_at = pruned.tripped_at /\ after.healthy = pruned.healthy
      /\ after.state = "closed" <=> pruned.state = "closed"
      /\ after.state = "cooldown" =>
            pruned.state = "cooldown" \/ t >= pruned.tripped_at + Cooldown
  BY <1>2, AdvanceShape
<1> HIDE DEF after
<1>6. Tracks(after, history, oldest)
  BY <1>3, <1>5 DEF Tracks, dropped
<1>7. QED
  BY <1>2, <1>3, <1>4, <1>5, <1>6 DEF oldest

----------------------------------------------------------------------------
(* The run of healthy acks.                                                *)

\* The last k acks of the history are healthy and not older than since.
HealthyRun(k, since, history) ==
    /\ countIn(Acks, history, 1, Len(history)) >= k
    /\ \A i \in lastAcks(history, k) :
          history[i].kind \in Sufficient /\ history[i].timestamp >= since

\* No ack is among the last none.
LEMMA NoRun ==
    ASSUME NEW history \in Seq(Sample), NEW since
    PROVE  HealthyRun(0, since, history)
<1> DEFINE n == Len(history)
<1>1. n \in Nat
  BY LenProperties
<1> HIDE DEF n
<1>2. ASSUME NEW i \in 1..n, history[i].kind \in Acks, countIn(Acks, history, i, n) <= 0
      PROVE  FALSE
  <2>1. i \in Nat /\ i <= n
    BY <1>1
  <2>2. countIn(Acks, history, i, n) =
          countIn(Acks, history, i, i) + countIn(Acks, history, i + 1, n)
    BY <1>1, <2>1, CountSplit
  <2>3. countIn(Acks, history, i, i) = 1
    BY <1>2, <2>1, CountOne
  <2>4. countIn(Acks, history, i + 1, n) \in Nat
    BY <1>1, <2>1, CountType
  <2>5. QED
    BY <1>2, <2>2, <2>3, <2>4
<1>3. countIn(Acks, history, 1, n) >= 0
  BY <1>1, CountType
<1>4. QED
  BY <1>2, <1>3 DEF HealthyRun, lastAcks, n

\* A checkpoint leaves the run as it is.
LEMMA RunKept ==
    ASSUME NEW history \in Seq(Sample), NEW s \in Sample, s.kind \notin Acks,
           NEW k \in Nat, NEW since, HealthyRun(k, since, history)
    PROVE  HealthyRun(k, since, Append(history, s))
<1> DEFINE longer == Append(history, s)
           n == Len(history)
<1>1. /\ n \in Nat /\ Len(longer) = n + 1 /\ longer[n + 1] = s
      /\ \A i \in 1..n : longer[i] = history[i]
  OBVIOUS
<1>2. \A i \in 1..(n + 1) : countIn(Acks, longer, i, n + 1) = countIn(Acks, history, i, n)
  <2>1. ASSUME NEW i \in 1..(n + 1)
        PROVE  countIn(Acks, longer, i, n + 1) = countIn(Acks, history, i, n)
    <3>1. i \in Nat \ {0} /\ i <= n + 1 /\ countIn(Acks, history, i, n) \in Nat
      BY <1>1, CountType
    <3>2. QED
      BY <1>1, <3>1, CountAppend
  <2>2. QED
    BY <2>1
<1> HIDE DEF longer, n
<1>3. lastAcks(longer, k) \subseteq lastAcks(history, k)
  <2>1. ASSUME NEW i \in lastAcks(longer, k) PROVE i \in lastAcks(history, k)
    <3>1. i \in 1..(n + 1) /\ longer[i].kind \in Acks /\ countIn(Acks, longer, i, n + 1) <= k
      BY <1>1 DEF lastAcks
    <3>2. i \in 1..n
      BY <1>1, <3>1
    <3>3. QED
      BY <1>1, <1>2, <3>1, <3>2 DEF lastAcks, n
  <2>2. QED
    BY <2>1
<1>4. ASSUME NEW i \in lastAcks(longer, k) PROVE longer[i] = history[i]
  BY <1>1, <1>3 DEF lastAcks, n
<1>5. countIn(Acks, longer, 1, n + 1) >= k
  BY <1>1, <1>2 DEF HealthyRun, n
<1>6. HealthyRun(k, since, longer)
  BY <1>1, <1>3, <1>4, <1>5 DEF HealthyRun
<1>7. QED
  BY <1>6 DEF longer

\* A healthy ack makes it longer by one.
LEMMA RunGrows ==
    ASSUME NEW history \in Seq(Sample), NEW s \in Sample, s.kind \in Sufficient,
           NEW k \in Nat, NEW since, s.timestamp >= since, HealthyRun(k, since, history)
    PROVE  HealthyRun(k + 1, since, Append(history, s))
<1> DEFINE longer == Append(history, s)
           n == Len(history)
<1>1. /\ n \in Nat /\ Len(longer) = n + 1 /\ longer[n + 1] = s
      /\ \A i \in 1..n : longer[i] = history[i]
  OBVIOUS
<1>2. \A i \in 1..(n + 1) :
        /\ countIn(Acks, history, i, n) \in Nat
        /\ countIn(Acks, longer, i, n + 1) = countIn(Acks, history, i, n) + 1
  <2>1. ASSUME NEW i \in 1..(n + 1)
        PROVE  /\ countIn(Acks, history, i, n) \in Nat
               /\ countIn(Acks, longer, i, n + 1) = countIn(Acks, history, i, n) + 1
    <3>1. i \in Nat \ {0} /\ i <= n + 1 /\ countIn(Acks, history, i, n) \in Nat
      BY <1>1, CountType
    <3>2. s.kind \in Acks
      BY DEF Sufficient
    <3>3. QED
      BY <1>1, <3>1, <3>2, CountAppend
  <2>2. QED
    BY <2>1
<1> HIDE DEF longer, n
<1>3. ASSUME NEW i \in lastAcks(longer, k + 1)
      PROVE  longer[i].kind \in Sufficient /\ longer[i].timestamp >= since
  <2>1. i \in 1..(n + 1) /\ longer[i].kind \in Acks /\ countIn(Acks, longer, i, n + 1) <= k + 1
    BY <1>1 DEF lastAcks
  <2>2. CASE i = n + 1
    BY <1>1, <2>2
  <2>3. CASE i # n + 1
    <3>1. i \in 1..n /\ countIn(Acks, history, i, n) <= k
      BY <1>1, <1>2, <2>1, <2>3
    <3>2. i \in lastAcks(history, k)
      BY <1>1, <2>1, <3>1 DEF lastAcks, n
    <3>3. QED
      BY <1>1, <3>1, <3>2 DEF HealthyRun
  <2>4. QED
    BY <2>2, <2>3
<1>4. countIn(Acks, longer, 1, n + 1) >= k + 1
  BY <1>1, <1>2 DEF HealthyRun, n
<1>5. HealthyRun(k + 1, since, longer)
  BY <1>1, <1>3, <1>4 DEF HealthyRun
<1>6. QED
  BY <1>5 DEF longer

----------------------------------------------------------------------------
(* The invariant that relates the entry to the history.                     *)

Timed(history, t) == \A i \in 1..Len(history) : history[i].timestamp <= t

Kept(e, history, t) ==
    /\ Sorted(history)
    /\ Timed(history, t)
    /\ Tracks(e, history, minTimestamp(t))
    /\ e.state = "cooldown" => t >= e.tripped_at + Cooldown
    /\ HealthyRun(e.healthy, e.tripped_at + Cooldown, history)

History == Kept(entry, log, now)

\* The window only moves forward.
LEMMA WindowMoves ==
    ASSUME NEW t \in Nat
    PROVE  /\ minTimestamp(t) \in Nat /\ minTimestamp(t + 1) \in Nat
           /\ minTimestamp(t) <= minTimestamp(t + 1)
BY BreakerAssumption DEF minTimestamp

\* A sample of now goes to the end of a sorted history.
LEMMA AppendSorted ==
    ASSUME NEW history \in Seq(Sample), NEW s \in Sample,
           Sorted(history), Timed(history, s.timestamp)
    PROVE  Sorted(Append(history, s)) /\ Timed(Append(history, s), s.timestamp)
<1> DEFINE longer == Append(history, s)
           n == Len(history)
<1>1. /\ n \in Nat /\ Len(longer) = n + 1 /\ longer[n + 1] = s
      /\ \A i \in 1..n : longer[i] = history[i]
  OBVIOUS
<1>2. s.timestamp \in Nat
  BY DEF Sample
<1> HIDE DEF longer
<1>3. Timed(longer, s.timestamp)
  BY <1>1, <1>2 DEF Timed
<1>4. ASSUME NEW i \in 1..(n + 1), NEW j \in 1..(n + 1), i <= j
      PROVE  longer[i].timestamp <= longer[j].timestamp
  <2>1. CASE j = n + 1
    BY <1>1, <1>3, <2>1 DEF Timed
  <2>2. CASE j # n + 1
    BY <1>1, <1>4, <2>2 DEF Sorted
  <2>3. QED
    BY <2>1, <2>2
<1>5. QED
  BY <1>1, <1>3, <1>4 DEF Sorted, longer

\* A fresh entry and an empty history are related.
LEMMA FreshKept == ASSUME NEW t \in Nat PROVE Kept(createDefaultSurfaceState, <<>>, t)
<1> DEFINE e == createDefaultSurfaceState
<1>1. e.state = "closed" /\ e.healthy = 0 /\ Len(e.samples) = 0 /\ e.head = 0
  BY DEF createDefaultSurfaceState
<1> HIDE DEF e
<1>2. <<>> \in Seq(Sample) /\ Len(<<>>) = 0
  OBVIOUS
<1>3. Sorted(<<>>) /\ Timed(<<>>, t) /\ Tracks(e, <<>>, minTimestamp(t))
  BY <1>1, <1>2 DEF Sorted, Timed, Tracks, dropped
<1>4. HealthyRun(e.healthy, e.tripped_at + Cooldown, <<>>)
  BY <1>1, <1>2, NoRun
<1>5. QED
  BY <1>1, <1>3, <1>4 DEF Kept, e

\* A checkpoint keeps the relation.
LEMMA CheckpointKept ==
    ASSUME NEW e, WellFormed(e), NEW history \in Seq(Sample), NEW t \in Nat,
           Kept(e, history, t)
    PROVE  Kept(afterCheckpoint(e, t), Append(history, [kind |-> "checkpoint", timestamp |-> t]), t)
<1> DEFINE s == [kind |-> "checkpoint", timestamp |-> t]
           synced == syncEntry(e, t)
           after == addSample(synced, s)
<1>1. s \in Sample /\ s.kind \notin Acks /\ s.timestamp = t
  BY DEF Sample, SampleKinds, Acks, Sufficiency
<1>2. minTimestamp(t) \in Nat
  BY WindowMoves
<1>3. /\ synced \in Entry /\ synced.head <= Len(synced.samples)
      /\ Tracks(synced, history, minTimestamp(t))
      /\ synced.tripped_at = e.tripped_at /\ synced.healthy = e.healthy
      /\ synced.state = "cooldown" =>
            e.state = "cooldown" \/ t >= e.tripped_at + Cooldown
  BY <1>2, SyncTracks, SyncWellFormed DEF Kept, WellFormed, Counted
<1> HIDE DEF s, synced
<1>4. /\ after.tripped_at = synced.tripped_at /\ after.healthy = synced.healthy
      /\ after.state = synced.state
  BY <1>1, <1>3, AddSampleShape
<1>5. Tracks(after, Append(history, s), minTimestamp(t))
  BY <1>1, <1>2, <1>3, AddSampleTracks
<1>6. Sorted(Append(history, s)) /\ Timed(Append(history, s), t)
  BY <1>1, AppendSorted DEF Kept
<1>7. HealthyRun(after.healthy, after.tripped_at + Cooldown, Append(history, s))
  BY <1>1, <1>3, <1>4, RunKept DEF Kept, WellFormed, Counted, Entry
<1>8. after.state = "cooldown" => t >= after.tripped_at + Cooldown
  BY <1>3, <1>4 DEF Kept
<1>9. Kept(after, Append(history, s), t)
  BY <1>5, <1>6, <1>7, <1>8 DEF Kept
<1>10. QED
  BY <1>9 DEF afterCheckpoint, after, synced, s

\* An ack keeps it, too, unless it closes the breaker; and then the last
\* HealthyClose acks are healthy and came after the cooldown.
LEMMA AckKept ==
    ASSUME NEW e, WellFormed(e), NEW history \in Seq(Sample), NEW t \in Nat,
           Kept(e, history, t), NEW sufficiency \in Sufficiency
    PROVE  LET after  == afterAck(e, sufficiency, t)
               longer == Append(history, [kind |-> sufficiency, timestamp |-> t])
           IN  IF e.state # "closed" /\ after.state = "closed"
               THEN /\ after = createDefaultSurfaceState
                    /\ HealthyRun(HealthyClose, e.tripped_at + Cooldown, longer)
               ELSE Kept(after, longer, t)
<1> DEFINE s == [kind |-> sufficiency, timestamp |-> t]
           longer == Append(history, s)
           synced == syncEntry(e, t)
           added == addSample(synced, s)
           ready == maybeAdvanceToCooldown(added, t)
           after == maybeCloseFromCooldown(ready, sufficiency)
           since == e.tripped_at + Cooldown
<1>1. /\ s \in Sample /\ s.kind = sufficiency /\ s.timestamp = t
      /\ sufficiency # "needs_followup" => s.kind \in Sufficient
  BY DEF Sample, SampleKinds, Acks, Sufficient, Followups
<1>2. minTimestamp(t) \in Nat
  BY WindowMoves
<1>3. /\ synced \in Entry /\ synced.head <= Len(synced.samples)
      /\ Tracks(synced, history, minTimestamp(t))
      /\ synced.tripped_at = e.tripped_at /\ synced.healthy = e.healthy
      /\ synced.state = "closed" <=> e.state = "closed"
      /\ synced.state = "cooldown" => e.state = "cooldown" \/ t >= since
  BY <1>2, SyncTracks, SyncWellFormed DEF Kept, WellFormed, Counted
<1>4. afterAck(e, sufficiency, t) = after
  BY DEF afterAck
<1>5. WellFormed(synced)
  BY SyncWellFormed
<1> HIDE DEF s, synced
<1>6. /\ WellFormed(added) /\ added \in Entry
      /\ added.tripped_at = synced.tripped_at /\ added.healthy = synced.healthy
      /\ added.state = synced.state
      /\ Tracks(added, longer, minTimestamp(t))
  BY <1>1, <1>2, <1>3, <1>5, AddSampleShape, AddSampleTracks, AddSampleWellFormed
<1> HIDE DEF added, longer
<1>7. /\ ready.samples = added.samples /\ ready.head = added.head
      /\ ready.tripped_at = added.tripped_at /\ ready.healthy = added.healthy
      /\ ready.state = "closed" <=> added.state = "closed"
      /\ ready.state = "cooldown" => added.state = "cooldown" \/ t >= added.tripped_at + Cooldown
  BY <1>6, AdvanceShape
<1>8. WellFormed(ready)
  BY <1>6, AdvanceWellFormed
<1> HIDE DEF ready
<1>9. /\ Tracks(ready, longer, minTimestamp(t))
      /\ ready.tripped_at = e.tripped_at /\ ready.healthy = e.healthy
      /\ ready.state = "closed" <=> e.state = "closed"
      /\ ready.state = "cooldown" => t >= since
      /\ ready \in Entry /\ ready.healthy \in Nat
      /\ ready.healthy > 0 => ready.state = "cooldown" /\ ready.healthy < HealthyClose
  <2>1. Tracks(ready, longer, minTimestamp(t))
    BY <1>6, <1>7 DEF Tracks, dropped
  <2>2. /\ ready.tripped_at = e.tripped_at /\ ready.healthy = e.healthy
        /\ ready.state = "closed" <=> e.state = "closed"
    BY <1>3, <1>6, <1>7
  <2>3. ready.state = "cooldown" => t >= since
    BY <1>3, <1>6, <1>7 DEF Kept
  <2>4. /\ ready \in Entry /\ ready.healthy \in Nat
        /\ ready.healthy > 0 => ready.state = "cooldown" /\ ready.healthy < HealthyClose
    BY <1>8 DEF WellFormed, Counted, Consistent, Entry
  <2>5. QED
    BY <2>1, <2>2, <2>3, <2>4
<1>10. /\ longer \in Seq(Sample) /\ Sorted(longer) /\ Timed(longer, t)
  BY <1>1, AppendSorted DEF longer, Kept
<1>11. ASSUME sufficiency # "needs_followup", ready.state = "cooldown"
       PROVE  HealthyRun(e.healthy + 1, since, longer)
  BY <1>1, <1>9, <1>11, RunGrows DEF Kept, longer
<1> HIDE DEF since
<1>12. CASE ready.state # "cooldown"
  <2>1. after = ready
    BY <1>12 DEF maybeCloseFromCooldown
  <2>2. ready.healthy = 0
    BY <1>9, <1>12
  <2>3. HealthyRun(ready.healthy, ready.tripped_at + Cooldown, longer)
    BY <1>10, <2>2, NoRun
  <2>4. Kept(ready, longer, t)
    BY <1>9, <1>10, <1>12, <2>3 DEF Kept
  <2>5. QED
    BY <1>4, <1>9, <2>1, <2>4 DEF longer, s
<1>13. CASE ready.state = "cooldown" /\ sufficiency = "needs_followup"
  <2>1. after = [ready EXCEPT !.healthy = 0]
    BY <1>13 DEF maybeCloseFromCooldown
  <2>2. /\ after.samples = ready.samples /\ after.head = ready.head /\ after.state = ready.state
        /\ after.tripped_at = ready.tripped_at /\ after.healthy = 0
    BY <1>9, <2>1 DEF Entry
  <2>3. HealthyRun(after.healthy, after.tripped_at + Cooldown, longer)
    BY <1>10, <2>2, NoRun
  <2> HIDE DEF after
  <2>4. Kept(after, longer, t)
    BY <1>9, <1>10, <2>2, <2>3 DEF Kept, Tracks, dropped, since
  <2>5. after.state # "closed"
    BY <1>13, <2>2
  <2>6. QED
    BY <1>4, <2>4, <2>5 DEF longer, s
<1>14. CASE /\ ready.state = "cooldown" /\ sufficiency # "needs_followup"
            /\ ready.healthy + 1 >= HealthyClose
  <2>1. after = createDefaultSurfaceState /\ after.state = "closed"
    BY <1>14 DEF maybeCloseFromCooldown, closeSurfaceState, createDefaultSurfaceState
  <2>2. e.healthy + 1 = HealthyClose
    BY <1>9, <1>14, BreakerAssumption
  <2>3. HealthyRun(HealthyClose, since, longer)
    BY <1>11, <1>14, <2>2
  <2>4. e.state # "closed"
    BY <1>9, <1>14
  <2>5. QED
    BY <1>4, <2>1, <2>3, <2>4 DEF longer, s, since
<1>15. CASE /\ ready.state = "cooldown" /\ sufficiency # "needs_followup"
            /\ ~(ready.healthy + 1 >= HealthyClose)
  <2>1. after = [ready EXCEPT !.healthy = @ + 1]
    BY <1>15 DEF maybeCloseFromCooldown
  <2>2. /\ after.samples = ready.samples /\ after.head = ready.head /\ after.state = ready.state
        /\ after.tripped_at = ready.tripped_at /\ after.healthy = e.healthy + 1
    BY <1>9, <2>1 DEF Entry
  <2>3. HealthyRun(after.healthy, after.tripped_at + Cooldown, longer)
    BY <1>9, <1>11, <1>15, <2>2 DEF since
  <2> HIDE DEF after
  <2>4. Kept(after, longer, t)
    BY <1>9, <1>10, <2>2, <2>3 DEF Kept, Tracks, dropped, since
  <2>5. after.state # "closed"
    BY <1>15, <2>2
  <2>6. QED
    BY <1>4, <2>4, <2>5 DEF longer, s
<1>16. QED
  BY <1>12, <1>13, <1>14, <1>15

\* A status call keeps it: it adds no sample, and a trip ends the run of acks.
LEMMA StatusKept ==
    ASSUME NEW e, WellFormed(e), NEW history \in Seq(Sample), NEW t \in Nat,
           Kept(e, history, t)
    PROVE  Kept(afterStatus(e, t), history, t)
<1> DEFINE synced == syncEntry(e, t)
           why == {r \in {"low_ack_rate", "high_followup_rate"} :
                     \/ r = "low_ack_rate" /\ lowAckRate(synced.checkpoints, synced.acks)
                     \/ r = "high_followup_rate"
                        /\ highFollowupRate(synced.acks, synced.followups)}
           tripped == [synced EXCEPT !.state = "open", !.tripped_at = t,
                                     !.reasons = why, !.healthy = 0]
<1>1. minTimestamp(t) \in Nat
  BY WindowMoves
<1>2. /\ synced \in Entry
      /\ Tracks(synced, history, minTimestamp(t))
      /\ synced.tripped_at = e.tripped_at /\ synced.healthy = e.healthy
      /\ synced.state = "cooldown" =>
            e.state = "cooldown" \/ t >= e.tripped_at + Cooldown
  BY <1>1, SyncTracks, SyncWellFormed DEF Kept, WellFormed, Counted
<1>3. afterStatus(e, t) \in {synced, tripped}
  BY DEF afterStatus, maybeTripSurface
<1> HIDE DEF synced, why
<1>4. Kept(synced, history, t)
  BY <1>2 DEF Kept
<1>5. /\ tripped.samples = synced.samples /\ tripped.head = synced.head
      /\ tripped.state = "open" /\ tripped.healthy = 0
  BY <1>2 DEF Entry
<1> HIDE DEF tripped
<1>6. HealthyRun(tripped.healthy, tripped.tripped_at + Cooldown, history)
  BY <1>5, NoRun
<1>7. Kept(tripped, history, t)
  BY <1>2, <1>5, <1>6 DEF Kept, Tracks, dropped
<1>8. QED
  BY <1>3, <1>4, <1>7

\* The clock keeps it: what is older than the window stays so.
LEMMA TickKept ==
    ASSUME NEW e, WellFormed(e), NEW history \in Seq(Sample), NEW t \in Nat,
           Kept(e, history, t)
    PROVE  Kept(e, history, t + 1)
<1>1. \A i \in 1..Len(history) : history[i].timestamp \in Nat
  <2>1. \A i \in 1..Len(history) : history[i] \in Sample
    BY ElementOfSeq
  <2>2. QED
    BY <2>1 DEF Sample
<1>2. Timed(history, t + 1)
  BY <1>1 DEF Kept, Timed
<1>3. Tracks(e, history, minTimestamp(t + 1))
  <2>1. /\ e.head \in Nat /\ e.head <= Len(e.samples)
        /\ Len(e.samples) \in Nat /\ Len(history) \in Nat
    BY LenProperties DEF WellFormed, Counted, Entry
  <2>2. ASSUME NEW i \in 1..(dropped(e, history) + e.head)
        PROVE  history[i].timestamp < minTimestamp(t + 1)
    <3>1. i \in 1..Len(history)
      BY <2>1 DEF Kept, Tracks, dropped
    <3>2. history[i].timestamp < minTimestamp(t)
      BY DEF Kept, Tracks
    <3>3. history[i].timestamp \in Nat
      BY <1>1, <3>1
    <3>4. /\ minTimestamp(t) \in Nat /\ minTimestamp(t + 1) \in Nat
          /\ minTimestamp(t) <= minTimestamp(t + 1)
      BY WindowMoves
    <3>5. QED
      BY <3>2, <3>3, <3>4
  <2>3. QED
    BY <2>2 DEF Kept, Tracks
<1>4. e.state = "cooldown" => t + 1 >= e.tripped_at + Cooldown
  BY BreakerAssumption DEF Kept, WellFormed, Counted, Consistent, Entry
<1>5. QED
  BY <1>2, <1>3, <1>4 DEF Kept

\* Every step keeps the relation between the entry and the history.
LEMMA HistoryStep == Inv /\ History /\ [Next]_vars => History'
<1> SUFFICES ASSUME Inv, History, [Next]_vars PROVE History'
  OBVIOUS
<1>1. WellFormed(entry) /\ now \in Nat /\ log \in Seq(Sample) /\ Kept(entry, log, now)
  BY DEF Inv, History
<1>2. CASE recordCheckpoint
  BY <1>1, <1>2, CheckpointKept DEF recordCheckpoint, History
<1>3. ASSUME NEW sufficiency \in Sufficiency, recordAck(sufficiency) PROVE History'
  <2>1. CASE entry.state # "closed" /\ entry'.state = "closed"
    <3>1. entry' = createDefaultSurfaceState /\ log' = <<>> /\ now' = now
      BY <1>1, <1>3, <2>1, AckKept DEF recordAck
    <3>2. QED
      BY <1>1, <3>1, FreshKept DEF History
  <2>2. CASE ~(entry.state # "closed" /\ entry'.state = "closed")
    <3>1. Kept(entry', log', now) /\ now' = now
      BY <1>1, <1>3, <2>2, AckKept DEF recordAck
    <3>2. QED
      BY <3>1 DEF History
  <2>3. QED
    BY <2>1, <2>2
<1>4. CASE getStatus
  BY <1>1, <1>4, StatusKept DEF getStatus, History
<1>5. CASE reset
  BY <1>1, <1>5, FreshKept DEF reset, closeSurfaceState, History
<1>6. CASE Tick
  BY <1>1, <1>6, TickKept DEF Tick, History
<1>7. CASE UNCHANGED vars
  BY <1>1, <1>7 DEF vars, History
<1>8. QED
  BY <1>2, <1>3, <1>4, <1>5, <1>6, <1>7 DEF Next

\* Both invariants hold in every reachable state.
LEMMA HistoryAlways == Spec => [](Inv /\ History)
<1>1. Init => Inv /\ History
  BY FreshWellFormed, FreshKept DEF Init, Inv, History
<1>2. Inv /\ History /\ [Next]_vars => (Inv /\ History)'
  BY InvStep, HistoryStep
<1>3. QED
  BY <1>1, <1>2, PTL DEF Spec

\* A status call on a closed breaker opens it if and only if the samples of the
\* last Window units since it last closed are unhealthy.
THEOREM StatusExact == Spec => []StatusIsExact
<1>1. ASSUME Inv, History, entry.state = "closed"
      PROVE  afterStatus(entry, now).state = "open" <=> unhealthy
  <2> DEFINE pruned == pruneWindow(entry, minTimestamp(now))
             why == {r \in {"low_ack_rate", "high_followup_rate"} :
                       \/ r = "low_ack_rate" /\ lowAckRate(pruned.checkpoints, pruned.acks)
                       \/ r = "high_followup_rate"
                          /\ highFollowupRate(pruned.acks, pruned.followups)}
  <2>1. WellFormed(entry) /\ now \in Nat /\ log \in Seq(Sample) /\ Kept(entry, log, now)
    BY <1>1 DEF Inv, History
  <2>2. minTimestamp(now) \in Nat
    BY <2>1, WindowMoves
  <2>3. WellFormed(pruned) /\ pruned.state = "closed" /\ pruned \in Entry
    BY <1>1, <2>1, <2>2, PruneWellFormed DEF WellFormed, Counted
  <2>4. /\ Tracks(pruned, log, minTimestamp(now))
        /\ pruned.head < Len(pruned.samples) =>
              pruned.samples[pruned.head + 1].timestamp >= minTimestamp(now)
    BY <2>1, <2>2, PruneTracks DEF Kept
  <2> HIDE DEF pruned
  <2>5. \A kinds : live(kinds, pruned) = recent(kinds)
    BY <2>1, <2>2, <2>3, <2>4, LiveIsRecent DEF Kept, recent
  <2>6. /\ pruned.checkpoints = recent(Checkpoints) /\ pruned.acks = recent(Acks)
        /\ pruned.followups = recent(Followups)
    BY <2>3, <2>5 DEF WellFormed, Counted
  <2>7. syncEntry(entry, now) = pruned
    BY <2>1, <2>3, AdvanceShape DEF syncEntry, pruned
  <2>8. afterStatus(entry, now) = maybeTripSurface(pruned, now)
    BY <2>7 DEF afterStatus
  <2>9. why = {} <=> ~unhealthy
    BY <2>6 DEF unhealthy
  <2>10. maybeTripSurface(pruned, now) =
           IF pruned.state # "closed" \/ why = {} THEN pruned
           ELSE [pruned EXCEPT !.state = "open", !.tripped_at = now,
                               !.reasons = why, !.healthy = 0]
    BY DEF maybeTripSurface
  <2> HIDE DEF why
  <2>11. [pruned EXCEPT !.state = "open", !.tripped_at = now,
                        !.reasons = why, !.healthy = 0].state = "open"
    BY <2>3 DEF Entry
  <2>12. QED
    BY <2>3, <2>8, <2>9, <2>10, <2>11
<1>2. Inv /\ History => StatusIsExact
  BY <1>1 DEF StatusIsExact
<1>3. QED
  BY <1>2, HistoryAlways, PTL

\* An ack closes the breaker only when the last HealthyClose acks were healthy
\* and all of them came after the cooldown had passed.
THEOREM ClosesOnHealthyRun == Spec => ClosesAfterHealthyRun
<1> DEFINE closing(sufficiency) ==
             recordAck(sufficiency) /\ entry.state # "closed" /\ entry'.state = "closed" =>
                LET history == Append(log, [kind |-> sufficiency, timestamp |-> now])
                IN  /\ countIn(Acks, history, 1, Len(history)) >= HealthyClose
                    /\ \A i \in lastAcks(history, HealthyClose) :
                        /\ history[i].kind \in Sufficient
                        /\ history[i].timestamp >= entry.tripped_at + Cooldown
<1>1. ASSUME Inv, History, NEW sufficiency \in Sufficiency PROVE closing(sufficiency)
  <2>1. WellFormed(entry) /\ now \in Nat /\ log \in Seq(Sample) /\ Kept(entry, log, now)
    BY <1>1 DEF Inv, History
  <2>2. QED
    BY <2>1, AckKept DEF recordAck, HealthyRun
<1>2. Inv /\ History => [\A sufficiency \in Sufficiency : closing(sufficiency)]_vars
  BY <1>1
<1>3. Spec => [][\A sufficiency \in Sufficiency : closing(sufficiency)]_vars
  BY <1>2, HistoryAlways, PTL
<1>4. QED
  BY <1>3 DEF ClosesAfterHealthyRun

----------------------------------------------------------------------------
(* The breaker implements BreakerPolicy.  For the ack that closes the breaker *)
(* the count of healthy acks must be the longest run there is, too.          *)

Longest(e, history) ==
    e.state # "closed" =>
        \A k \in Nat : HealthyRun(k, e.tripped_at + Cooldown, history) => k <= e.healthy

\* If there is an ack, one of them is the last.
LEMMA LastAck ==
    ASSUME NEW history \in Seq(Sample), countIn(Acks, history, 1, Len(history)) >= 1
    PROVE  lastAcks(history, 1) # {}
<1> DEFINE n == Len(history)
           A == {i \in 1..n : history[i].kind \in Acks}
           D == {n - i : i \in A}
<1>1. n \in Nat
  BY LenProperties
<1>2. A # {}
  <2>1. ASSUME A = {} PROVE countIn(Acks, history, 1, n) = 0
    BY <2>1, FS_EmptySet DEF countIn
  <2>2. QED
    BY <2>1
<1> HIDE DEF n
<1>3. D \in SUBSET Nat /\ D # {}
  BY <1>1, <1>2
<1>4. PICK d \in D : \A x \in D : d <= x
  BY <1>3, LeastNumber
<1>5. PICK i \in A : d = n - i
  BY <1>4
<1>6. i \in 1..n /\ i \in Nat /\ history[i].kind \in Acks
  BY <1>1
<1>7. ASSUME NEW j \in (i + 1)..n PROVE history[j].kind \notin Acks
  <2>1. j \in 1..n /\ n - j < n - i
    BY <1>1, <1>6
  <2>2. ASSUME j \in A PROVE FALSE
    <3>1. n - j \in D
      BY <2>2
    <3>2. n - i <= n - j
      BY <1>4, <1>5, <3>1
    <3>3. QED
      BY <1>1, <1>6, <2>1, <3>2
  <2>3. QED
    BY <2>1, <2>2
<1>8. countIn(Acks, history, i + 1, n) = 0
  <2>1. {j \in (i + 1)..n : history[j].kind \in Acks} = {}
    BY <1>7
  <2>2. QED
    BY <2>1, FS_EmptySet DEF countIn
<1>9. countIn(Acks, history, i, n) = countIn(Acks, history, i, i) + countIn(Acks, history, i + 1, n)
  BY <1>1, <1>6, CountSplit
<1>10. countIn(Acks, history, i, i) = 1
  BY <1>6, CountOne
<1>11. countIn(Acks, history, i, n) <= 1
  BY <1>8, <1>9, <1>10
<1>12. i \in lastAcks(history, 1)
  BY <1>6, <1>11 DEF lastAcks, n
<1>13. QED
  BY <1>12

\* Acks from before the cooldown make no run.
LEMMA EarlyRun ==
    ASSUME NEW history \in Seq(Sample), NEW since \in Nat, NEW k \in Nat,
           \A i \in 1..Len(history) : ~(history[i].timestamp >= since),
           HealthyRun(k, since, history)
    PROVE  k = 0
<1> SUFFICES ASSUME k >= 1 PROVE FALSE
  OBVIOUS
<1>1. 1 \in Nat /\ Len(history) \in Nat
  BY LenProperties
<1>2. countIn(Acks, history, 1, Len(history)) \in Nat
  BY <1>1, CountType
<1>3. lastAcks(history, 1) # {}
  BY <1>2, LastAck DEF HealthyRun
<1>4. PICK i \in lastAcks(history, 1) : TRUE
  BY <1>3
<1>5. i \in 1..Len(history) /\ countIn(Acks, history, i, Len(history)) <= 1
      /\ history[i].kind \in Acks
  BY DEF lastAcks
<1>6. countIn(Acks, history, i, Len(history)) \in Nat
  BY <1>1, <1>5, CountType
<1>7. i \in lastAcks(history, k)
  BY <1>5, <1>6 DEF lastAcks
<1>8. QED
  BY <1>5, <1>7 DEF HealthyRun

\* A run of a history that ends in a checkpoint is one without it.
LEMMA RunBeforeCheckpoint ==
    ASSUME NEW history \in Seq(Sample), NEW s \in Sample, s.kind \notin Acks,
           NEW k \in Nat, NEW since, HealthyRun(k, since, Append(history, s))
    PROVE  HealthyRun(k, since, history)
<1> DEFINE longer == Append(history, s)
           n == Len(history)
<1>1. /\ n \in Nat /\ Len(longer) = n + 1 /\ longer[n + 1] = s
      /\ \A i \in 1..n : longer[i] = history[i]
  OBVIOUS
<1>2. \A i \in 1..(n + 1) : countIn(Acks, longer, i, n + 1) = countIn(Acks, history, i, n)
  <2>1. ASSUME NEW i \in 1..(n + 1)
        PROVE  countIn(Acks, longer, i, n + 1) = countIn(Acks, history, i, n)
    <3>1. i \in Nat \ {0} /\ i <= n + 1 /\ countIn(Acks, history, i, n) \in Nat
      BY <1>1, CountType
    <3>2. QED
      BY <1>1, <3>1, CountAppend
  <2>2. QED
    BY <2>1
<1>3. HealthyRun(k, since, longer)
  OBVIOUS
<1> HIDE DEF longer, n
<1>4. ASSUME NEW i \in lastAcks(history, k)
      PROVE  history[i].kind \in Sufficient /\ history[i].timestamp >= since
  <2>1. i \in 1..n /\ history[i].kind \in Acks /\ countIn(Acks, history, i, n) <= k
    BY DEF lastAcks, n
  <2>2. i \in 1..(n + 1) /\ longer[i] = history[i]
    BY <1>1, <2>1
  <2>3. i \in lastAcks(longer, k)
    BY <1>1, <1>2, <2>1, <2>2 DEF lastAcks
  <2>4. QED
    BY <1>3, <2>2, <2>3 DEF HealthyRun
<1>5. countIn(Acks, history, 1, n) >= k
  BY <1>1, <1>2, <1>3 DEF HealthyRun
<1>6. QED
  BY <1>4, <1>5 DEF HealthyRun, n

\* A run of a history that ends in an ack has it as its last, and is shorter by
\* one without it.
LEMMA RunBeforeAck ==
    ASSUME NEW history \in Seq(Sample), NEW s \in Sample, s.kind \in Acks,
           NEW k \in Nat \ {0}, NEW since, HealthyRun(k, since, Append(history, s))
    PROVE  /\ s.kind \in Sufficient /\ s.timestamp >= since
           /\ HealthyRun(k - 1, since, history)
<1> DEFINE longer == Append(history, s)
           n == Len(history)
<1>1. /\ n \in Nat /\ Len(longer) = n + 1 /\ longer[n + 1] = s
      /\ \A i \in 1..n : longer[i] = history[i]
  OBVIOUS
<1>2. \A i \in 1..(n + 1) :
        /\ countIn(Acks, history, i, n) \in Nat
        /\ countIn(Acks, longer, i, n + 1) = countIn(Acks, history, i, n) + 1
  <2>1. ASSUME NEW i \in 1..(n + 1)
        PROVE  /\ countIn(Acks, history, i, n) \in Nat
               /\ countIn(Acks, longer, i, n + 1) = countIn(Acks, history, i, n) + 1
    <3>1. i \in Nat \ {0} /\ i <= n + 1 /\ countIn(Acks, history, i, n) \in Nat
      BY <1>1, CountType
    <3>2. QED
      BY <1>1, <3>1, CountAppend
  <2>2. QED
    BY <2>1
<1>3. HealthyRun(k, since, longer)
  OBVIOUS
<1> HIDE DEF longer
<1>4. s.kind \in Sufficient /\ s.timestamp >= since
  <2>1. countIn(Acks, longer, n + 1, n + 1) = 1
    BY <1>1, CountOne
  <2>2. n + 1 \in lastAcks(longer, k)
    BY <1>1, <2>1 DEF lastAcks
  <2>3. QED
    BY <1>1, <1>3, <2>2 DEF HealthyRun
<1> HIDE DEF n
<1>5. ASSUME NEW i \in lastAcks(history, k - 1)
      PROVE  history[i].kind \in Sufficient /\ history[i].timestamp >= since
  <2>1. i \in 1..n /\ history[i].kind \in Acks /\ countIn(Acks, history, i, n) <= k - 1
    BY DEF lastAcks, n
  <2>2. i \in 1..(n + 1) /\ longer[i] = history[i]
    BY <1>1, <2>1
  <2>3. countIn(Acks, longer, i, n + 1) <= k
    BY <1>2, <2>1, <2>2
  <2>4. i \in lastAcks(longer, k)
    BY <1>1, <2>1, <2>2, <2>3 DEF lastAcks
  <2>5. QED
    BY <1>3, <2>2, <2>4 DEF HealthyRun
<1>6. countIn(Acks, history, 1, n) >= k - 1
  BY <1>1, <1>2, <1>3 DEF HealthyRun
<1>7. QED
  BY <1>4, <1>5, <1>6 DEF HealthyRun, n
\* The state that a call at time t finds.
stateAt(e, t) ==
    IF e.state = "open" /\ t >= e.tripped_at + Cooldown THEN "cooldown" ELSE e.state

\* Compaction keeps the whole trip record.
LEMMA CompactShape ==
    ASSUME NEW e, WellFormed(e)
    PROVE  LET after == maybeCompactSamples(e) IN
           /\ after.state = e.state /\ after.tripped_at = e.tripped_at
           /\ after.reasons = e.reasons /\ after.healthy = e.healthy
<1> DEFINE cut == SubSeq(e.samples, e.head + 1, Len(e.samples))
           after == [e EXCEPT !.samples = cut, !.head = 0]
<1>1. e \in Entry
  BY DEF WellFormed, Counted
<1>2. maybeCompactSamples(e) \in {e, after}
  BY DEF maybeCompactSamples
<1> HIDE DEF cut
<1>3. /\ after.state = e.state /\ after.tripped_at = e.tripped_at
      /\ after.reasons = e.reasons /\ after.healthy = e.healthy
  BY <1>1 DEF Entry
<1>4. QED
  BY <1>2, <1>3

\* Pruning keeps the whole trip record.
LEMMA PruneShape ==
    ASSUME NEW e, WellFormed(e), NEW oldest \in Nat
    PROVE  LET after == pruneWindow(e, oldest) IN
           /\ after \in Entry
           /\ after.state = e.state /\ after.tripped_at = e.tripped_at
           /\ after.reasons = e.reasons /\ after.healthy = e.healthy
<1> DEFINE h == newHead(e, oldest)
           gone(kinds) == countIn(kinds, e.samples, e.head + 1, h)
           moved == [e EXCEPT !.head        = h,
                              !.checkpoints = @ - gone(Checkpoints),
                              !.acks        = @ - gone(Acks),
                              !.sufficient  = @ - gone(Sufficient),
                              !.followups   = @ - gone(Followups)]
<1>1. WellFormed(moved)
  BY PruneMoves
<1>2. pruneWindow(e, oldest) = maybeCompactSamples(moved)
  BY DEF pruneWindow
<1>3. e \in Entry
  BY DEF WellFormed, Counted
<1> HIDE DEF h, gone
<1>4. /\ moved.state = e.state /\ moved.tripped_at = e.tripped_at
      /\ moved.reasons = e.reasons /\ moved.healthy = e.healthy
  BY <1>3 DEF Entry
<1> HIDE DEF moved
<1>5. QED
  BY <1>1, <1>2, <1>4, CompactShape, CompactWellFormed DEF WellFormed, Counted

\* Bringing an entry in step with the clock changes its state only, to the one
\* that the call finds.
LEMMA SyncShape ==
    ASSUME NEW e, WellFormed(e), NEW t \in Nat
    PROVE  LET after == syncEntry(e, t) IN
           /\ after \in Entry
           /\ after.state = stateAt(e, t) /\ after.tripped_at = e.tripped_at
           /\ after.reasons = e.reasons /\ after.healthy = e.healthy
<1> DEFINE pruned == pruneWindow(e, minTimestamp(t))
           cooled == [pruned EXCEPT !.state = "cooldown"]
<1>1. minTimestamp(t) \in Nat
  BY WindowMoves
<1>2. /\ pruned \in Entry
      /\ pruned.state = e.state /\ pruned.tripped_at = e.tripped_at
      /\ pruned.reasons = e.reasons /\ pruned.healthy = e.healthy
  BY <1>1, PruneShape
<1>3. e.state = "open" => e.tripped_at # NoTime
  BY DEF WellFormed, Consistent
<1>4. syncEntry(e, t) =
        IF pruned.state = "open" /\ pruned.tripped_at # NoTime
              /\ t >= pruned.tripped_at + Cooldown
        THEN cooled ELSE pruned
  BY DEF syncEntry, maybeAdvanceToCooldown
<1> HIDE DEF pruned
<1>5. /\ cooled.state = "cooldown" /\ cooled.tripped_at = pruned.tripped_at
      /\ cooled.reasons = pruned.reasons /\ cooled.healthy = pruned.healthy
      /\ cooled \in Entry
  BY <1>2 DEF Entry, States
<1> HIDE DEF cooled
<1>6. QED
  BY <1>2, <1>3, <1>4, <1>5 DEF stateAt

\* A checkpoint changes the state only, in the same way.
LEMMA CheckpointShape ==
    ASSUME NEW e, WellFormed(e), NEW t \in Nat
    PROVE  LET after == afterCheckpoint(e, t) IN
           /\ after.state = stateAt(e, t) /\ after.tripped_at = e.tripped_at
           /\ after.reasons = e.reasons /\ after.healthy = e.healthy
<1> DEFINE s == [kind |-> "checkpoint", timestamp |-> t]
<1>1. s \in Sample
  BY DEF Sample, SampleKinds
<1>2. afterCheckpoint(e, t) = addSample(syncEntry(e, t), s)
  BY DEF afterCheckpoint
<1> HIDE DEF s
<1>3. QED
  BY <1>1, <1>2, SyncShape, AddSampleShape

\* An ack in cooldown counts, or ends the run, or closes the breaker.
LEMMA AckShape ==
    ASSUME NEW e, WellFormed(e), NEW t \in Nat, NEW sufficiency \in Sufficiency
    PROVE  LET after == afterAck(e, sufficiency, t)
               cooling == stateAt(e, t) = "cooldown"
               healthy == sufficiency # "needs_followup"
           IN  IF cooling /\ healthy /\ e.healthy + 1 >= HealthyClose
               THEN after = createDefaultSurfaceState
               ELSE /\ after.state = stateAt(e, t) /\ after.tripped_at = e.tripped_at
                    /\ after.reasons = e.reasons
                    /\ after.healthy = IF ~cooling THEN e.healthy
                                       ELSE IF healthy THEN e.healthy + 1 ELSE 0
<1> DEFINE s == [kind |-> sufficiency, timestamp |-> t]
           synced == syncEntry(e, t)
           added == addSample(synced, s)
           ended == [added EXCEPT !.healthy = 0]
           grown == [added EXCEPT !.healthy = @ + 1]
<1>1. s \in Sample
  BY DEF Sample, SampleKinds
<1>2. /\ added \in Entry
      /\ added.state = stateAt(e, t) /\ added.tripped_at = e.tripped_at
      /\ added.reasons = e.reasons /\ added.healthy = e.healthy
  <2>1. /\ synced \in Entry
        /\ synced.state = stateAt(e, t) /\ synced.tripped_at = e.tripped_at
        /\ synced.reasons = e.reasons /\ synced.healthy = e.healthy
    BY SyncShape
  <2> HIDE DEF s, synced
  <2>2. QED
    BY <1>1, <2>1, AddSampleShape
<1>3. afterAck(e, sufficiency, t) =
        maybeCloseFromCooldown(maybeAdvanceToCooldown(added, t), sufficiency)
  BY DEF afterAck
<1> HIDE DEF added
<1>4. maybeAdvanceToCooldown(added, t) = added
  BY <1>2 DEF maybeAdvanceToCooldown, stateAt
<1>5. afterAck(e, sufficiency, t) =
        IF added.state # "cooldown" THEN added
        ELSE IF sufficiency = "needs_followup" THEN ended
        ELSE IF added.healthy + 1 >= HealthyClose THEN createDefaultSurfaceState
        ELSE grown
  BY <1>3, <1>4 DEF maybeCloseFromCooldown, closeSurfaceState
<1>6. /\ ended.state = added.state /\ ended.tripped_at = added.tripped_at
      /\ ended.reasons = added.reasons /\ ended.healthy = 0
      /\ grown.state = added.state /\ grown.tripped_at = added.tripped_at
      /\ grown.reasons = added.reasons /\ grown.healthy = added.healthy + 1
  BY <1>2 DEF Entry
<1> HIDE DEF ended, grown
<1>7. QED
  BY <1>2, <1>5, <1>6


\* A status opens a closed breaker exactly when its window is unhealthy, for the
\* reasons that hold, and otherwise changes nothing but the state.
LEMMA StatusShape ==
    ASSUME NEW e, WellFormed(e), NEW t \in Nat
    PROVE  LET after  == afterStatus(e, t)
               synced == syncEntry(e, t)
               why == {r \in {"low_ack_rate", "high_followup_rate"} :
                         \/ r = "low_ack_rate" /\ lowAckRate(synced.checkpoints, synced.acks)
                         \/ r = "high_followup_rate"
                            /\ highFollowupRate(synced.acks, synced.followups)}
           IN  IF e.state = "closed" /\ why # {}
               THEN /\ after.state = "open" /\ after.tripped_at = t
                    /\ after.reasons = why /\ after.healthy = 0
               ELSE /\ after.state = stateAt(e, t) /\ after.tripped_at = e.tripped_at
                    /\ after.reasons = e.reasons /\ after.healthy = e.healthy
<1> DEFINE synced == syncEntry(e, t)
           why == {r \in {"low_ack_rate", "high_followup_rate"} :
                     \/ r = "low_ack_rate" /\ lowAckRate(synced.checkpoints, synced.acks)
                     \/ r = "high_followup_rate"
                        /\ highFollowupRate(synced.acks, synced.followups)}
           tripped == [synced EXCEPT !.state = "open", !.tripped_at = t,
                                     !.reasons = why, !.healthy = 0]
<1>1. /\ synced \in Entry
      /\ synced.state = stateAt(e, t) /\ synced.tripped_at = e.tripped_at
      /\ synced.reasons = e.reasons /\ synced.healthy = e.healthy
  BY SyncShape
<1>2. afterStatus(e, t) = IF synced.state # "closed" \/ why = {} THEN synced ELSE tripped
  BY DEF afterStatus, maybeTripSurface
<1>3. why \in SUBSET {"low_ack_rate", "high_followup_rate"}
  OBVIOUS
<1> HIDE DEF synced, why
<1>4. /\ tripped.state = "open" /\ tripped.tripped_at = t
      /\ tripped.reasons = why /\ tripped.healthy = 0
  BY <1>1 DEF Entry
<1>5. synced.state = "closed" <=> e.state = "closed"
  BY <1>1 DEF stateAt
<1> HIDE DEF tripped
<1>6. IF e.state = "closed" /\ why # {}
      THEN /\ afterStatus(e, t).state = "open" /\ afterStatus(e, t).tripped_at = t
           /\ afterStatus(e, t).reasons = why /\ afterStatus(e, t).healthy = 0
      ELSE /\ afterStatus(e, t).state = stateAt(e, t)
           /\ afterStatus(e, t).tripped_at = e.tripped_at
           /\ afterStatus(e, t).reasons = e.reasons
           /\ afterStatus(e, t).healthy = e.healthy
  BY <1>1, <1>2, <1>4, <1>5
<1>7. QED
  BY <1>6 DEF why, synced

\* How many of the history's last Window units are of the kinds.
inWindow(kinds, history, t) ==
    Cardinality({i \in 1..Len(history) :
                    history[i].timestamp >= minTimestamp(t) /\ history[i].kind \in kinds})

\* Once in step with the clock, the counters are those of the history.
LEMMA SyncCounts ==
    ASSUME NEW e, WellFormed(e), NEW history \in Seq(Sample), NEW t \in Nat,
           Kept(e, history, t)
    PROVE  LET synced == syncEntry(e, t) IN
           /\ synced.checkpoints = inWindow(Checkpoints, history, t)
           /\ synced.acks = inWindow(Acks, history, t)
           /\ synced.followups = inWindow(Followups, history, t)
<1> DEFINE synced == syncEntry(e, t)
<1>1. minTimestamp(t) \in Nat
  BY WindowMoves
<1>2. /\ WellFormed(synced)
      /\ Tracks(synced, history, minTimestamp(t))
      /\ synced.head < Len(synced.samples) =>
            synced.samples[synced.head + 1].timestamp >= minTimestamp(t)
  BY <1>1, SyncTracks, SyncWellFormed DEF Kept
<1> HIDE DEF synced
<1>3. \A kinds : live(kinds, synced) = inWindow(kinds, history, t)
  BY <1>1, <1>2, LiveIsRecent DEF Kept, inWindow
<1>4. /\ synced.checkpoints = inWindow(Checkpoints, history, t)
      /\ synced.acks = inWindow(Acks, history, t)
      /\ synced.followups = inWindow(Followups, history, t)
  BY <1>2, <1>3 DEF WellFormed, Counted
<1>5. QED
  BY <1>4 DEF synced

\* An ack that does not count in cooldown leaves no run; one that does makes the
\* longest run longer by one.
LEMMA LongestGrows ==
    ASSUME NEW e, WellFormed(e), e.state # "closed", NEW history \in Seq(Sample),
           NEW t \in Nat, Longest(e, history), NEW sufficiency \in Sufficiency,
           NEW k \in Nat,
           HealthyRun(k, e.tripped_at + Cooldown,
                      Append(history, [kind |-> sufficiency, timestamp |-> t]))
    PROVE  IF stateAt(e, t) = "cooldown" /\ sufficiency # "needs_followup"
           THEN k <= e.healthy + 1 ELSE k = 0
<1> DEFINE s == [kind |-> sufficiency, timestamp |-> t]
           since == e.tripped_at + Cooldown
<1>1. s \in Sample /\ s.kind = sufficiency /\ s.kind \in Acks /\ s.timestamp = t
  BY DEF Sample, SampleKinds, Acks
<1>2. e.healthy \in Nat
  BY DEF WellFormed, Counted, Entry
<1>3. HealthyRun(k, since, Append(history, s))
  OBVIOUS
<1> HIDE DEF s
<1>4. CASE k = 0
  BY <1>2, <1>4
<1>5. CASE k # 0
  <2>1. k \in Nat \ {0} /\ k - 1 \in Nat
    BY <1>5
  <2> HIDE DEF since
  <2>2. s.kind \in Sufficient /\ s.timestamp >= since /\ HealthyRun(k - 1, since, history)
    BY <1>1, <1>3, <2>1, RunBeforeAck
  <2>3. sufficiency # "needs_followup"
    BY <1>1, <2>2 DEF Sufficient, Followups
  <2>4. stateAt(e, t) = "cooldown"
    BY <1>1, <2>2 DEF stateAt, since, WellFormed, Counted, Entry, States
  <2>5. k - 1 <= e.healthy
    BY <2>1, <2>2 DEF Longest, since
  <2>6. QED
    BY <1>2, <2>1, <2>3, <2>4, <2>5
<1>6. QED
  BY <1>4, <1>5

PolicyInv == Inv /\ History /\ Longest(entry, log)

\* Every step keeps the count of healthy acks the longest run there is.
LEMMA LongestStep == PolicyInv /\ [Next]_vars => Longest(entry, log)'
<1> SUFFICES ASSUME PolicyInv, [Next]_vars PROVE Longest(entry', log')
  BY DEF Longest, HealthyRun, countIn, lastAcks
<1>1. /\ WellFormed(entry) /\ now \in Nat /\ log \in Seq(Sample) /\ Kept(entry, log, now)
      /\ Longest(entry, log)
  BY DEF PolicyInv, Inv, History
<1>2. entry.state = "closed" <=> stateAt(entry, now) = "closed"
  BY DEF stateAt
<1>3. CASE recordCheckpoint
  <2> DEFINE s == [kind |-> "checkpoint", timestamp |-> now]
  <2>1. s \in Sample /\ s.kind \notin Acks
    BY <1>1 DEF Sample, SampleKinds, Acks, Sufficiency
  <2>2. entry' = afterCheckpoint(entry, now) /\ log' = Append(log, s)
    BY <1>3 DEF recordCheckpoint
  <2> HIDE DEF s
  <2>3. /\ entry'.state = stateAt(entry, now) /\ entry'.tripped_at = entry.tripped_at
        /\ entry'.healthy = entry.healthy
    BY <1>1, <2>2, CheckpointShape
  <2>4. ASSUME NEW k \in Nat, entry.state # "closed",
               HealthyRun(k, entry.tripped_at + Cooldown, log')
        PROVE  k <= entry.healthy
    BY <1>1, <2>1, <2>2, <2>4, RunBeforeCheckpoint DEF Longest
  <2>5. QED
    BY <1>2, <2>3, <2>4 DEF Longest
<1>4. ASSUME NEW sufficiency \in Sufficiency, recordAck(sufficiency)
      PROVE  Longest(entry', log')
  <2> DEFINE s == [kind |-> sufficiency, timestamp |-> now]
             cooling == stateAt(entry, now) = "cooldown"
             healthy == sufficiency # "needs_followup"
  <2>1. /\ entry' = afterAck(entry, sufficiency, now)
        /\ ~(entry.state # "closed" /\ entry'.state = "closed") => log' = Append(log, s)
    BY <1>4 DEF recordAck
  <2>2. IF cooling /\ healthy /\ entry.healthy + 1 >= HealthyClose
        THEN entry' = createDefaultSurfaceState
        ELSE /\ entry'.state = stateAt(entry, now)
             /\ entry'.tripped_at = entry.tripped_at
             /\ entry'.healthy = IF ~cooling THEN entry.healthy
                                 ELSE IF healthy THEN entry.healthy + 1 ELSE 0
    BY <1>1, <2>1, AckShape
  <2>3. ASSUME NEW k \in Nat, entry.state # "closed",
               HealthyRun(k, entry.tripped_at + Cooldown, Append(log, s))
        PROVE  IF cooling /\ healthy THEN k <= entry.healthy + 1 ELSE k = 0
    BY <1>1, <2>3, LongestGrows
  <2>4. entry.healthy \in Nat
    BY <1>1 DEF WellFormed, Counted, Entry
  <2> HIDE DEF s, cooling, healthy
  <2>5. CASE entry'.state = "closed"
    BY <2>5 DEF Longest
  <2>6. CASE entry'.state # "closed"
    <3>1. ~(cooling /\ healthy /\ entry.healthy + 1 >= HealthyClose)
      BY <2>2, <2>6 DEF createDefaultSurfaceState
    <3>2. log' = Append(log, s) /\ entry.state # "closed"
      BY <1>2, <2>1, <2>2, <2>6, <3>1
    <3>3. ASSUME NEW k \in Nat, HealthyRun(k, entry'.tripped_at + Cooldown, log')
          PROVE  k <= entry'.healthy
      BY <2>2, <2>3, <2>4, <3>1, <3>2, <3>3
    <3>4. QED
      BY <3>3 DEF Longest
  <2>7. QED
    BY <2>5, <2>6
<1>5. CASE getStatus
  <2>1. entry' = afterStatus(entry, now) /\ log' = log
    BY <1>5 DEF getStatus
  <2>2. \/ entry'.state = "open" /\ entry'.tripped_at = now /\ entry'.healthy = 0
        \/ /\ entry'.state = stateAt(entry, now)
           /\ entry'.tripped_at = entry.tripped_at /\ entry'.healthy = entry.healthy
    BY <1>1, <2>1, StatusShape
  <2>3. CASE entry'.state = "open" /\ entry'.tripped_at = now /\ entry'.healthy = 0
    <3> DEFINE since == now + Cooldown
    <3>1. since \in Nat
      BY <1>1, BreakerAssumption
    <3>2. ASSUME NEW i \in 1..Len(log) PROVE ~(log[i].timestamp >= since)
      <4>1. log[i] \in Sample
        BY <1>1, ElementOfSeq
      <4>2. log[i].timestamp \in Nat
        BY <4>1 DEF Sample
      <4>3. log[i].timestamp <= now
        BY <1>1 DEF Kept, Timed
      <4>4. QED
        BY <1>1, <4>2, <4>3, BreakerAssumption
    <3> HIDE DEF since
    <3>3. \A k \in Nat : HealthyRun(k, since, log) => k = 0
      BY <1>1, <3>1, <3>2, EarlyRun
    <3>4. QED
      BY <2>1, <2>3, <3>3 DEF Longest, since
  <2>4. CASE /\ entry'.state = stateAt(entry, now)
             /\ entry'.tripped_at = entry.tripped_at /\ entry'.healthy = entry.healthy
    BY <1>1, <1>2, <2>1, <2>4 DEF Longest
  <2>5. QED
    BY <2>2, <2>3, <2>4
<1>6. CASE reset
  BY <1>6 DEF reset, closeSurfaceState, createDefaultSurfaceState, Longest
<1>7. CASE Tick
  BY <1>1, <1>7 DEF Tick
<1>8. CASE UNCHANGED vars
  BY <1>1, <1>8 DEF vars
<1>9. QED
  BY <1>3, <1>4, <1>5, <1>6, <1>7, <1>8 DEF Next

\* The invariant of the refinement holds in every reachable state.
LEMMA PolicyAlways == Spec => []PolicyInv
<1>1. Init => PolicyInv
  <2>1. Init => Inv /\ History
    BY FreshWellFormed, FreshKept DEF Init, Inv, History
  <2>2. Init => Longest(entry, log)
    BY DEF Init, createDefaultSurfaceState, Longest
  <2>3. QED
    BY <2>1, <2>2 DEF PolicyInv
<1>2. PolicyInv /\ [Next]_vars => PolicyInv'
  BY InvStep, HistoryStep, LongestStep DEF PolicyInv
<1>3. QED
  BY <1>1, <1>2, PTL DEF Spec

\* The policy counts as the breaker does.
LEMMA SameCardinality == \A S : Policy!Cardinality(S) = Cardinality(S)
BY DEF Policy!Cardinality, Cardinality

\* The policy counts the same samples as those not older than minTimestamp.
LEMMA SameWindow ==
    ASSUME now \in Nat, log \in Seq(Sample)
    PROVE  /\ Policy!recent({"checkpoint"}) = recent(Checkpoints)
           /\ Policy!recent(Policy!Acks) = recent(Acks)
           /\ Policy!recent({"needs_followup"}) = recent(Followups)
<1>1. \A i \in 1..Len(log) :
        log[i].timestamp + Window >= now <=> log[i].timestamp >= minTimestamp(now)
  <2>1. ASSUME NEW i \in 1..Len(log)
        PROVE  log[i].timestamp + Window >= now <=> log[i].timestamp >= minTimestamp(now)
    <3>1. log[i] \in Sample
      BY ElementOfSeq
    <3>2. log[i].timestamp \in Nat
      BY <3>1 DEF Sample
    <3>3. QED
      BY <3>2, BreakerAssumption DEF minTimestamp
  <2>2. QED
    BY <2>1
<1>2. ASSUME NEW kinds PROVE Policy!recent(kinds) = recent(kinds)
  <2>1. {i \in 1..Len(log) : log[i].timestamp + Window >= now /\ log[i].kind \in kinds} =
          {i \in 1..Len(log) :
              log[i].timestamp >= minTimestamp(now) /\ log[i].kind \in kinds}
    BY <1>1
  <2>2. QED
    BY <2>1, SameCardinality DEF Policy!recent, recent
<1>3. Policy!Acks = Acks
  BY DEF Policy!Acks, Acks, Sufficiency
<1>4. QED
  BY <1>2, <1>3 DEF Checkpoints, Followups

\* The policy's recovery is a run of healthy acks after the cooldown.
LEMMA SameRun ==
    ASSUME NEW n, NEW history
    PROVE  Policy!recovered(n, history)
             <=> HealthyRun(n, entry.tripped_at + Cooldown, history)
<1>1. Policy!Acks = Acks /\ Policy!Healthy = Sufficient
  BY DEF Policy!Acks, Policy!Healthy, Acks, Sufficient, Followups, Sufficiency
<1>2. \A i : Policy!amongLast(n, history, i) <=> countIn(Acks, history, i, Len(history)) <= n
  BY <1>1, SameCardinality DEF Policy!amongLast, countIn
<1>3. Policy!recovered(n, history) <=>
        /\ countIn(Acks, history, 1, Len(history)) >= n
        /\ \A i \in 1..Len(history) :
             history[i].kind \in Acks /\ Policy!amongLast(n, history, i) =>
                 /\ history[i].kind \in Sufficient
                 /\ history[i].timestamp >= entry.tripped_at + Cooldown
  BY <1>1, SameCardinality DEF Policy!recovered, countIn
<1>4. QED
  BY <1>2, <1>3 DEF HealthyRun, lastAcks

\* Each call of the breaker does what the policy makes of the whole history, and
\* the clock ticks as the policy's does.
LEMMA PolicyStep ==
    PolicyInv =>
        /\ recordCheckpoint => Policy!Checkpoint
        /\ \A sufficiency \in Sufficiency : recordAck(sufficiency) => Policy!Ack(sufficiency)
        /\ getStatus => Policy!Status
        /\ reset => Policy!Close
        /\ Tick => Policy!Tick
<1> SUFFICES ASSUME PolicyInv
             PROVE  /\ recordCheckpoint => Policy!Checkpoint
                    /\ \A sufficiency \in Sufficiency :
                         recordAck(sufficiency) => Policy!Ack(sufficiency)
                    /\ getStatus => Policy!Status
                    /\ reset => Policy!Close
                    /\ Tick => Policy!Tick
  OBVIOUS
<1>1. /\ WellFormed(entry) /\ now \in Nat /\ log \in Seq(Sample) /\ Kept(entry, log, now)
      /\ Longest(entry, log)
  BY DEF PolicyInv, Inv, History
<1>2. Policy!current = stateAt(entry, now)
  BY DEF Policy!current, stateAt
<1>3. ASSUME recordCheckpoint PROVE Policy!Checkpoint
  <2>1. /\ entry' = afterCheckpoint(entry, now) /\ now' = now
        /\ log' = Append(log, [kind |-> "checkpoint", timestamp |-> now])
    BY <1>3 DEF recordCheckpoint
  <2>2. /\ entry'.state = stateAt(entry, now) /\ entry'.tripped_at = entry.tripped_at
        /\ entry'.reasons = entry.reasons
    BY <1>1, <2>1, CheckpointShape
  <2>3. QED
    BY <1>2, <2>1, <2>2 DEF Policy!Checkpoint, Policy!Record
<1>4. ASSUME NEW sufficiency \in Sufficiency, recordAck(sufficiency)
      PROVE  Policy!Ack(sufficiency)
  <2> DEFINE longer == Append(log, [kind |-> sufficiency, timestamp |-> now])
             since == entry.tripped_at + Cooldown
             cooling == stateAt(entry, now) = "cooldown"
             healthy == sufficiency # "needs_followup"
             closing == cooling /\ healthy /\ entry.healthy + 1 >= HealthyClose
             completes == Policy!current = "cooldown" /\ Policy!recovered(HealthyClose, longer)
  <2>1. /\ entry' = afterAck(entry, sufficiency, now) /\ now' = now
        /\ log' = IF entry.state # "closed" /\ entry'.state = "closed" THEN <<>> ELSE longer
    BY <1>4 DEF recordAck
  <2>2. IF closing
        THEN entry' = createDefaultSurfaceState
        ELSE /\ entry'.state = stateAt(entry, now)
             /\ entry'.tripped_at = entry.tripped_at
             /\ entry'.reasons = entry.reasons
    BY <1>1, <2>1, AckShape
  <2>3. /\ cooling => entry.state # "closed"
        /\ entry.state # "closed" => stateAt(entry, now) # "closed"
        /\ entry.healthy \in Nat
    BY <1>1 DEF stateAt, WellFormed, Counted, Entry
  <2>4. completes <=> cooling /\ HealthyRun(HealthyClose, since, longer)
    BY <1>2, SameRun
  <2>5. closing => HealthyRun(HealthyClose, since, longer)
    <3>1. ASSUME closing PROVE entry.state # "closed" /\ entry'.state = "closed"
      BY <2>2, <2>3, <3>1 DEF createDefaultSurfaceState
    <3>2. entry.state # "closed" /\ entry'.state = "closed"
            => HealthyRun(HealthyClose, since, longer)
      BY <1>1, <2>1, AckKept
    <3>3. QED
      BY <3>1, <3>2
  <2>6. cooling /\ HealthyRun(HealthyClose, since, longer) => closing
    <3>1. HealthyClose \in Nat /\ HealthyClose # 0
      BY BreakerAssumption
    <3>2. ASSUME cooling, HealthyRun(HealthyClose, since, longer)
          PROVE  IF cooling /\ healthy THEN HealthyClose <= entry.healthy + 1
                 ELSE HealthyClose = 0
      BY <1>1, <2>3, <3>1, <3>2, LongestGrows
    <3> HIDE DEF since, longer, cooling, healthy
    <3>3. QED
      BY <2>3, <3>1, <3>2
  <2>7. completes <=> closing
    BY <2>4, <2>5, <2>6
  <2> HIDE DEF closing
  <2>8. CASE closing
    <3>1. entry.state # "closed" /\ entry'.state = "closed"
      BY <2>2, <2>3, <2>8 DEF closing, createDefaultSurfaceState
    <3>2. Policy!Close
      BY <2>1, <2>2, <2>8, <3>1 DEF createDefaultSurfaceState, Policy!Close
    <3>3. QED
      BY <2>7, <2>8, <3>2 DEF Policy!Ack
  <2>9. CASE ~closing
    <3>1. log' = longer
      BY <2>1, <2>2, <2>3, <2>9
    <3>2. Policy!Record(sufficiency)
      BY <1>2, <2>1, <2>2, <2>9, <3>1 DEF Policy!Record
    <3>3. QED
      BY <2>7, <2>9, <3>2 DEF Policy!Ack
  <2>10. QED
    BY <2>8, <2>9
<1>5. ASSUME getStatus PROVE Policy!Status
  <2> DEFINE synced == syncEntry(entry, now)
             why == {r \in {"low_ack_rate", "high_followup_rate"} :
                       \/ r = "low_ack_rate" /\ lowAckRate(synced.checkpoints, synced.acks)
                       \/ r = "high_followup_rate"
                          /\ highFollowupRate(synced.acks, synced.followups)}
  <2>1. entry' = afterStatus(entry, now) /\ now' = now /\ log' = log
    BY <1>5 DEF getStatus
  <2>2. IF entry.state = "closed" /\ why # {}
        THEN entry'.state = "open" /\ entry'.tripped_at = now /\ entry'.reasons = why
        ELSE /\ entry'.state = stateAt(entry, now)
             /\ entry'.tripped_at = entry.tripped_at
             /\ entry'.reasons = entry.reasons
    BY <1>1, <2>1, StatusShape
  <2>3. /\ synced.checkpoints = recent(Checkpoints) /\ synced.acks = recent(Acks)
        /\ synced.followups = recent(Followups)
    <3>1. /\ synced.checkpoints = inWindow(Checkpoints, log, now)
          /\ synced.acks = inWindow(Acks, log, now)
          /\ synced.followups = inWindow(Followups, log, now)
      BY <1>1, SyncCounts
    <3>2. \A kinds : inWindow(kinds, log, now) = recent(kinds)
      BY DEF recent, inWindow
    <3> HIDE DEF synced
    <3>3. QED
      BY <3>1, <3>2
  <2> HIDE DEF synced
  <2>4. /\ lowAckRate(synced.checkpoints, synced.acks) <=> Policy!LowAckRate
        /\ highFollowupRate(synced.acks, synced.followups) <=> Policy!HighFollowupRate
    BY <1>1, <2>3, SameWindow
       DEF lowAckRate, highFollowupRate, Policy!LowAckRate, Policy!HighFollowupRate
  <2>5. why = Policy!unhealthy
    BY <2>4 DEF Policy!unhealthy
  <2> HIDE DEF why
  <2>6. QED
    BY <1>2, <2>1, <2>2, <2>5 DEF Policy!Status
<1>6. ASSUME reset PROVE Policy!Close
  BY <1>6 DEF reset, closeSurfaceState, createDefaultSurfaceState, Policy!Close
<1>7. ASSUME Tick PROVE Policy!Tick
  BY <1>7 DEF Tick, Policy!Tick
<1>8. QED
  BY <1>3, <1>4, <1>5, <1>6, <1>7

\* The breaker follows its policy: it trips on nothing that has expired and misses
\* no trip, and an ack closes it when and only when that ack completes a run of
\* HealthyClose healthy acks after the cooldown.
THEOREM PolicyFollowed == Spec => CallsFollowPolicy
<1> DEFINE followed ==
             /\ recordCheckpoint => Policy!Checkpoint
             /\ \A sufficiency \in Sufficiency :
                  recordAck(sufficiency) => Policy!Ack(sufficiency)
             /\ getStatus => Policy!Status
             /\ reset => Policy!Close
<1>1. PolicyInv => [followed]_vars
  BY PolicyStep
<1> HIDE DEF followed
<1>2. Spec => [][followed]_vars
  BY <1>1, PolicyAlways, PTL
<1>3. QED
  BY <1>2 DEF followed, CallsFollowPolicy

\* The breaker implements the policy: every run of it is one of the policy.
THEOREM PolicyRefined == Spec => Policy!Spec
<1>1. Init => Policy!Init
  BY DEF Init, createDefaultSurfaceState, Policy!Init
<1>2. PolicyInv /\ [Next]_vars => [Policy!Next]_(Policy!vars)
  <2> SUFFICES ASSUME PolicyInv, [Next]_vars PROVE [Policy!Next]_(Policy!vars)
    OBVIOUS
  <2>1. Policy!Acks = Sufficiency
    BY DEF Policy!Acks, Sufficiency
  <2>2. CASE Next
    BY <2>1, <2>2, PolicyStep DEF Next, Policy!Next
  <2>3. CASE UNCHANGED vars
    BY <2>3 DEF vars, Policy!vars
  <2>4. QED
    BY <2>2, <2>3
<1>3. QED
  BY <1>1, <1>2, PolicyAlways, PTL DEF Spec, Policy!Spec
=============================================================================
