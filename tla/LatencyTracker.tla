-------------------------- MODULE LatencyTracker --------------------------
(***************************************************************************)
(* The latency tracker of one target (UVB-76, state/latency.go): a ring    *)
(* buffer of samples with running totals, and what is read from it: the    *)
(* summary with its percentiles, the recent samples, the snapshot and the  *)
(* series of points that the latency endpoint draws.                       *)
(*                                                                         *)
(* Writers hold the lock of the tracker, readers its read lock, so that a  *)
(* record and a read are one step each; the readers are operators over the *)
(* state.  Latencies are whole milliseconds: the rounding of a float64 is  *)
(* not modelled.  Percentiles are counted in hundredths of a millisecond,  *)
(* in which the interpolation of whole samples is exact.                   *)
(***************************************************************************)
EXTENDS Integers, Sequences, FiniteSets

CONSTANTS
    MaxSamples,  \* maxSamples, the capacity of the ring
    Latencies,   \* latencies in ms
    Buckets,     \* the sorted bucket boundaries, in ms
    MaxOutputPoints, \* the most points of a series
    MaxTime      \* bound: the clock, in seconds

ASSUME MaxSamplesAssumption == MaxSamples \in Nat \ {0}

ASSUME LatenciesAssumption == Latencies \subseteq Nat

ASSUME BucketsAssumption ==
    /\ Buckets \in Seq(Nat) /\ Buckets # << >>
    /\ \A i \in 1..(Len(Buckets) - 1) : Buckets[i] < Buckets[i + 1]

ASSUME MaxOutputPointsAssumption == MaxOutputPoints \in Nat \ {0}

ASSUME MaxTimeAssumption == MaxTime \in Nat

VARIABLES
    now,         \* the clock
    samples,     \* recentSamples
    head,        \* the next slot to write
    count,       \* the slots in use
    sum,         \* the latencies of the reachable samples in use
    errorCount   \* the unreachable samples in use

vars == <<now, samples, head, count, sum, errorCount>>

Slots == 0..(MaxSamples - 1)

Sample == [at : 0..MaxTime, ms : Latencies, ok : BOOLEAN]

(* make([]LatencySample, maxSamples) *)
Zero == [at |-> 0, ms |-> 0, ok |-> FALSE]

Init ==
    /\ now = 0
    /\ samples = [i \in Slots |-> Zero]
    /\ head = 0 /\ count = 0
    /\ sum = 0 /\ errorCount = 0

(* Mutant: an overwritten failure stays counted. *)
RecordAt_KeepsErrors(ms, ok) ==
    LET full == count = MaxSamples
        old  == samples[head]
    IN  /\ samples' = [samples EXCEPT
                          ![head] = [at |-> now, ms |-> ms, ok |-> ok]]
        /\ head' = (head + 1) % MaxSamples
        /\ count' = IF full THEN count ELSE count + 1
        /\ errorCount' = errorCount + (IF ok THEN 0 ELSE 1)
        /\ sum' = sum + (IF ok THEN ms ELSE 0)
                  - (IF full /\ old.ok THEN old.ms ELSE 0)
        /\ UNCHANGED now

(* Mutant: the head stays where it is when the ring is full. *)
RecordAt_StuckHead(ms, ok) ==
    LET full == count = MaxSamples
        old  == samples[head]
    IN  /\ samples' = [samples EXCEPT
                          ![head] = [at |-> now, ms |-> ms, ok |-> ok]]
        /\ head' = IF full THEN head ELSE (head + 1) % MaxSamples
        /\ count' = IF full THEN count ELSE count + 1
        /\ errorCount' = errorCount + (IF ok THEN 0 ELSE 1)
                         - (IF full /\ ~old.ok THEN 1 ELSE 0)
        /\ sum' = sum + (IF ok THEN ms ELSE 0)
                  - (IF full /\ old.ok THEN old.ms ELSE 0)
        /\ UNCHANGED now

(* The sample that is overwritten leaves the totals it was counted in.     *)
(* The repair of a head, a count or a length that is out of range changes  *)
(* nothing, because they never are (TypeOK).                               *)
RecordAt(ms, ok) ==
    LET full == count = MaxSamples
        old  == samples[head]
    IN  /\ samples' = [samples EXCEPT
                          ![head] = [at |-> now, ms |-> ms, ok |-> ok]]
        /\ head' = (head + 1) % MaxSamples
        /\ count' = IF full THEN count ELSE count + 1
        /\ errorCount' = errorCount + (IF ok THEN 0 ELSE 1)
                         - (IF full /\ ~old.ok THEN 1 ELSE 0)
        /\ sum' = sum + (IF ok THEN ms ELSE 0)
                  - (IF full /\ old.ok THEN old.ms ELSE 0)
        /\ UNCHANGED now

Tick ==
    /\ now < MaxTime
    /\ now' = now + 1
    /\ UNCHANGED <<samples, head, count, sum, errorCount>>

Next ==
    \/ Tick
    \/ \E ms \in Latencies, ok \in BOOLEAN : RecordAt(ms, ok)

Spec == Init /\ [][Next]_vars

(******************************** The readers *******************************)

(* The slot of the i-th of the newest n samples, from 1. *)
Slot(n, i) == (head - n + (i - 1) + MaxSamples) % MaxSamples

Newest(n) == [i \in 1..n |-> samples[Slot(n, i)]]

(* snapshotLimitLocked *)
SnapshotLimit(limit) ==
    IF limit <= 0 THEN 0 ELSE IF limit > count THEN count ELSE limit

(* Mutant: the walk starts at the oldest sample. *)
GetRecentSamples_Oldest(limit) ==
    LET n     == SnapshotLimit(limit)
        start == (head - count + MaxSamples) % MaxSamples
    IN  [i \in 1..n |-> samples[(start + i - 1) % MaxSamples]]

(* GetRecentSamples walks from the start slot and wraps there. *)
GetRecentSamples(limit) ==
    LET n     == SnapshotLimit(limit)
        start == (head - n + MaxSamples) % MaxSamples
    IN  [i \in 1..n |-> samples[(start + i - 1) % MaxSamples]]

(* Snapshot: no limit means all that there is.  The two timestamps are     *)
(* those of the whole ring, whatever the limit.                            *)
Snapshot(limit) ==
    LET n == IF limit <= 0 \/ limit > count THEN count ELSE limit
    IN  [samples  |-> Newest(n),
         capacity |-> MaxSamples,
         errors   |-> errorCount,
         oldest   |-> IF count = 0 THEN 0 ELSE samples[Slot(count, 1)].at,
         newest   |-> IF count = 0 THEN 0
                      ELSE samples[(head - 1 + MaxSamples) % MaxSamples].at]

(* buildSeriesSnapshot counts and compares again, in what it was given. *)
SeriesSnapshot(limit) ==
    LET s == Snapshot(limit).samples
    IN  [samples |-> s,
         errors  |-> Cardinality({i \in DOMAIN s : ~s[i].ok}),
         oldest  |-> IF s = << >> THEN 0
                     ELSE CHOOSE t \in {s[i].at : i \in DOMAIN s} :
                             \A i \in DOMAIN s : t <= s[i].at,
         newest  |-> IF s = << >> THEN 0
                     ELSE CHOOSE t \in {s[i].at : i \in DOMAIN s} :
                             \A i \in DOMAIN s : s[i].at <= t]

(* The reachable samples of a sequence of samples. *)
Successes(s) == {i \in DOMAIN s : s[i].ok}

(* The k-th smallest latency of the samples of s in I. *)
Kth(s, I, k) ==
    CHOOSE v \in {s[i].ms : i \in I} :
        /\ Cardinality({i \in I : s[i].ms < v}) < k
        /\ k <= Cardinality({i \in I : s[i].ms <= v})

(* Mutant: the rank is not shifted to start at one. *)
Percentile_RankFromZero(s, p) ==
    LET I == Successes(s)
        n == Cardinality(I)
        k == (p * n) \div 100 + 1
        d == (p * n) % 100
    IN  IF n = 0 THEN 0
        ELSE IF k >= n THEN 100 * Kth(s, I, n)
        ELSE 100 * Kth(s, I, k) + d * (Kth(s, I, k + 1) - Kth(s, I, k))

(* CalculatePercentiles and SampleWindow.percentile: linear interpolation  *)
(* at rank p/100*(n-1)+1, in hundredths of a ms, and 0 when nothing was    *)
(* reached.                                                                *)
Percentile(s, p) ==
    LET I == Successes(s)
        n == Cardinality(I)
        k == (p * (n - 1)) \div 100 + 1
        d == (p * (n - 1)) % 100
    IN  IF n = 0 THEN 0
        ELSE IF k >= n THEN 100 * Kth(s, I, n)
        ELSE 100 * Kth(s, I, k) + d * (Kth(s, I, k + 1) - Kth(s, I, k))

(* The middle sample, or the mean of the middle two. *)
Median(s) ==
    LET I == Successes(s)
        n == Cardinality(I)
        mid == n \div 2
    IN  IF n = 0 THEN 0
        ELSE IF n % 2 = 1 THEN 100 * Kth(s, I, mid + 1)
        ELSE 50 * (Kth(s, I, mid) + Kth(s, I, mid + 1))

(* The first bucket that a latency fits in, or the last one. *)
BucketOf(ms) ==
    IF \E i \in DOMAIN Buckets : ms <= Buckets[i]
    THEN CHOOSE i \in DOMAIN Buckets :
            ms <= Buckets[i] /\ \A j \in 1..(i - 1) : Buckets[j] < ms
    ELSE Len(Buckets)

(* GetSummary: the percentiles look at the successes, the extremes and the *)
(* histogram at every sample, the average divides the running sum.  The    *)
(* slice of the successes is made with room for count - errorCount.        *)
GetSummary ==
    LET s == Newest(count)
        I == Successes(s)
        every == IF I = {} THEN {0} ELSE {s[i].ms : i \in DOMAIN s}
    IN  [room      |-> count - errorCount,
         successes |-> Cardinality(I),
         min       |-> CHOOSE v \in every : \A w \in every : v <= w,
         max       |-> CHOOSE v \in every : \A w \in every : w <= v,
         sum       |-> sum,
         median    |-> Median(s),
         p50 |-> Percentile(s, 50), p90 |-> Percentile(s, 90),
         p95 |-> Percentile(s, 95), p99 |-> Percentile(s, 99),
         histogram |-> [b \in DOMAIN Buckets |->
             Cardinality({i \in DOMAIN s : BucketOf(s[i].ms) = b})]]

(* Mutant: both ends of a point's window are inside. *)
InPoint_Closed(at, i, steps, step, width) ==
    LET end == now - (steps - 1 - i) * step
    IN  end - width <= at /\ at <= end

(* handleTargetLatencySeries: point i of steps, from 0, covers the seconds *)
(* after end - width, up to its end; the last point ends now.              *)
InPoint(at, i, steps, step, width) ==
    LET end == now - (steps - 1 - i) * step
    IN  end - width < at /\ at <= end

(* The number of points of a range: the whole steps in it, but never none  *)
(* and never more than the hard cap.                                       *)
NumSteps(range, step) ==
    LET whole == range \div step
    IN  IF whole < 1 THEN 1 ELSE IF whole > MaxOutputPoints THEN MaxOutputPoints ELSE whole

(******************************** Properties ********************************)

TypeOK ==
    /\ now \in 0..MaxTime
    /\ samples \in [Slots -> Sample \cup {Zero}]
    /\ head \in Slots
    /\ count \in 0..MaxSamples
    /\ sum \in Nat
    /\ errorCount \in 0..MaxSamples

Failed == {i \in 1..count : ~Newest(count)[i].ok}

(* "subtracting would corrupt average" (latency.go:163): after any number  *)
(* of overwrites the running totals are those of the samples that are in   *)
(* the ring, so that the room that GetSummary asks for is never negative   *)
(* and its average is the mean of its own samples.                         *)
ErrorsExact == errorCount = Cardinality(Failed)

SumExact ==
    \A s \in {Newest(count)} :
        sum = LET total[n \in 0..count] ==
                      IF n = 0 THEN 0
                      ELSE total[n - 1] + (IF s[n].ok THEN s[n].ms ELSE 0)
              IN  total[count]

CountersExact == ErrorsExact /\ SumExact

(* What a summary says is consistent with itself: the percentiles rise     *)
(* from the smallest to the largest latency, the median is the 50th one    *)
(* although it is computed in another way, the average lies between the    *)
(* extremes, and every sample is in a bucket.                              *)
SummaryConsistent ==
    count > 0 =>
        LET g == GetSummary
            total[b \in 0..Len(Buckets)] ==
                IF b = 0 THEN 0 ELSE total[b - 1] + g.histogram[b]
        IN  /\ total[Len(Buckets)] = count
            /\ g.room = g.successes
            /\ g.successes > 0 =>
                  /\ 100 * g.min <= g.p50 /\ g.p50 <= g.p90 /\ g.p90 <= g.p95
                  /\ g.p95 <= g.p99 /\ g.p99 <= 100 * g.max
                  /\ g.median = g.p50
                  /\ g.min * g.successes <= g.sum
                  /\ g.sum <= g.max * g.successes

(* The three ways to read the ring agree: whatever the limit, each returns *)
(* the newest samples in the order in which they were recorded, and the    *)
(* ends of the window are the oldest and the newest of all timestamps.     *)
ReadersAgree ==
    \A limit \in 1..(MaxSamples + 1) :
        LET whole == Newest(count)
            n     == SnapshotLimit(limit)
            last  == [i \in 1..n |-> whole[count - n + i]]
        IN  /\ GetRecentSamples(limit) = last
            /\ Snapshot(limit).samples = last
            /\ \A i \in 1..count : /\ Snapshot(limit).oldest <= whole[i].at
                                   /\ whole[i].at <= Snapshot(limit).newest
            /\ limit >= count =>
                  /\ SeriesSnapshot(limit).errors = Snapshot(limit).errors
                  /\ SeriesSnapshot(limit).oldest = Snapshot(limit).oldest
                  /\ SeriesSnapshot(limit).newest = Snapshot(limit).newest

(* When the points of a series do not overlap, they divide the newest      *)
(* seconds among them: each sample of that span is counted in one point,   *)
(* none twice, and an older one in none.  The span is the range that was   *)
(* asked for, without a remainder shorter than a step, or as much of it as *)
(* the cap on the points lets be drawn (latency_series.go:211-260).        *)
EverySampleInOnePoint ==
    \A range \in 1..MaxTime, step \in 1..MaxTime :
        LET s == Newest(count)
            steps == NumSteps(range, step)
            span == steps * step
        IN  /\ step <= range =>
                  /\ span <= range
                  /\ range - span < step \/ span = MaxOutputPoints * step
            /\ \A j \in DOMAIN s :
                  Cardinality({i \in 0..(steps - 1) :
                                  InPoint(s[j].at, i, steps, step, step)})
                  = IF s[j].at > now - span THEN 1 ELSE 0

Window == INSTANCE SampleWindow WITH Samples <- Sample, window <- Newest(count)

(* "only stores maxSamples samples": the ring, with its head and its       *)
(* count, is the window of the newest samples in the order of their        *)
(* arrival.                                                                *)
WindowKept == Window!WSpec

============================================================================
