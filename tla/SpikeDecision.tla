-------------------------- MODULE SpikeDecision --------------------------
(***************************************************************************)
(* When a measured latency is a spike (UVB-76, internal/uvb76/domain).     *)
(* A window is the sequence of the latencies of earlier successes.  The    *)
(* median of an even number of whole milliseconds may end in a half, so    *)
(* that it is doubled here.                                                *)
(***************************************************************************)
EXTENDS Integers, Sequences, FiniteSets

CONSTANTS
    WarningMs, CriticalMs,  \* the absolute thresholds
    Multiplier,             \* relative_multiplier, 0 to turn it off
    MinSamples              \* min_samples_for_median

(* NewSpikeConfig takes no other configuration. *)
ASSUME SpikeConfigAssumption ==
    /\ WarningMs \in Nat /\ CriticalMs \in Nat /\ WarningMs <= CriticalMs
    /\ Multiplier \in Nat /\ MinSamples \in Nat

(* The k-th smallest latency of a window. *)
KthLatency(w, k) ==
    CHOOSE v \in {w[i] : i \in DOMAIN w} :
        /\ Cardinality({i \in DOMAIN w : w[i] < v}) < k
        /\ k <= Cardinality({i \in DOMAIN w : w[i] <= v})

(* SampleWindow.Median, doubled; a window with no sample has none. *)
TwiceMedian(w) ==
    LET mid == Len(w) \div 2
    IN  IF Len(w) % 2 = 1 THEN 2 * KthLatency(w, mid + 1)
        ELSE KthLatency(w, mid) + KthLatency(w, mid + 1)

(* The relative threshold, of which a failed probe is measured as well.    *)
(* A median of 0 is a baseline like any other.                             *)
ExceedsMedian(ms, w) ==
    /\ w # << >> /\ Len(w) >= MinSamples /\ Multiplier > 0
    /\ 2 * ms >= TwiceMedian(w) * Multiplier

(* DecideSpike, for a success: the reasons it finds. *)
SpikeReasons(ms, w) ==
    {r \in {"critical", "warning", "relative"} :
        \/ r = "critical" /\ ms >= CriticalMs
        \/ r = "warning" /\ ms >= WarningMs
        \/ r = "relative" /\ ExceedsMedian(ms, w)}

(* The kind of a decision, "none" when there is no reason. *)
Severity(reasons) ==
    CASE reasons = {}            -> "none"
      [] "critical" \in reasons  -> "critical"
      [] OTHER                   -> "warning"

=============================================================================
