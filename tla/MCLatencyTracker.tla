------------------------ MODULE MCLatencyTracker -------------------------
(* LatencyTracker for TLC: latencies in the first bucket, in the second one *)
(* and above both.                                                          *)
EXTENDS LatencyTracker

MCBuckets == <<2, 5>>

============================================================================
