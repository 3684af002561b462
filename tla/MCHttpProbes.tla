--------------------------- MODULE MCHttpProbes ---------------------------
(* HttpProbes for TLC: three probes, which may all overlap, a window of two *)
(* samples, and latencies below and above the warning threshold.           *)
EXTENDS HttpProbes

MCLatencies == {1, 4}

=============================================================================
