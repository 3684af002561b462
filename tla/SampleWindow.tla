--------------------------- MODULE SampleWindow ---------------------------
(***************************************************************************)
(* What a latency tracker promises its readers (UVB-76): the samples of    *)
(* one target, oldest first, and never more than MaxSamples of them.  A    *)
(* new sample pushes out the oldest one and touches no other.              *)
(***************************************************************************)
EXTENDS Sequences, Naturals

CONSTANTS
    MaxSamples,  \* the samples that are kept
    Samples      \* the samples there are

VARIABLE window

WInit == window = << >>

Push(s) ==
    window' = Append(IF Len(window) < MaxSamples THEN window ELSE Tail(window),
                     s)

WNext == \E s \in Samples : Push(s)

WSpec == WInit /\ [][WNext]_window

============================================================================
