---------------------------- MODULE HttpProbes ----------------------------
(***************************************************************************)
(* The HTTP prober of UVB-76 for one target (probe/probe.go): a loop that  *)
(* starts a probe on every tick, whether the one before has ended or not,  *)
(* and the steps that a probe takes between the locks of the prober, of    *)
(* the latency tracker and of the spike detector.  A probe that lasts      *)
(* longer than the interval runs beside the next one.  The probes start    *)
(* before the capture service is made and handed to the prober, which      *)
(* never happens when diagnostics are disabled (main.go).                  *)
(*                                                                         *)
(* The tracker is the sequence of what was recorded (LatencyTracker has    *)
(* its ring), the events of the target are a set (CaptureCooldown has      *)
(* their retention) and a trigger only names its event.                    *)
(***************************************************************************)
EXTENDS SpikeDecision

CONSTANTS
    MaxProbes,     \* bound: the probes that are started
    RecentSamples, \* the window asked for: recent_samples_max, at least 30
    TimeoutMs,     \* timeout_milliseconds
    Latencies      \* latencies in ms

ASSUME MaxProbesAssumption == MaxProbes \in Nat

ASSUME LatenciesAssumption ==
    /\ Latencies \subseteq Nat /\ TimeoutMs \in Nat /\ RecentSamples \in Nat

Probes == 1..MaxProbes

VARIABLES
    running,   \* the loop has not ended
    started,   \* the probes that were started, in order
    badUrl,    \* the probe URL of the target does not parse
    wired,     \* the prober has its capture service, diagCapture # nil
    before,    \* the events from before that
    pc,        \* the next step of a probe
    window,    \* previousWindow: the latencies of earlier successes
    verdict,   \* "none", "error", "unhealthy" or "healthy"
    latency,   \* latencyMs
    wasUnreachable,
    last,      \* lastReachability of the target
    samples,   \* what was recorded in the latency tracker
    events,    \* what was recorded in the spike detector
    triggers   \* the events handed to the capture service

vars == <<running, started, badUrl, wired, before, pc, window, verdict,
          latency, wasUnreachable, last, samples, events, triggers>>

loopVars == <<running, started, badUrl, wired, before>>

Stages == {"unborn", "window", "request", "unreachable", "record", "detect",
           "trigger", "recover", "triggerRecovery", "done"}

Verdicts == {"none", "error", "unhealthy", "healthy"}

Sample == [by : Probes, ms : Nat, ok : BOOLEAN]

Event == [by : Probes, severity : {"warning", "critical", "recovery"},
          failure : BOOLEAN, relative : BOOLEAN]

Init ==
    /\ running = TRUE /\ started = 0
    /\ badUrl \in BOOLEAN
    /\ wired = FALSE /\ before = {}
    /\ pc = [p \in Probes |-> "unborn"]
    /\ window = [p \in Probes |-> << >>]
    /\ verdict = [p \in Probes |-> "none"]
    /\ latency = [p \in Probes |-> 0]
    /\ wasUnreachable = [p \in Probes |-> FALSE]
    /\ last = "unknown"
    /\ samples = << >> /\ events = {} /\ triggers = {}

(********************************* The loop *********************************)

(* probeAll, before the loop selects and on each tick: there is no guard   *)
(* against a probe that still runs.                                        *)
ProbeAll ==
    /\ running /\ started < MaxProbes
    /\ started' = started + 1
    /\ pc' = [pc EXCEPT ![started + 1] = "window"]
    /\ UNCHANGED <<running, badUrl, wired, before, window, verdict, latency,
                   wasUnreachable, last, samples, events, triggers>>

(* Stop closes stopCh and waits for the loop, which has made its first     *)
(* round and may still take a tick that is ready.  Nothing waits for the   *)
(* probes: they go on.                                                     *)
Stop ==
    /\ running /\ started > 0
    /\ running' = FALSE
    /\ UNCHANGED <<started, badUrl, wired, before, pc, window, verdict, latency,
                   wasUnreachable, last, samples, events, triggers>>

(* The service is made after the prober was started, and at any time while *)
(* the first probes run.                                                   *)
SetDiagCapture ==
    /\ running /\ ~wired
    /\ wired' = TRUE /\ before' = events
    /\ UNCHANGED <<running, started, badUrl, pc, window, verdict, latency,
                   wasUnreachable, last, samples, events, triggers>>

(********************************* A probe **********************************)

Goes(p, from, to) == pc[p] = from /\ pc' = [pc EXCEPT ![p] = to]

(* Mutant: failures are counted in. *)
SampleWindow_CountsFailures(s) ==
    LET n    == Len(s)
        lo   == IF n > RecentSamples THEN n - RecentSamples + 1 ELSE 1
        seen == SubSeq(s, lo, n)
    IN  [i \in DOMAIN seen |-> seen[i].ms]

(* GetHTTPSampleWindow: the successes among the most recent samples, taken *)
(* over one after the other.                                               *)
SampleWindow(s) ==
    LET n  == Len(s)
        lo == IF n > RecentSamples THEN n - RecentSamples + 1 ELSE 1
        kept[k \in (lo - 1)..n] ==
            IF k = lo - 1 THEN << >>
            ELSE IF s[k].ok THEN Append(kept[k - 1], s[k].ms)
                 ELSE kept[k - 1]
    IN  kept[n]

(* A probe looks at the samples before it has one of its own. *)
TakeWindow(p) ==
    /\ Goes(p, "window", "request")
    /\ window' = [window EXCEPT ![p] = SampleWindow(samples)]
    /\ UNCHANGED <<loopVars, verdict, latency, wasUnreachable, last, samples,
                   events, triggers>>

Recorded(p, ms, ok) ==
    samples' = Append(samples, [by |-> p, ms |-> ms, ok |-> ok])

(* The request cannot be made.  The failure is recorded and reported like  *)
(* any other, but the reachability of the target is left as it was.        *)
RequestInvalid(p) ==
    /\ badUrl
    /\ Goes(p, "request", "detect")
    /\ verdict' = [verdict EXCEPT ![p] = "error"]
    /\ latency' = [latency EXCEPT ![p] = TimeoutMs]
    /\ Recorded(p, TimeoutMs, FALSE)
    /\ UNCHANGED <<loopVars, window, wasUnreachable, last, events, triggers>>

(* The request fails or times out: its sample is recorded first ...        *)
RequestFails(p) ==
    /\ ~badUrl
    /\ \E ms \in Latencies :
          /\ latency' = [latency EXCEPT ![p] = ms]
          /\ Recorded(p, ms, FALSE)
    /\ Goes(p, "request", "unreachable")
    /\ verdict' = [verdict EXCEPT ![p] = "error"]
    /\ UNCHANGED <<loopVars, window, wasUnreachable, last, events, triggers>>

(* ... and then the reachability of the target.                            *)
MarkUnreachable(p) ==
    /\ Goes(p, "unreachable", "detect")
    /\ last' = "unreachable"
    /\ UNCHANGED <<loopVars, window, verdict, latency, wasUnreachable,
                   samples, events, triggers>>

(* Mutant: a healthy probe leaves the target marked as unreachable. *)
Responds_KeepsMark(p) ==
    /\ ~badUrl
    /\ Goes(p, "request", "record")
    /\ \E ms \in Latencies, v \in {"healthy", "unhealthy"} :
          /\ latency' = [latency EXCEPT ![p] = ms]
          /\ verdict' = [verdict EXCEPT ![p] = v]
          /\ last' = IF v = "healthy" /\ last # "unreachable"
                     THEN "reachable" ELSE "unreachable"
    /\ wasUnreachable' = [wasUnreachable EXCEPT ![p] = last = "unreachable"]
    /\ UNCHANGED <<loopVars, window, samples, events, triggers>>

(* A response has arrived and its body is read, which only the probe sees; *)
(* 200 to 399 is healthy.  Then, under one lock, the probe learns whether  *)
(* the target was unreachable and says what it is now.                     *)
Responds(p) ==
    /\ ~badUrl
    /\ Goes(p, "request", "record")
    /\ \E ms \in Latencies, v \in {"healthy", "unhealthy"} :
          /\ latency' = [latency EXCEPT ![p] = ms]
          /\ verdict' = [verdict EXCEPT ![p] = v]
          /\ last' = IF v = "healthy" THEN "reachable" ELSE "unreachable"
    /\ wasUnreachable' = [wasUnreachable EXCEPT ![p] = last = "unreachable"]
    /\ UNCHANGED <<loopVars, window, samples, events, triggers>>

RecordResponse(p) ==
    /\ Goes(p, "record", "detect")
    /\ Recorded(p, latency[p], verdict[p] = "healthy")
    /\ UNCHANGED <<loopVars, window, verdict, latency, wasUnreachable, last,
                   events, triggers>>

(* The step after the event of a probe, if it has one. *)
AfterDetect(p) ==
    IF verdict[p] = "healthy" /\ wasUnreachable[p] THEN "recover" ELSE "done"

(* A failure is always an event, and a critical one. *)
DetectFailure(p) ==
    /\ verdict[p] # "healthy"
    /\ Goes(p, "detect", "trigger")
    /\ events' = events \cup
          {[by |-> p, severity |-> "critical", failure |-> TRUE,
            relative |-> ExceedsMedian(latency[p], window[p])]}
    /\ UNCHANGED <<loopVars, window, verdict, latency, wasUnreachable, last,
                   samples, triggers>>

(* A success is an event when its latency is a spike. *)
DetectSpike(p) ==
    LET reasons == SpikeReasons(latency[p], window[p])
    IN  /\ verdict[p] = "healthy"
        /\ IF reasons = {}
           THEN /\ Goes(p, "detect", AfterDetect(p))
                /\ UNCHANGED events
           ELSE /\ Goes(p, "detect", "trigger")
                /\ events' = events \cup
                      {[by |-> p, severity |-> Severity(reasons),
                        failure |-> FALSE,
                        relative |-> "relative" \in reasons]}
        /\ UNCHANGED <<loopVars, window, verdict, latency, wasUnreachable,
                       last, samples, triggers>>

(* Mutant: the event is not handed on. *)
Trigger_Forgets(p) ==
    /\ Goes(p, "trigger", AfterDetect(p))
    /\ UNCHANGED <<loopVars, window, verdict, latency, wasUnreachable, last,
                   samples, events, triggers>>

(* triggerDiagCapture: without a service nothing is captured. *)
TriggerCapture(handed) ==
    triggers' = IF wired THEN triggers \cup handed ELSE triggers

(* The spike or the failure of the probe. *)
Trigger(p) ==
    /\ Goes(p, "trigger", AfterDetect(p))
    /\ TriggerCapture({e \in events : e.by = p /\ e.severity # "recovery"})
    /\ UNCHANGED <<loopVars, window, verdict, latency, wasUnreachable, last,
                   samples, events>>

RecordRecovery(p) ==
    /\ Goes(p, "recover", "triggerRecovery")
    /\ events' = events \cup
          {[by |-> p, severity |-> "recovery", failure |-> FALSE,
            relative |-> FALSE]}
    /\ UNCHANGED <<loopVars, window, verdict, latency, wasUnreachable, last,
                   samples, triggers>>

TriggerRecovery(p) ==
    /\ Goes(p, "triggerRecovery", "done")
    /\ TriggerCapture({e \in events : e.by = p /\ e.severity = "recovery"})
    /\ UNCHANGED <<loopVars, window, verdict, latency, wasUnreachable, last,
                   samples, events>>

(* The timeout of the client and of its context ends every request. *)
Step(p) ==
    \/ TakeWindow(p) \/ RequestInvalid(p) \/ RequestFails(p)
    \/ MarkUnreachable(p) \/ Responds(p) \/ RecordResponse(p)
    \/ DetectFailure(p) \/ DetectSpike(p) \/ Trigger(p)
    \/ RecordRecovery(p) \/ TriggerRecovery(p)

Next ==
    \/ ProbeAll \/ Stop \/ SetDiagCapture
    \/ \E p \in Probes : Step(p)

Spec == Init /\ [][Next]_vars

(******************************** Properties ********************************)

TypeOK ==
    /\ running \in BOOLEAN /\ badUrl \in BOOLEAN /\ wired \in BOOLEAN
    /\ started \in 0..MaxProbes
    /\ pc \in [Probes -> Stages]
    /\ window \in [Probes -> Seq(Nat)]
    /\ verdict \in [Probes -> Verdicts]
    /\ latency \in [Probes -> Nat]
    /\ wasUnreachable \in [Probes -> BOOLEAN]
    /\ last \in {"unknown", "reachable", "unreachable"}
    /\ samples \in Seq(Sample)
    /\ events \subseteq Event
    /\ triggers \subseteq events /\ before \subseteq events

SamplesOf(p) == {i \in DOMAIN samples : samples[i].by = p}

EventsOf(p) == {e \in events : e.by = p}

(* A probe that has ended left one sample, which is a success exactly when *)
(* the target was healthy, and a failure event exactly when it was not,    *)
(* whatever the probes beside it did.  Once the prober has its capture     *)
(* service, the events that come are all handed to it, also those of       *)
(* probes that started before (probeTarget, triggerDiagCapture).           *)
ProbeAccounted ==
    \A p \in Probes : pc[p] = "done" =>
        /\ Cardinality(SamplesOf(p)) = 1
        /\ \A i \in SamplesOf(p) : samples[i].ok <=> verdict[p] = "healthy"
        /\ (\E e \in EventsOf(p) : e.failure) <=> verdict[p] # "healthy"
        /\ wired => EventsOf(p) \ before \subseteq triggers

(* The window that a probe is judged by is one that the tracker held       *)
(* before the sample of the probe was in it, and it holds no failure:      *)
(* neither a slow probe nor an outage raises its own baseline.             *)
BaselineIsPast ==
    \A p \in Probes : \E n \in 0..Len(samples) :
        LET past == SubSeq(samples, 1, n)
        IN  /\ \A i \in 1..n : past[i].by # p
            /\ Len(window[p]) <= RecentSamples
            /\ \E lo \in 1..(n + 1) :
                  \E I \in SUBSET (lo..n) :
                     /\ I = {i \in lo..n : past[i].ok}
                     /\ Cardinality(I) = Len(window[p])
                     /\ \A i \in I : past[i].ms =
                           window[p][Cardinality({j \in I : j <= i})]

(* What the relative threshold means without a median: a spike is slower   *)
(* by the multiplier than some sample of its baseline, and a success that  *)
(* is slower by it than all of them is reported (DecideSpike,              *)
(* SampleWindow.Median).                                                   *)
RelativeJustified ==
    \A p \in Probes :
        LET w       == window[p]
            Slow(i) == latency[p] >= Multiplier * w[i]
            enough  == w # << >> /\ Len(w) >= MinSamples /\ Multiplier > 0
        IN  /\ \A e \in EventsOf(p) : e.relative =>
                  enough /\ \E i \in DOMAIN w : Slow(i)
            /\ pc[p] = "done" /\ enough /\ (\A i \in DOMAIN w : Slow(i)) =>
                  \E e \in EventsOf(p) : e.relative

(* What a probe is judged by is the past, and it is judged by it alone     *)
(* (DetectAndRecordWithWindow).                                            *)
JudgedFairly == BaselineIsPast /\ RelativeJustified

(* The probes that ended an outage and have not yet recorded it. *)
Owed == {p \in Probes :
            /\ pc[p] \in {"record", "detect", "trigger", "recover"}
            /\ verdict[p] = "healthy" /\ wasUnreachable[p]}

Reported == {p \in Probes : \E e \in EventsOf(p) : e.severity = "recovery"}

Status == CASE last = "unknown"     -> "unknown"
            [] last = "reachable"   -> "up"
            [] last = "unreachable" -> "down"

Monitor == INSTANCE OutageMonitor WITH
    status <- Status, owed <- Owed, reported <- Reported

(* However the probes overlap, every step from unreachable to reachable    *)
(* has one recovery event, of the probe that took it (probeTarget reads    *)
(* and writes lastReachability under one lock).                            *)
MonitorKept == Monitor!MSpec

=============================================================================
