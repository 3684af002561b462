------------------------- MODULE CaptureCooldown -------------------------
(***************************************************************************)
(* Spikes and the diagnostic captures they trigger (UVB-76).               *)
(*                                                                         *)
(* A probe that sees a spike records it in the tracker of its target and   *)
(* probe kind (state/spike_tracker.go, under the tracker's lock), which    *)
(* keeps a bounded number of spikes that nothing protects, and then calls  *)
(* TriggerCapture (diag/capture.go).  A capture is refused while another   *)
(* one of the same diagnostic peer is in flight, and suppressed within the *)
(* cooldown after a successful one; the suppression is only allowed while  *)
(* the spike of that success, the anchor, is still in its tracker.         *)
(*                                                                         *)
(* Every probe goroutine runs by itself, so each stretch of code between   *)
(* two lock operations of the tracker (st.mu) or the capture store (cs.mu) *)
(* is one action, and what a goroutine has read stays in its own variables *)
(* until it is used.  A goroutine is named after the spike it recorded:    *)
(* each spike is triggered exactly once (probe.go), so it has at most one  *)
(* capture record, and the cap of ten records a spike is never reached.    *)
(* Events are numbered in the order in which they take their tracker's     *)
(* lock, so that a tracker's slice, oldest first, is a set of numbers.     *)
(***************************************************************************)
EXTENDS Integers, FiniteSets, TLC

CONSTANTS
    Trackers,   \* the pairs of a target and a probe kind
    Peers,      \* the diagnostic peers
    PeerOf,     \* [Trackers -> Peers \cup {None}]: TargetToDiagPeers
    MaxEvents,  \* bound: the spikes of a behaviour
    MaxTime,    \* bound: the clock
    Cap,        \* max_uncaptured_spikes
    Cooldown,   \* cooldown_seconds
    None        \* no peer, no record, no time, no anchor

Events == 1..MaxEvents

ASSUME CooldownAssumption == Cooldown \in Nat

(* A bare success is a 200 without network_diag: status ok, but no capture *)
(* status, so that it is no anchor.                                        *)
Records == {"captured", "bare", "failed", "suppressed", "not_attempted",
            "no_peer_mapping"}

ASSUME NoneAssumption ==
    None \notin Nat /\ None \notin Peers /\ None \notin Trackers
    /\ None \notin Records

ASSUME PeerOfAssumption == PeerOf \in [Trackers -> Peers \cup {None}]

(* The ID of an event is a time and random bytes, and no peer's name.      *)
ASSUME PeersAssumption == Peers \cap Events = {}

ASSUME BoundsAssumption == MaxEvents \in Nat /\ MaxTime \in Nat

ASSUME CapAssumption == Cap \in Nat \ {0}

VARIABLES
    now,          \* the clock
    phase,        \* how far main has wired the diagnostics
    from,         \* from[e]: the tracker of e, None before it is detected
    pc,           \* pc[e]: where the goroutine of e is
    events,       \* events[t]: spikeTracker.events
    victim,       \* victim[e]: the spike recordSpike removes for e
    decidedAt,    \* decidedAt[e]: the local now of TriggerCapture
    seenLast,     \* seenLast[e]: lastTime as EvaluateCooldown... read it
    seenAnchor,   \* seenAnchor[e]: the anchor read with it
    startedAt,    \* startedAt[e]: CaptureStartedAt
    record,       \* record[e]: the capture record of e
    inFlight,     \* the names reserved in CaptureStore.inFlight
    lastCapture,  \* CaptureStore.lastCapture
    lastAnchor    \* CaptureStore.lastCaptureAnchor (AnchorCaptureID)

tracking == <<from, events, victim>>
locals == <<decidedAt, seenLast, seenAnchor, startedAt>>
store == <<record, inFlight, lastCapture, lastAnchor>>
vars == <<now, phase, pc, tracking, locals, store>>

Times == 0..MaxTime

(* The lines a recording goroutine is at while it holds st.mu. *)
Recording == {"pick", "append"}

(* The lines at which a goroutine has reserved its peer. *)
Holding == {"evaluate", "spikes", "captures", "clear", "turn_away",
            "capture", "performing", "release"}

Init ==
    /\ now = 0
    /\ phase = "probing"
    /\ from = [e \in Events |-> None]
    /\ pc = [e \in Events |-> "none"]
    /\ events = [t \in Trackers |-> {}]
    /\ victim = [e \in Events |-> None]
    /\ decidedAt = [e \in Events |-> None]
    /\ seenLast = [e \in Events |-> None]
    /\ seenAnchor = [e \in Events |-> None]
    /\ startedAt = [e \in Events |-> None]
    /\ record = [e \in Events |-> None]
    /\ inFlight = {}
    /\ lastCapture = [p \in Peers |-> None]
    /\ lastAnchor = [p \in Peers |-> None]

Goto(e, from_, to) ==
    /\ pc[e] = from_
    /\ pc' = [pc EXCEPT ![e] = to]

Peer(e) == PeerOf[from[e]]

Retained(e) == e \in events[from[e]]

(* cs.inFlight is keyed by peer, and this asks it for an event. *)
GetProtectionInfo(e) == e \in inFlight \/ record[e] \in {"captured", "bare"}

(* captureInfoFunc is set when main enables the capture-aware retention. *)
Protected(e) == phase # "probing" /\ GetProtectionInfo(e)

Purgeable(t) == {e \in events[t] : ~Protected(e)}

Locked(t) == \E e \in Events : from[e] = t /\ pc[e] \in Recording

(*************************** Recording a spike ******************************)

(* The first detector keeps the default number of spikes. *)
MaxEventsPerTracker == IF phase = "probing" THEN 100 ELSE Cap

(* Mutant: the cap is compared one off. *)
DetectSpike_OffByOne(t) ==
    /\ ~Locked(t)
    /\ \E e \in Events :
          /\ \A d \in Events : (from[d] = None) <=> (d >= e)
          /\ Goto(e, "none", IF Cardinality(Purgeable(t)) > MaxEventsPerTracker
                            THEN "pick" ELSE "append")
          /\ from' = [from EXCEPT ![e] = t]
    /\ UNCHANGED <<now, phase, events, victim, locals, store>>

(* The probe of tracker t found a spike, takes st.mu and counts. *)
DetectSpike(t) ==
    /\ ~Locked(t)
    /\ \E e \in Events :
          /\ \A d \in Events : (from[d] = None) <=> (d >= e)
          /\ Goto(e, "none", IF Cardinality(Purgeable(t)) >= MaxEventsPerTracker
                            THEN "pick" ELSE "append")
          /\ from' = [from EXCEPT ![e] = t]
    /\ UNCHANGED <<now, phase, events, victim, locals, store>>

(* The choice and the removal are two steps: GetProtectionInfo has given   *)
(* cs.mu back when the slice is changed.                                   *)
PickVictim(e) ==
    /\ Goto(e, "pick", "append")
    /\ IF Purgeable(from[e]) # {}
       THEN \E v \in Purgeable(from[e]) :
               /\ \A w \in Purgeable(from[e]) : v <= w
               /\ victim' = [victim EXCEPT ![e] = v]
       ELSE UNCHANGED victim
    /\ UNCHANGED <<now, phase, from, events, locals, store>>

(* While the service is not wired, triggerDiagCapture does nothing. *)
AppendSpike(e) ==
    /\ Goto(e, "append", IF phase = "wired" THEN "trigger" ELSE "done")
    /\ events' = [events EXCEPT ![from[e]] = (@ \ {victim[e]}) \cup {e}]
    /\ victim' = [victim EXCEPT ![e] = None]
    /\ UNCHANGED <<now, phase, from, locals, store>>

(* main enables the retention after the probes have been started: a new    *)
(* detector replaces the one that may hold spikes, or be about to.         *)
EnableRetention ==
    /\ phase = "probing"
    /\ phase' = "retaining"
    /\ events' = [t \in Trackers |-> {}]
    /\ victim' = [e \in Events |-> None]
    /\ pc' = [e \in Events |->
          IF pc[e] \in Recording THEN "into_old" ELSE pc[e]]
    /\ UNCHANGED <<now, from, locals, store>>

(* recordSpike ends on the detector that nobody reads any more. *)
AppendToOld(e) ==
    /\ Goto(e, "into_old", IF phase = "wired" THEN "trigger" ELSE "done")
    /\ UNCHANGED <<now, phase, tracking, locals, store>>

SetDiagCapture ==
    /\ phase = "retaining"
    /\ phase' = "wired"
    /\ UNCHANGED <<now, pc, tracking, locals, store>>

(***************************** TriggerCapture *******************************)

(* A tracker without a peer stands for a disabled service as well. *)
RecordNoPeerMapping(e) ==
    /\ Goto(e, "trigger", "done")
    /\ Peer(e) = None
    /\ record' = [record EXCEPT ![e] = "no_peer_mapping"]
    /\ UNCHANGED <<now, phase, tracking, locals,
                   inFlight, lastCapture, lastAnchor>>

(* What TriggerCapture has read is gone when the capture goroutine starts. *)
ForgetLocals(e) ==
    /\ decidedAt' = [decidedAt EXCEPT ![e] = None]
    /\ seenLast' = [seenLast EXCEPT ![e] = None]
    /\ seenAnchor' = [seenAnchor EXCEPT ![e] = None]
    /\ UNCHANGED startedAt

(* The time is taken before the reservation. *)
ReadClock(e) ==
    /\ Goto(e, "trigger", "reserve")
    /\ Peer(e) # None
    /\ decidedAt' = [decidedAt EXCEPT ![e] = now]
    /\ UNCHANGED <<now, phase, tracking, seenLast, seenAnchor, startedAt,
                   store>>

ReserveInFlight(e) ==
    /\ Goto(e, "reserve", "evaluate")
    /\ Peer(e) \notin inFlight
    /\ inFlight' = inFlight \cup {Peer(e)}
    /\ UNCHANGED <<now, phase, tracking, locals,
                   record, lastCapture, lastAnchor>>

(* The record is added in a lock operation of its own; nothing looks at    *)
(* whether it is there yet.                                                *)
RecordSuppressedInFlight(e) ==
    /\ Goto(e, "reserve", "done")
    /\ Peer(e) \in inFlight
    /\ record' = [record EXCEPT ![e] = "not_attempted"]
    /\ decidedAt' = [decidedAt EXCEPT ![e] = None]
    /\ UNCHANGED <<now, phase, tracking, seenLast, seenAnchor, startedAt,
                   inFlight, lastCapture, lastAnchor>>

(* EvaluateCooldownWithAnchorValidation copies the state under cs.mu and   *)
(* validates its copy outside.  The two maps are written together, so that *)
(* a time always has its anchor.                                           *)
SnapshotCooldown(e) ==
    /\ pc[e] = "evaluate"
    /\ IF lastCapture[Peer(e)] = None
       THEN Goto(e, "evaluate", "capture") /\ ForgetLocals(e)
       ELSE /\ Goto(e, "evaluate", "spikes")
            /\ seenLast' = [seenLast EXCEPT ![e] = lastCapture[Peer(e)]]
            /\ seenAnchor' = [seenAnchor EXCEPT ![e] = lastAnchor[Peer(e)]]
            /\ UNCHANGED <<decidedAt, startedAt>>
    /\ UNCHANGED <<now, phase, tracking, store>>

(* Mutant: the validator asks for the capture only. *)
FindAnchorSpike_Skipped(e) ==
    /\ Goto(e, "spikes", "captures")
    /\ UNCHANGED <<now, phase, tracking, locals, store>>

(* GetSpikes waits for st.mu of the anchor's tracker. *)
FindAnchorSpike(e) ==
    /\ pc[e] = "spikes"
    /\ ~Locked(from[seenAnchor[e]])
    /\ Goto(e, "spikes",
            IF Retained(seenAnchor[e]) THEN "captures" ELSE "clear")
    /\ UNCHANGED <<now, phase, tracking, locals, store>>

(* Mutant: an expired cooldown is deleted too. *)
CheckAnchorCapture_ClearsExpired(e) ==
    /\ pc[e] = "captures"
    /\ IF decidedAt[e] - seenLast[e] >= Cooldown
       THEN Goto(e, "captures", "clear") /\ UNCHANGED locals
       ELSE /\ Goto(e, "captures", "turn_away")
            /\ decidedAt' = [decidedAt EXCEPT ![e] = None]
            /\ seenLast' = [seenLast EXCEPT ![e] = None]
            /\ UNCHANGED <<seenAnchor, startedAt>>
    /\ UNCHANGED <<now, phase, tracking, store>>

(* Mutant: the cooldown ends one unit early. *)
CheckAnchorCapture_Early(e) ==
    /\ pc[e] = "captures"
    /\ IF decidedAt[e] - seenLast[e] >= Cooldown - 1
       THEN Goto(e, "captures", "capture") /\ ForgetLocals(e)
       ELSE /\ Goto(e, "captures", "turn_away")
            /\ decidedAt' = [decidedAt EXCEPT ![e] = None]
            /\ seenLast' = [seenLast EXCEPT ![e] = None]
            /\ UNCHANGED <<seenAnchor, startedAt>>
    /\ UNCHANGED <<now, phase, tracking, store>>

(* GetCaptures, and the decision when the anchor has a success; the info   *)
(* of a suppression names the anchor.                                      *)
CheckAnchorCapture(e) ==
    /\ pc[e] = "captures"
    /\ IF record[seenAnchor[e]] \notin {"captured", "bare"}
       THEN Goto(e, "captures", "clear") /\ UNCHANGED locals
       ELSE IF decidedAt[e] - seenLast[e] >= Cooldown
       THEN Goto(e, "captures", "capture") /\ ForgetLocals(e)
       ELSE /\ Goto(e, "captures", "turn_away")
            /\ decidedAt' = [decidedAt EXCEPT ![e] = None]
            /\ seenLast' = [seenLast EXCEPT ![e] = None]
            /\ UNCHANGED <<seenAnchor, startedAt>>
    /\ UNCHANGED <<now, phase, tracking, store>>

ClearCooldownIfSame(e) ==
    /\ Goto(e, "clear", "capture")
    /\ IF /\ lastCapture[Peer(e)] = seenLast[e]
          /\ lastAnchor[Peer(e)] = seenAnchor[e]
       THEN /\ lastCapture' = [lastCapture EXCEPT ![Peer(e)] = None]
            /\ lastAnchor' = [lastAnchor EXCEPT ![Peer(e)] = None]
       ELSE UNCHANGED <<lastCapture, lastAnchor>>
    /\ ForgetLocals(e)
    /\ UNCHANGED <<now, phase, tracking, record, inFlight>>

(* Mutant: the suppression is not recorded. *)
ReleaseSuppressed_Returns(e) ==
    /\ Goto(e, "turn_away", "done")
    /\ inFlight' = inFlight \ {Peer(e)}
    /\ UNCHANGED <<now, phase, tracking, locals,
                   record, lastCapture, lastAnchor>>

ReleaseSuppressed(e) ==
    /\ Goto(e, "turn_away", "record_suppressed")
    /\ inFlight' = inFlight \ {Peer(e)}
    /\ UNCHANGED <<now, phase, tracking, locals,
                   record, lastCapture, lastAnchor>>

RecordSuppressedCooldown(e) ==
    /\ Goto(e, "record_suppressed", "done")
    /\ record' = [record EXCEPT ![e] = "suppressed"]
    /\ UNCHANGED <<now, phase, tracking, locals,
                   inFlight, lastCapture, lastAnchor>>

(************************** The capture goroutine ***************************)

StartCapture(e) ==
    /\ Goto(e, "capture", "performing")
    /\ startedAt' = [startedAt EXCEPT ![e] = now]
    /\ UNCHANGED <<now, phase, tracking, decidedAt, seenLast, seenAnchor,
                   store>>

(* performCapture has its answer, or its timeout, and the record is added; *)
(* only a captured one is an anchor (isSuccessfulCooldownAnchorCapture).   *)
AddCaptureWithProvenance(e, outcome) ==
    /\ Goto(e, "performing", "release")
    /\ record' = [record EXCEPT ![e] = outcome]
    /\ startedAt' = [startedAt EXCEPT ![e] =
                        IF outcome = "captured" THEN @ ELSE None]
    /\ IF outcome = "captured"
       THEN /\ lastCapture' = [lastCapture EXCEPT ![Peer(e)] = startedAt[e]]
            /\ lastAnchor' = [lastAnchor EXCEPT ![Peer(e)] = e]
       ELSE UNCHANGED <<lastCapture, lastAnchor>>
    /\ UNCHANGED <<now, phase, tracking, decidedAt, seenLast, seenAnchor,
                   inFlight>>

ReleaseInFlight(e) ==
    /\ Goto(e, "release", "done")
    /\ inFlight' = inFlight \ {Peer(e)}
    /\ UNCHANGED <<now, phase, tracking, locals,
                   record, lastCapture, lastAnchor>>

Tick ==
    /\ now < MaxTime
    /\ now' = now + 1
    /\ UNCHANGED <<phase, pc, tracking, locals, store>>

(* One step of the goroutine of e. *)
Step(e) ==
    \/ PickVictim(e) \/ AppendSpike(e) \/ AppendToOld(e)
    \/ RecordNoPeerMapping(e) \/ ReadClock(e)
    \/ ReserveInFlight(e) \/ RecordSuppressedInFlight(e)
    \/ SnapshotCooldown(e) \/ FindAnchorSpike(e) \/ CheckAnchorCapture(e)
    \/ ClearCooldownIfSame(e)
    \/ ReleaseSuppressed(e) \/ RecordSuppressedCooldown(e)
    \/ StartCapture(e)
    \/ \E o \in {"captured", "bare", "failed"} : AddCaptureWithProvenance(e, o)
    \/ ReleaseInFlight(e)

(* No spike is being handled: the daemon waits for the next one. *)
Idle ==
    /\ \A e \in Events : pc[e] \in {"none", "done"}
    /\ UNCHANGED vars

Next ==
    \/ Tick \/ Idle
    \/ EnableRetention \/ SetDiagCapture
    \/ \E t \in Trackers : DetectSpike(t)
    \/ \E e \in Events : Step(e)

Spec == Init /\ [][Next]_vars

(* A goroutine that can run does: no step waits for anything but a lock    *)
(* that is given back, and the request of a capture has a timeout.         *)
FairSpec == Spec /\ \A e \in Events : WF_vars(Step(e))

(******************************** Properties ********************************)

TypeOK ==
    /\ now \in Times
    /\ phase \in {"probing", "retaining", "wired"}
    /\ from \in [Events -> Trackers \cup {None}]
    /\ pc \in [Events -> {"none", "into_old", "trigger", "reserve",
                          "record_suppressed", "done"}
                         \cup Recording \cup Holding]
    /\ events \in [Trackers -> SUBSET Events]
    /\ victim \in [Events -> Events \cup {None}]
    /\ decidedAt \in [Events -> Times \cup {None}]
    /\ seenLast \in [Events -> Times \cup {None}]
    /\ seenAnchor \in [Events -> Events \cup {None}]
    /\ startedAt \in [Events -> Times \cup {None}]
    /\ record \in [Events -> Records \cup {None}]
    /\ inFlight \subseteq Peers
    /\ lastCapture \in [Peers -> Times \cup {None}]
    /\ lastAnchor \in [Peers -> Events \cup {None}]

(* A peer never has two captures at once, whoever asks for them: the      *)
(* trigger that reserved it is the only one between ReserveInFlight and    *)
(* ReleaseInFlight (diag/capture.go:87-121).                               *)
OneCapturePerPeer ==
    \A d, e \in Events :
        (d # e /\ pc[d] \in Holding /\ pc[e] \in Holding)
            => Peer(d) # Peer(e)

(* "skipped_cooldown requires anchor_timeline_visible" (cooldown.go:200):  *)
(* a trigger that was, or is about to be, suppressed names an anchor whose *)
(* spike is in its tracker and stays there, with a successful capture; so  *)
(* no eviction that raced with the validation, and no later one, leaves a  *)
(* ghost suppression behind.                                               *)
SuppressionJustified ==
    \A e \in Events :
        (pc[e] \in {"turn_away", "record_suppressed"}
            \/ record[e] = "suppressed")
        => /\ Retained(seenAnchor[e])
           /\ record[seenAnchor[e]] = "captured"

(* The spikes that nothing protects stay within max_uncaptured_spikes,    *)
(* although a capture may end between the count, the choice of the oldest  *)
(* and its removal (spike_tracker.go:35-57).                               *)
UncapturedBounded ==
    phase # "probing" =>
        \A t \in Trackers : Cardinality(Purgeable(t)) <= Cap

(* The cooldown of a peer is given up only when the spike of its capture   *)
(* has been evicted: what the trigger validated outside the lock is still  *)
(* so when clearCooldownIfSame deletes it (cooldown_anchor_validation.go). *)
ClearedOnlyEvicted ==
    [][\A p \in Peers :
          (lastCapture[p] # None /\ lastCapture'[p] = None)
          => ~Retained(lastAnchor[p])]_vars

(* A goroutine has reserved p and is at one of these lines. *)
HeldAt(p, lines) ==
    \E e \in Events : from[e] # None /\ Peer(e) = p /\ pc[e] \in lines

(* What a peer is doing, in the words of CaptureAdmission. *)
Slot(p) ==
    CASE HeldAt(p, {"performing"}) -> "capturing"
      [] HeldAt(p, {"release"}) -> "ending"
      [] HeldAt(p, Holding \ {"performing", "release"}) -> "deciding"
      [] OTHER -> "free"

Admission == INSTANCE CaptureAdmission
    WITH clock <- now, slot <- [p \in Peers |-> Slot(p)], last <- lastCapture

(* The service keeps what CaptureAdmission promises of every peer: one     *)
(* trigger at a time, no start within the cooldown of a capture that       *)
(* stands, and times that only move forward.                               *)
AdmissionKept == Admission!ASpec

(* Every trigger leaves a record of what became of it, and in bounded     *)
(* time: neither the tracker's lock, nor the peer's reservation, nor the   *)
(* validator that takes both locks in turn, stops it.                      *)
TriggersAnswered ==
    \A e \in Events : pc[e] = "trigger" ~> record[e] # None

(* A reserved peer is given back on every path. *)
PeersGivenBack ==
    \A p \in Peers : p \in inFlight ~> p \notin inFlight

(* So TriggerCapture ends well for who asks and for who asks next.         *)
CapturesEnd == TriggersAnswered /\ PeersGivenBack

(* "Protected spikes (with captures or in-flight) are NEVER evicted"       *)
(* (spike_tracker.go:30): the spike of a capture that is being performed   *)
(* is in its tracker.                                                      *)
InFlightRetained ==
    [][\A e \in Events : (pc[e] = "performing" /\ Retained(e)) => Retained(e)']_vars

============================================================================
