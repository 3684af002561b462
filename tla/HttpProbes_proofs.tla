------------------------- MODULE HttpProbes_proofs -------------------------
(***************************************************************************)
(* Proofs about HttpProbes, for any number of overlapping probes, every    *)
(* set of latencies and every spike configuration.                         *)
(***************************************************************************)
EXTENDS HttpProbes, FiniteSetTheorems, SequenceTheorems,
        NaturalsInduction, WellFoundedInduction, TLAPS

USE MaxProbesAssumption, LatenciesAssumption

(***************************************************************************)
(* The recovery of an outage.                                              *)
(***************************************************************************)
Recovered(p) == \E e \in events : e.by = p /\ e.severity = "recovery"

(* Where a probe stands and what it has said so far. *)
Course(p) ==
    /\ p > started => pc[p] = "unborn"
    /\ pc[p] = "unreachable" => verdict[p] = "error"
    /\ pc[p] = "recover" => verdict[p] = "healthy" /\ wasUnreachable[p]
    /\ pc[p] \notin {"triggerRecovery", "done"} => ~Recovered(p)

MonitorInv ==
    /\ started \in 0..MaxProbes
    /\ pc \in [Probes -> Stages]
    /\ verdict \in [Probes -> Verdicts]
    /\ wasUnreachable \in [Probes -> BOOLEAN]
    /\ last \in {"unknown", "reachable", "unreachable"}
    /\ \A p \in Probes : Course(p)

LEMMA SeverityNotRecovery ==
    ASSUME NEW R
    PROVE  Severity(R) # "recovery"
BY DEF Severity

LEMMA MonitorInit == Init => MonitorInv
BY DEF Init, MonitorInv, Course, Recovered, Probes, Stages, Verdicts

(* A step of a probe that records no event. *)
LEMMA QuietStep ==
    ASSUME MonitorInv, NEW p \in Probes,
           \/ TakeWindow(p) \/ RequestInvalid(p) \/ RequestFails(p)
           \/ MarkUnreachable(p) \/ Responds(p) \/ RecordResponse(p)
           \/ Trigger(p) \/ TriggerRecovery(p)
    PROVE  MonitorInv'
<1> USE DEF MonitorInv, Course, Recovered, Goes, loopVars, Stages, Verdicts
<1>1. CASE TakeWindow(p)       BY <1>1 DEF TakeWindow
<1>2. CASE RequestInvalid(p)   BY <1>2 DEF RequestInvalid
<1>3. CASE RequestFails(p)     BY <1>3 DEF RequestFails
<1>4. CASE MarkUnreachable(p)  BY <1>4 DEF MarkUnreachable
<1>5. CASE Responds(p)         BY <1>5 DEF Responds
<1>6. CASE RecordResponse(p)   BY <1>6 DEF RecordResponse
<1>7. CASE Trigger(p)          BY <1>7 DEF Trigger, AfterDetect
<1>8. CASE TriggerRecovery(p)  BY <1>8 DEF TriggerRecovery
<1> QED BY <1>1, <1>2, <1>3, <1>4, <1>5, <1>6, <1>7, <1>8

LEMMA MonitorStep == MonitorInv /\ [Next]_vars => MonitorInv'
<1> SUFFICES ASSUME MonitorInv, [Next]_vars
             PROVE  MonitorInv'
  OBVIOUS
<1> USE DEF Stages, Verdicts
<1>1. CASE ProbeAll
  BY <1>1 DEF ProbeAll, MonitorInv, Course, Recovered, Probes
<1>2. CASE Stop \/ SetDiagCapture
  BY <1>2 DEF Stop, SetDiagCapture, MonitorInv, Course, Recovered
<1>3. ASSUME NEW p \in Probes, DetectFailure(p)
      PROVE  MonitorInv'
  <2>1. \A e \in events' \ events : e.severity = "critical"
    BY <1>3 DEF DetectFailure
  <2> QED
    BY <1>3, <2>1 DEF DetectFailure, MonitorInv, Course, Recovered, Goes,
                      loopVars
<1>4. ASSUME NEW p \in Probes, DetectSpike(p)
      PROVE  MonitorInv'
  <2>1. \A e \in events' \ events : e.severity # "recovery"
    BY <1>4, SeverityNotRecovery DEF DetectSpike
  <2>2. events \subseteq events'
    BY <1>4 DEF DetectSpike
  <2>3. \E s \in {"trigger", "recover", "done"} :
           /\ pc' = [pc EXCEPT ![p] = s]
           /\ s = "recover" => verdict[p] = "healthy" /\ wasUnreachable[p]
    BY <1>4 DEF DetectSpike, Goes, AfterDetect
  <2> QED
    BY <1>4, <2>1, <2>2, <2>3 DEF DetectSpike, MonitorInv, Course, Recovered,
                                  Goes, loopVars
<1>5. ASSUME NEW p \in Probes, RecordRecovery(p)
      PROVE  MonitorInv'
  <2>1. \A e \in events' \ events : e.by = p
    BY <1>5 DEF RecordRecovery
  <2> QED
    BY <1>5, <2>1 DEF RecordRecovery, MonitorInv, Course, Recovered, Goes,
                      loopVars
<1>6. CASE UNCHANGED vars
  BY <1>6 DEF vars, MonitorInv, Course, Recovered
<1> QED
  BY <1>1, <1>2, <1>3, <1>4, <1>5, <1>6, QuietStep DEF Next, Step

(***************************************************************************)
(* Every step of the prober is a step of the monitor or none.              *)
(***************************************************************************)
LEMMA MonitorInitMaps == Init => Monitor!MInit
BY DEF Init, Monitor!MInit, Status, Owed, Reported, EventsOf

LEMMA MonitorMaps ==
    ASSUME MonitorInv, [Next]_vars
    PROVE  [Monitor!MNext]_(Monitor!mvars)
<1> USE DEF MonitorInv, Course, Recovered, Stages, Verdicts, Goes, loopVars,
            Status, Owed, Reported, EventsOf, Monitor!mvars
<1> DEFINE Same == Status' = Status /\ Owed' = Owed /\ Reported' = Reported
<1>1. CASE ProbeAll
  <2>1. Same  BY <1>1 DEF ProbeAll, Probes
  <2> QED BY <2>1
<1>2. CASE Stop \/ SetDiagCapture
  <2>1. Same  BY <1>2 DEF Stop, SetDiagCapture
  <2> QED BY <2>1
<1>3. CASE UNCHANGED vars
  <2>1. Same  BY <1>3 DEF vars
  <2> QED BY <2>1
<1>4. ASSUME NEW p \in Probes, Step(p)
      PROVE  [Monitor!MNext]_(Monitor!mvars)
  <2>1. CASE TakeWindow(p)
    <3>1. Same  BY <2>1 DEF TakeWindow
    <3> QED BY <3>1
  <2>2. CASE RequestInvalid(p)
    <3>1. Same  BY <2>2 DEF RequestInvalid
    <3> QED BY <3>1
  <2>3. CASE RequestFails(p)
    <3>1. Same  BY <2>3 DEF RequestFails
    <3> QED BY <3>1
  <2>4. CASE MarkUnreachable(p)
    <3>1. Status' = "down" /\ Owed' = Owed /\ Reported' = Reported
      BY <2>4 DEF MarkUnreachable
    <3> QED BY <3>1 DEF Monitor!MNext, Monitor!Down
  <2>5. CASE Responds(p)
    <3>1. Reported' = Reported /\ p \notin Owed /\ p \notin Reported
      BY <2>5 DEF Responds
    <3>2. PICK v \in {"healthy", "unhealthy"} :
             /\ verdict' = [verdict EXCEPT ![p] = v]
             /\ last' = IF v = "healthy" THEN "reachable" ELSE "unreachable"
      BY <2>5 DEF Responds
    <3>3. /\ pc' = [pc EXCEPT ![p] = "record"]
          /\ wasUnreachable' =
                [wasUnreachable EXCEPT ![p] = (last = "unreachable")]
          /\ \A q \in Probes \ {p} : q \in Owed' <=> q \in Owed
      BY <2>5 DEF Responds
    <3>4. CASE v = "unhealthy"
      <4>1. Status' = "down" /\ p \notin Owed'
        BY <3>2, <3>4
      <4>2. Owed' = Owed
        BY <3>1, <3>3, <4>1
      <4> QED BY <4>2, <3>1, <4>1 DEF Monitor!MNext, Monitor!Down
    <3>5. CASE v = "healthy" /\ last # "unreachable"
      <4>1. Status # "down" /\ Status' = "up"
        BY <3>2, <3>5
      <4>2. p \notin Owed'
        BY <3>3, <3>5
      <4>3. Owed' = Owed
        BY <3>1, <3>3, <4>2
      <4> QED BY <4>3, <3>1, <4>1 DEF Monitor!MNext, Monitor!StaysUp
    <3>6. CASE v = "healthy" /\ last = "unreachable"
      <4>1. Status = "down" /\ Status' = "up"
        BY <3>2, <3>6
      <4>2. p \in Owed'
        BY <3>2, <3>3, <3>6
      <4>3. Owed' = Owed \cup {p}
        BY <3>3, <4>2
      <4> QED BY <4>3, <3>1, <4>1 DEF Monitor!MNext, Monitor!Recovers
    <3> QED BY <3>4, <3>5, <3>6
  <2>6. CASE RecordResponse(p)
    <3>1. Same  BY <2>6 DEF RecordResponse
    <3> QED BY <3>1
  <2>7. CASE DetectFailure(p)
    <3>1. Reported' = Reported
      BY <2>7 DEF DetectFailure
    <3>2. Status' = Status /\ Owed' = Owed
      BY <2>7 DEF DetectFailure
    <3> QED BY <3>1, <3>2
  <2>8. CASE DetectSpike(p)
    <3>1. /\ events \subseteq events'
          /\ \A e \in events' \ events : e.severity # "recovery"
      BY <2>8, SeverityNotRecovery DEF DetectSpike
    <3>2. Reported' = Reported
      BY <3>1
    <3>3. \E s \in {"trigger", "recover", "done"} :
             /\ pc' = [pc EXCEPT ![p] = s]
             /\ s = "done" => ~(verdict[p] = "healthy" /\ wasUnreachable[p])
      BY <2>8 DEF DetectSpike, AfterDetect
    <3>4. Status' = Status /\ Owed' = Owed
      BY <2>8, <3>3 DEF DetectSpike
    <3> QED BY <3>2, <3>4
  <2>9. CASE Trigger(p)
    <3>1. \E s \in {"recover", "done"} :
             /\ pc' = [pc EXCEPT ![p] = s]
             /\ s = "done" => ~(verdict[p] = "healthy" /\ wasUnreachable[p])
      BY <2>9 DEF Trigger, AfterDetect
    <3>2. Same  BY <2>9, <3>1 DEF Trigger
    <3> QED BY <3>2
  <2>10. CASE RecordRecovery(p)
    <3>1. p \in Owed
      BY <2>10 DEF RecordRecovery
    <3>2. Status' = Status /\ Owed' = Owed \ {p}
      BY <2>10 DEF RecordRecovery
    <3>3. /\ events \subseteq events'
          /\ \A e \in events' \ events : e.by = p /\ e.severity = "recovery"
          /\ \E e \in events' : e.by = p /\ e.severity = "recovery"
      <4> DEFINE r == [by |-> p, severity |-> "recovery", failure |-> FALSE,
                       relative |-> FALSE]
      <4>1. events' = events \cup {r}
        BY <2>10, Zenon DEF RecordRecovery
      <4>2. r.by = p /\ r.severity = "recovery"
        OBVIOUS
      <4> QED BY <4>1, <4>2, Zenon
    <3>4. Reported' = Reported \cup {p}
      BY <3>3
    <3> QED BY <3>1, <3>2, <3>4 DEF Monitor!MNext, Monitor!Reports
  <2>11. CASE TriggerRecovery(p)
    <3>1. Same  BY <2>11 DEF TriggerRecovery
    <3> QED BY <3>1
  <2> QED
    BY <1>4, <2>1, <2>2, <2>3, <2>4, <2>5, <2>6, <2>7, <2>8, <2>9, <2>10,
       <2>11 DEF Step
<1> QED BY <1>1, <1>2, <1>3, <1>4 DEF Next

(* However many probes overlap, every step of the target from unreachable  *)
(* to reachable is reported as one recovery, by the probe that took it     *)
(* (probeTarget tests and sets lastReachability under one lock).           *)
THEOREM ImplementsMonitor == Spec => MonitorKept
<1>1. Spec => []MonitorInv
  BY MonitorInit, MonitorStep, PTL DEF Spec
<1> QED
  BY <1>1, MonitorInitMaps, MonitorMaps, PTL
     DEF Spec, MonitorKept, Monitor!MSpec

(***************************************************************************)
(* What a probe leaves behind.                                             *)
(***************************************************************************)
Early == {"unborn", "window", "request", "record"}

SampleAccount(p) ==
    /\ pc[p] \in Early => SamplesOf(p) = {}
    /\ pc[p] \notin Early =>
          \E i \in DOMAIN samples :
              /\ SamplesOf(p) = {i}
              /\ samples[i].ok <=> verdict[p] = "healthy"

(* An event from before the service, or handed to it. *)
Handed(e) == wired => e \in before \cup triggers

EventAccount(p) ==
    /\ pc[p] \in Early \cup {"unreachable", "detect"} => EventsOf(p) = {}
    /\ pc[p] \in {"trigger", "recover", "triggerRecovery", "done"} =>
          ((\E e \in EventsOf(p) : e.failure) <=> verdict[p] # "healthy")
    /\ pc[p] \in {"recover", "done"} =>
          \A e \in EventsOf(p) : Handed(e)
    /\ pc[p] = "triggerRecovery" =>
          \A e \in EventsOf(p) : e.severity # "recovery" => Handed(e)

AccountInv ==
    /\ latency \in [Probes -> Nat]
    /\ samples \in Seq(Sample)
    /\ \A p \in Probes : SampleAccount(p)
    /\ \A p \in Probes : EventAccount(p)

LEMMA AccountInit == Init => AccountInv
<1> SUFFICES ASSUME Init PROVE AccountInv
  OBVIOUS
<1>1. samples \in Seq(Sample) /\ DOMAIN samples = {}
  BY EmptySeq DEF Init
<1> QED
  BY <1>1 DEF Init, AccountInv, SampleAccount, EventAccount, SamplesOf,
              EventsOf, Early

(* A sample of p is one more sample, of p and of no other probe. *)
LEMMA OneMore ==
    ASSUME samples \in Seq(Sample), NEW p \in Probes, NEW ms \in Nat,
           NEW ok \in BOOLEAN, Recorded(p, ms, ok)
    PROVE  /\ samples' \in Seq(Sample)
           /\ \A q \in Probes \ {p} : SamplesOf(q)' = SamplesOf(q)
           /\ \A i \in DOMAIN samples : i \in DOMAIN samples'
                                        /\ samples'[i] = samples[i]
           /\ SamplesOf(p) = {} =>
                \E i \in DOMAIN samples' :
                    SamplesOf(p)' = {i} /\ (samples'[i].ok <=> ok)
<1> DEFINE x == [by |-> p, ms |-> ms, ok |-> ok]
           n == Len(samples) + 1
<1>1. x \in Sample
  BY DEF Sample
<1>2. x.by = p /\ (x.ok <=> ok)
  OBVIOUS
<1>3. samples' = Append(samples, x)
  BY DEF Recorded
<1> HIDE DEF x
<1>4. /\ samples' \in Seq(Sample)
      /\ DOMAIN samples = 1..Len(samples) /\ Len(samples) \in Nat
      /\ DOMAIN samples' = 1..n
      /\ \A i \in 1..Len(samples) : samples'[i] = samples[i]
      /\ samples'[n] = x
  BY <1>1, <1>3, AppendProperties
<1>5. DOMAIN samples' = DOMAIN samples \cup {n} /\ n \notin DOMAIN samples
  BY <1>4
<1>6. \A q \in Probes \ {p} : SamplesOf(q)' = SamplesOf(q)
  BY <1>2, <1>4, <1>5 DEF SamplesOf
<1>7. SamplesOf(p)' = SamplesOf(p) \cup {n}
  BY <1>2, <1>4, <1>5 DEF SamplesOf
<1> QED BY <1>2, <1>4, <1>5, <1>6, <1>7

LEMMA AccountStep ==
    ASSUME MonitorInv, AccountInv, [Next]_vars
    PROVE  AccountInv'
<1> USE DEF MonitorInv, Course, AccountInv, Stages, Verdicts, Goes, loopVars,
            Early
<1>1. CASE ProbeAll
  <2>1. /\ started + 1 \in Probes /\ pc[started + 1] = "unborn"
        /\ pc' = [pc EXCEPT ![started + 1] = "window"]
        /\ UNCHANGED <<samples, events, triggers, latency, verdict, wired, before>>
    BY <1>1 DEF ProbeAll, Probes
  <2>2. \A p \in Probes : SampleAccount(p)'
    <3>1. \A p \in Probes : SamplesOf(p)' = SamplesOf(p)
      BY <2>1 DEF SamplesOf
    <3> QED BY <2>1, <3>1 DEF SampleAccount
  <2>3. \A p \in Probes : EventAccount(p)'
    BY <2>1 DEF EventAccount, EventsOf, Handed
  <2> QED BY <2>1, <2>2, <2>3
<1>2. CASE Stop
  BY <1>2 DEF Stop, SampleAccount, EventAccount, SamplesOf, EventsOf, Handed
<1>8. CASE SetDiagCapture
  <2>1. UNCHANGED <<pc, samples, events, triggers, latency, verdict>> /\ before' = events
    BY <1>8 DEF SetDiagCapture
  <2>2. ASSUME NEW p \in Probes PROVE SampleAccount(p)'
    <3>1. SamplesOf(p)' = SamplesOf(p)
      BY <2>1 DEF SamplesOf
    <3>2. SampleAccount(p)
      OBVIOUS
    <3> QED BY ONLY <2>1, <3>1, <3>2 DEF SampleAccount, Early
  <2>3. \A p \in Probes : EventsOf(p)' = EventsOf(p) /\ \A e \in EventsOf(p) : Handed(e)'
    BY <2>1 DEF EventsOf, Handed
  <2>4. ASSUME NEW p \in Probes PROVE EventAccount(p)'
    <3>1. EventAccount(p) /\ EventsOf(p)' = EventsOf(p) /\ \A e \in EventsOf(p) : Handed(e)'
      BY <2>3
    <3>2. pc'[p] = pc[p] /\ verdict'[p] = verdict[p]
      BY <2>1
    <3> QED BY ONLY <3>1, <3>2 DEF EventAccount, Early
  <2> QED BY <2>1, <2>2, <2>4
<1>3. CASE UNCHANGED vars
  BY <1>3 DEF vars, SampleAccount, EventAccount, SamplesOf, EventsOf, Handed
<1>4. ASSUME NEW p \in Probes, TakeWindow(p) \/ MarkUnreachable(p)
      PROVE  AccountInv'
  <2>1. UNCHANGED <<samples, events, triggers, latency, verdict, wired, before>>
    BY <1>4 DEF TakeWindow, MarkUnreachable
  <2>2. \/ pc[p] = "window" /\ pc' = [pc EXCEPT ![p] = "request"]
        \/ pc[p] = "unreachable" /\ pc' = [pc EXCEPT ![p] = "detect"]
    BY <1>4 DEF TakeWindow, MarkUnreachable
  <2>3. \A q \in Probes : SampleAccount(q)'
    BY <2>1, <2>2, SMTT(60) DEF SampleAccount, SamplesOf
  <2>4. \A q \in Probes : EventAccount(q)'
    BY <2>1, <2>2 DEF EventAccount, EventsOf, Handed
  <2> QED BY <2>1, <2>3, <2>4
<1>5. ASSUME NEW p \in Probes, Responds(p)
      PROVE  AccountInv'
  <2>1. UNCHANGED <<samples, events, triggers, wired, before>>
    BY <1>5 DEF Responds
  <2>2. pc[p] = "request" /\ pc' = [pc EXCEPT ![p] = "record"]
    BY <1>5 DEF Responds
  <2>3. /\ latency' \in [Probes -> Nat]
        /\ \A q \in Probes \ {p} : verdict'[q] = verdict[q]
    BY <1>5 DEF Responds
  <2>4. \A q \in Probes : SampleAccount(q)'
    <3>1. \A q \in Probes : SamplesOf(q)' = SamplesOf(q)
      BY <2>1 DEF SamplesOf
    <3> QED BY <2>1, <2>2, <2>3, <3>1, ZenonT(60) DEF SampleAccount
  <2>5. \A q \in Probes : EventAccount(q)'
    BY <2>1, <2>2, <2>3 DEF EventAccount, EventsOf, Handed
  <2> QED BY <2>1, <2>3, <2>4, <2>5
<1>6. ASSUME NEW p \in Probes,
             RequestInvalid(p) \/ RequestFails(p) \/ RecordResponse(p)
      PROVE  AccountInv'
  <2>1. UNCHANGED <<events, triggers, wired, before>>
    BY <1>6 DEF RequestInvalid, RequestFails, RecordResponse
  <2>2. PICK s \in {"detect", "unreachable"} : pc' = [pc EXCEPT ![p] = s]
    BY <1>6 DEF RequestInvalid, RequestFails, RecordResponse
  <2>3. pc[p] \in {"request", "record"}
    BY <1>6 DEF RequestInvalid, RequestFails, RecordResponse
  <2>4. /\ latency' \in [Probes -> Nat]
        /\ verdict' \in [Probes -> Verdicts]
        /\ \A q \in Probes \ {p} : verdict'[q] = verdict[q]
    BY <1>6, ZenonT(60) DEF RequestInvalid, RequestFails, RecordResponse
  <2>5. \E ms \in Nat, ok \in BOOLEAN :
           Recorded(p, ms, ok) /\ (ok <=> verdict'[p] = "healthy")
    BY <1>6 DEF RequestInvalid, RequestFails, RecordResponse
  <2>6. PICK ms \in Nat, ok \in BOOLEAN :
           Recorded(p, ms, ok) /\ (ok <=> verdict'[p] = "healthy")
    BY <2>5
  <2>7. /\ samples' \in Seq(Sample)
        /\ \A q \in Probes \ {p} : SamplesOf(q)' = SamplesOf(q)
        /\ \A i \in DOMAIN samples : i \in DOMAIN samples'
                                     /\ samples'[i] = samples[i]
        /\ SamplesOf(p) = {} =>
             \E i \in DOMAIN samples' :
                 SamplesOf(p)' = {i} /\ (samples'[i].ok <=> ok)
    BY <2>6, OneMore
  <2>8. SamplesOf(p) = {}
    BY <2>3 DEF SampleAccount
  <2>9. SampleAccount(p)'
    BY <2>2, <2>3, <2>6, <2>7, <2>8 DEF SampleAccount
  <2>10. ASSUME NEW q \in Probes \ {p}
         PROVE  SampleAccount(q)'
    <3>1. pc'[q] = pc[q] /\ verdict'[q] = verdict[q]
      BY <2>2, <2>4
    <3>2. SamplesOf(q)' = SamplesOf(q)
      BY <2>7
    <3>3. CASE pc[q] \in Early
      BY <3>1, <3>2, <3>3 DEF SampleAccount
    <3>4. CASE pc[q] \notin Early
      <4>1. PICK i \in DOMAIN samples :
                SamplesOf(q) = {i} /\ (samples[i].ok <=> verdict[q] = "healthy")
        BY <3>4 DEF SampleAccount
      <4>2. /\ i \in DOMAIN samples'
            /\ samples'[i] = samples[i]
        BY <2>7
      <4> QED BY <3>1, <3>2, <3>4, <4>1, <4>2 DEF SampleAccount
    <3> QED BY <3>3, <3>4
  <2>11. \A q \in Probes : EventAccount(q)'
    BY <2>1, <2>2, <2>3, <2>4 DEF EventAccount, EventsOf, Handed
  <2> QED BY <2>4, <2>7, <2>9, <2>10, <2>11
<1>7. ASSUME NEW p \in Probes,
             \/ DetectFailure(p) \/ DetectSpike(p) \/ Trigger(p)
             \/ RecordRecovery(p) \/ TriggerRecovery(p)
      PROVE  AccountInv'
  <2>1. UNCHANGED <<samples, latency, verdict>>
    BY <1>7 DEF DetectFailure, DetectSpike, Trigger, RecordRecovery,
                TriggerRecovery
  <2>2. /\ pc[p] \notin Early
        /\ \E s \in {"trigger", "recover", "done", "triggerRecovery"} :
              pc' = [pc EXCEPT ![p] = s]
    BY <1>7 DEF DetectFailure, DetectSpike, Trigger, RecordRecovery,
                TriggerRecovery, AfterDetect
  <2>3. \A q \in Probes : SampleAccount(q)'
    <3>1. \A q \in Probes : SamplesOf(q)' = SamplesOf(q)
      BY <2>1 DEF SamplesOf
    <3> QED BY <2>1, <2>2, <3>1 DEF SampleAccount
  <2>4. /\ triggers \subseteq triggers'
        /\ events \subseteq events'
        /\ \A e \in events' \ events : e.by = p
        /\ UNCHANGED <<wired, before>>
    BY <1>7 DEF DetectFailure, DetectSpike, Trigger, RecordRecovery,
                TriggerRecovery, TriggerCapture
  <2>7. \A e : Handed(e) => Handed(e)'
    BY <2>4 DEF Handed
  <2>5. ASSUME NEW q \in Probes \ {p}
        PROVE  EventAccount(q)'
    <3>1. EventsOf(q)' = EventsOf(q) /\ pc'[q] = pc[q]
      BY <2>2, <2>4 DEF EventsOf
    <3> QED BY <2>1, <2>7, <3>1 DEF EventAccount
  <2>6. EventAccount(p)'
    <3>1. CASE DetectFailure(p)
      <4>1. PICK e : events' = events \cup {e} /\ e.by = p /\ e.failure
        <5> DEFINE r == [by |-> p, severity |-> "critical", failure |-> TRUE,
                         relative |-> ExceedsMedian(latency[p], window[p])]
        <5>1. events' = events \cup {r}
          BY <3>1, Zenon DEF DetectFailure
        <5>2. r.by = p /\ r.failure
          OBVIOUS
        <5> QED BY <5>1, <5>2, Zenon
      <4>2. EventsOf(p)' = {e}
        BY <3>1, <4>1 DEF DetectFailure, EventAccount, EventsOf
      <4> QED BY <2>1, <3>1, <4>1, <4>2 DEF DetectFailure, EventAccount
    <3>2. CASE DetectSpike(p)
      <4>1. EventsOf(p) = {} /\ verdict'[p] = "healthy"
        BY <2>1, <3>2 DEF DetectSpike, EventAccount
      <4>2. CASE events' = events
        <5>1. EventsOf(p)' = {}
          BY <4>1, <4>2 DEF EventsOf
        <5> QED BY <2>2, <4>1, <5>1 DEF EventAccount
      <4>3. CASE events' # events
        <5>1. /\ pc' = [pc EXCEPT ![p] = "trigger"]
              /\ \A e \in events' \ events : ~e.failure
          BY <3>2, <4>3 DEF DetectSpike
        <5>2. \A e \in EventsOf(p)' : ~e.failure
          BY <4>1, <5>1 DEF EventsOf
        <5> QED BY <4>1, <5>1, <5>2 DEF EventAccount
      <4> QED BY <4>2, <4>3
    <3>3. CASE Trigger(p)
      <4>1. EventsOf(p)' = EventsOf(p)
        BY <3>3 DEF Trigger, EventsOf
      <4>2. \A e \in EventsOf(p) : Handed(e)'
        BY <3>3 DEF Trigger, TriggerCapture, EventsOf, Recovered, Handed
      <4>3. pc[p] = "trigger" /\ \E s \in {"recover", "done"} :
                                   pc' = [pc EXCEPT ![p] = s]
        BY <3>3 DEF Trigger, AfterDetect
      <4> QED BY <2>1, <4>1, <4>2, <4>3 DEF EventAccount
    <3>4. CASE RecordRecovery(p)
      <4>1. /\ \A e \in events' \ events : ~e.failure
            /\ \A e \in events' \ events : e.severity = "recovery"
        BY <3>4 DEF RecordRecovery
      <4>2. /\ pc[p] = "recover" /\ pc' = [pc EXCEPT ![p] = "triggerRecovery"]
            /\ triggers' = triggers /\ verdict[p] = "healthy"
        BY <3>4 DEF RecordRecovery
      <4>3. \A e \in EventsOf(p)' : ~e.failure
        BY <4>1, <4>2 DEF EventAccount, EventsOf
      <4>4. \A e \in EventsOf(p)' : e.severity # "recovery" => Handed(e)
        BY <4>1, <4>2 DEF EventAccount, EventsOf
      <4> QED BY <2>1, <2>7, <4>2, <4>3, <4>4 DEF EventAccount
    <3>5. CASE TriggerRecovery(p)
      <4>1. /\ pc[p] = "triggerRecovery" /\ pc' = [pc EXCEPT ![p] = "done"]
            /\ EventsOf(p)' = EventsOf(p)
        BY <3>5 DEF TriggerRecovery, EventsOf
      <4>2. \A e \in EventsOf(p) : Handed(e)'
        <5>1. \A e \in EventsOf(p) : e.severity # "recovery" => Handed(e)'
          BY <2>7, <4>1 DEF EventAccount
        <5>2. \A e \in EventsOf(p) : e.severity = "recovery" => Handed(e)'
          BY <2>4, <3>5 DEF TriggerRecovery, TriggerCapture, EventsOf, Handed
        <5> QED BY <5>1, <5>2
      <4> QED BY <2>1, <4>1, <4>2 DEF EventAccount
    <3> QED BY <1>7, <3>1, <3>2, <3>3, <3>4, <3>5
  <2> QED BY <2>1, <2>3, <2>5, <2>6
<1> QED BY <1>1, <1>2, <1>3, <1>4, <1>5, <1>6, <1>7, <1>8 DEF Next, Step

(* Every probe that has ended left one sample, which says what its event   *)
(* says, whatever the probes that ran beside it did, and once the prober   *)
(* has its capture service, which it gets while probes run or never, each  *)
(* event that comes is handed to it (probeTarget, triggerDiagCapture).     *)
THEOREM ProbesAccounted == Spec => []ProbeAccounted
<1>1. MonitorInv /\ AccountInv => ProbeAccounted
  <2> SUFFICES ASSUME AccountInv, NEW p \in Probes, pc[p] = "done"
               PROVE  /\ Cardinality(SamplesOf(p)) = 1
                      /\ \A i \in SamplesOf(p) :
                            samples[i].ok <=> verdict[p] = "healthy"
                      /\ (\E e \in EventsOf(p) : e.failure)
                            <=> verdict[p] # "healthy"
                      /\ wired => EventsOf(p) \ before \subseteq triggers
    BY DEF ProbeAccounted
  <2>1. PICK i \in DOMAIN samples :
           SamplesOf(p) = {i} /\ (samples[i].ok <=> verdict[p] = "healthy")
    BY DEF AccountInv, SampleAccount, Early
  <2>2. Cardinality(SamplesOf(p)) = 1
    BY <2>1, FS_Singleton
  <2>3. EventAccount(p)
    BY DEF AccountInv
  <2>4. wired => EventsOf(p) \ before \subseteq triggers
    BY <2>3 DEF EventAccount, Handed
  <2> QED BY <2>1, <2>2, <2>3, <2>4 DEF EventAccount
<1>2. Spec => [](MonitorInv /\ AccountInv)
  BY MonitorInit, MonitorStep, AccountInit, AccountStep, PTL DEF Spec
<1> QED BY <1>1, <1>2, PTL

(***************************************************************************)
(* What a probe is judged by.  The window is built one sample after the    *)
(* other; what such a construction gives is shown by the least place where *)
(* it would give something else.                                           *)
(***************************************************************************)
LEMMA LeastNat ==
    ASSUME NEW S \in SUBSET Nat, S # {}
    PROVE  \E x \in S : \A y \in S : x <= y
<1> DEFINE R == {p \in Nat \X Nat : p[1] < p[2]}
<1>1. R = OpToRel(<, Nat)
  BY DEF OpToRel
<1>2. IsWellFoundedOn(R, Nat)
  BY <1>1, NatLessThanWellFounded
<1>3. PICK x \in S : \A y \in S : ~ (<<y, x>> \in R)
  <2> HIDE DEF R
  <2> QED BY <1>2, WFMin
<1>4. \A y \in S : ~(y < x)
  BY <1>3
<1> QED BY <1>4

(* The successes of s from lo to k, and a sequence of their latencies.     *)
Oks(s, lo, k) == {i \in lo..k : s[i].ok}

Lists(w, s, I) ==
    /\ w \in Seq(Nat) /\ Len(w) = Cardinality(I)
    /\ \A i \in I : LET r == Cardinality({j \in I : j <= i})
                    IN  r \in 1..Len(w) /\ w[r] = s[i].ms

(* One more sample: a success is appended, a failure is not.               *)
LEMMA OneMoreListed ==
    ASSUME NEW s, NEW lo \in Nat, NEW k \in Nat, lo <= k, NEW w,
           Lists(w, s, Oks(s, lo, k - 1)), s[k].ms \in Nat
    PROVE  Lists(IF s[k].ok THEN Append(w, s[k].ms) ELSE w, s, Oks(s, lo, k))
<1> DEFINE I == Oks(s, lo, k - 1)
           J == Oks(s, lo, k)
<1>1. IsFiniteSet(I) /\ Cardinality(I) \in Nat /\ k \notin I /\ \A i \in I : i \in Nat /\ i < k
  <2>1. I \subseteq lo..(k - 1)
    BY DEF Oks
  <2>2. IsFiniteSet(lo..(k - 1))
    <3>1. lo \in Int /\ k - 1 \in Int
      OBVIOUS
    <3> QED BY <3>1, FS_Interval
  <2>3. IsFiniteSet(I)
    BY <2>1, <2>2, FS_Subset
  <2>4. Cardinality(I) \in Nat
    BY <2>3, FS_CardinalityType
  <2> HIDE DEF I
  <2> QED BY <2>1, <2>3, <2>4
<1>2. w \in Seq(Nat) /\ Len(w) = Cardinality(I)
      /\ \A i \in I : /\ Cardinality({j \in I : j <= i}) \in 1..Len(w)
                      /\ w[Cardinality({j \in I : j <= i})] = s[i].ms
  BY DEF Lists
<1>3. CASE ~s[k].ok
  <2>1. J = I
    BY <1>3 DEF Oks
  <2> QED BY <1>3, <2>1
<1>4. CASE s[k].ok
  <2>1. J = I \cup {k}
    BY <1>4 DEF Oks
  <2> HIDE DEF I, J
  <2>2. Cardinality(J) = Cardinality(I) + 1
    BY <1>1, <2>1, FS_AddElement
  <2> DEFINE v == Append(w, s[k].ms)
  <2>3. /\ v \in Seq(Nat) /\ Len(v) = Len(w) + 1 /\ v[Len(w) + 1] = s[k].ms
        /\ \A r \in 1..Len(w) : v[r] = w[r]
    BY <1>2, AppendProperties
  <2> HIDE DEF v
  <2>4. ASSUME NEW i \in J
        PROVE  /\ Cardinality({j \in J : j <= i}) \in 1..Len(v)
               /\ v[Cardinality({j \in J : j <= i})] = s[i].ms
    <3>1. CASE i = k
      <4>1. \A j \in J : j <= i
        BY <1>1, <2>1, <3>1
      <4>2. {j \in J : j <= i} = J
        BY <4>1
      <4>3. Cardinality({j \in J : j <= i}) = Len(w) + 1 /\ Len(w) \in Nat
        BY <1>1, <1>2, <2>2, <4>2
      <4> QED BY <2>3, <3>1, <4>3
    <3>2. CASE i # k
      <4>1. i \in I /\ {j \in J : j <= i} = {j \in I : j <= i}
        <5>1. i \in I /\ i \in Nat /\ i < k
          BY <1>1, <2>1, <3>2
        <5>2. \A j \in J : j <= i => j \in I
          BY <2>1, <5>1
        <5> QED BY <2>1, <5>1, <5>2
      <4>2. Cardinality({j \in I : j <= i}) \in 1..Len(w)
            /\ w[Cardinality({j \in I : j <= i})] = s[i].ms
        BY <1>2, <4>1
      <4>3. \A r \in 1..Len(w) : r \in 1..Len(v) /\ v[r] = w[r]
        <5>1. Len(w) \in Nat
          BY <1>1, <1>2
        <5> QED BY <2>3, <5>1
      <4> QED BY <4>1, <4>2, <4>3, Zenon
    <3> QED BY <3>1, <3>2
  <2>5. Lists(v, s, J)
    BY <1>2, <2>2, <2>3, <2>4 DEF Lists
  <2> QED BY <1>4, <2>5 DEF v, J
<1> QED BY <1>3, <1>4

(* The sequences that the loop over s from lo goes through up to k.        *)
Collects(f, s, lo, k) ==
    /\ f \in [(lo - 1)..k -> Seq(Nat)] /\ f[lo - 1] = << >>
    /\ \A i \in lo..k : f[i] = IF s[i].ok THEN Append(f[i - 1], s[i].ms) ELSE f[i - 1]

LEMMA CollectionExists ==
    ASSUME NEW s, NEW n \in Nat, NEW lo \in 1..(n + 1), \A i \in 1..n : s[i].ms \in Nat
    PROVE  \E f : Collects(f, s, lo, n)
<1> DEFINE Bad == {k \in (lo - 1)..n : ~ \E f : Collects(f, s, lo, k)}
<1>1. SUFFICES ASSUME Bad # {} PROVE FALSE
  <2>1. n \in (lo - 1)..n
    OBVIOUS
  <2> QED BY <1>1, <2>1, Zenon
<1>2. PICK k \in Bad : \A j \in Bad : k <= j
  <2>1. Bad \in SUBSET Nat
    OBVIOUS
  <2> HIDE DEF Bad
  <2> QED BY <1>1, <2>1, LeastNat
<1>3. k # lo - 1
  <2> DEFINE f == [i \in (lo - 1)..(lo - 1) |-> << >>]
  <2>1. << >> \in Seq(Nat)
    BY EmptySeq
  <2>2. Collects(f, s, lo, lo - 1)
    BY <2>1 DEF Collects
  <2> HIDE DEF f
  <2> QED BY <1>2, <2>2
<1>4. k \in lo..n /\ k - 1 \in (lo - 1)..n /\ k - 1 \notin Bad
  BY <1>2, <1>3
<1>5. PICK f : Collects(f, s, lo, k - 1)
  BY <1>4
<1> DEFINE e == IF s[k].ok THEN Append(f[k - 1], s[k].ms) ELSE f[k - 1]
           g == [i \in (lo - 1)..k |-> IF i < k THEN f[i] ELSE e]
<1>6. f[k - 1] \in Seq(Nat) /\ s[k].ms \in Nat
  BY <1>4, <1>5 DEF Collects
<1>7. e \in Seq(Nat)
  BY <1>6, AppendProperties
<1> HIDE DEF e
<1>8. g \in [(lo - 1)..k -> Seq(Nat)] /\ g[lo - 1] = << >>
  <2>1. \A i \in (lo - 1)..k : i < k => i \in (lo - 1)..(k - 1)
    BY <1>4
  <2>2. f \in [(lo - 1)..(k - 1) -> Seq(Nat)] /\ f[lo - 1] = << >>
    BY <1>5 DEF Collects
  <2>3. lo - 1 \in (lo - 1)..k /\ lo - 1 < k
    BY <1>4
  <2> QED BY <1>7, <2>1, <2>2, <2>3
<1>9. ASSUME NEW i \in lo..k
      PROVE  g[i] = IF s[i].ok THEN Append(g[i - 1], s[i].ms) ELSE g[i - 1]
  <2>1. i - 1 \in (lo - 1)..k /\ i - 1 < k /\ i \in (lo - 1)..k
    BY <1>4
  <2>2. g[i - 1] = f[i - 1]
    BY <2>1
  <2>3. CASE i = k
    BY <2>1, <2>2, <2>3 DEF e
  <2>4. CASE i # k
    <3>1. i \in lo..(k - 1) /\ i < k
      BY <1>4, <2>4
    <3>2. g[i] = f[i]
      BY <2>1, <3>1
    <3>3. f[i] = IF s[i].ok THEN Append(f[i - 1], s[i].ms) ELSE f[i - 1]
      BY <1>5, <3>1 DEF Collects
    <3> HIDE DEF g
    <3> QED BY <2>2, <3>2, <3>3
  <2> QED BY <2>3, <2>4
<1> HIDE DEF g
<1>10. Collects(g, s, lo, k)
  BY <1>8, <1>9 DEF Collects
<1> QED BY <1>2, <1>10

LEMMA CollectionLists ==
    ASSUME NEW s, NEW n \in Nat, NEW lo \in 1..(n + 1), \A i \in 1..n : s[i].ms \in Nat,
           NEW f, f[lo - 1] = << >>,
           \A i \in lo..n : f[i] = IF s[i].ok THEN Append(f[i - 1], s[i].ms) ELSE f[i - 1]
    PROVE  Lists(f[n], s, Oks(s, lo, n))
<1> DEFINE Good(k) == Lists(f[k], s, Oks(s, lo, k))
           Bad == {k \in (lo - 1)..n : ~Good(k)}
<1>1. SUFFICES ASSUME Bad # {} PROVE FALSE
  <2>1. n \in (lo - 1)..n
    OBVIOUS
  <2> HIDE DEF Good
  <2>2. Good(n)
    BY <1>1, <2>1, Zenon
  <2> QED BY <2>2 DEF Good
<1>2. PICK k \in Bad : \A j \in Bad : k <= j
  <2>1. Bad \in SUBSET Nat
    OBVIOUS
  <2> HIDE DEF Bad
  <2> QED BY <1>1, <2>1, LeastNat
<1>3. k # lo - 1
  <2>1. Oks(s, lo, lo - 1) = {}
    BY DEF Oks
  <2>2. Cardinality({}) = 0
    BY FS_EmptySet
  <2>3. << >> \in Seq(Nat) /\ Len(<< >>) = 0
    BY EmptySeq
  <2>4. Lists(f[lo - 1], s, {})
    BY <2>2, <2>3 DEF Lists
  <2>5. Good(lo - 1)
    BY <2>1, <2>4
  <2> HIDE DEF Good
  <2> QED BY <1>2, <2>5
<1>4. k \in lo..n /\ k - 1 \in (lo - 1)..n /\ k - 1 \notin Bad /\ k \in 1..n
  BY <1>2, <1>3
<1>5. Lists(f[k - 1], s, Oks(s, lo, k - 1))
  <2> HIDE DEF Good
  <2>1. Good(k - 1)
    BY <1>4
  <2> QED BY <2>1 DEF Good
<1>6. Lists(IF s[k].ok THEN Append(f[k - 1], s[k].ms) ELSE f[k - 1], s, Oks(s, lo, k))
  <2>1. lo \in Nat /\ k \in Nat /\ lo <= k /\ s[k].ms \in Nat
    BY <1>4
  <2> QED BY <1>5, <2>1, OneMoreListed
<1>7. Good(k)
  BY <1>4, <1>6
<1> HIDE DEF Good
<1> QED BY <1>2, <1>7

(* Where the window that is asked for begins.                              *)
From(n) == IF n > RecentSamples THEN n - RecentSamples + 1 ELSE 1

LEMMA WindowLists ==
    ASSUME NEW s \in Seq(Sample)
    PROVE  /\ Lists(SampleWindow(s), s, Oks(s, From(Len(s)), Len(s)))
           /\ From(Len(s)) \in 1..(Len(s) + 1)
           /\ Len(SampleWindow(s)) <= RecentSamples
<1> DEFINE n == Len(s)
           lo == From(n)
           Loop(g) == [k \in (lo - 1)..n |->
                          IF k = lo - 1 THEN << >>
                          ELSE IF s[k].ok THEN Append(g[k - 1], s[k].ms) ELSE g[k - 1]]
           kept == CHOOSE g : g = Loop(g)
<1>1. n \in Nat /\ \A i \in 1..n : s[i].ms \in Nat
  <2>1. n \in Nat /\ \A i \in 1..n : s[i] \in Sample
    BY LenProperties, ElementOfSeq
  <2> QED BY <2>1 DEF Sample
<1> HIDE DEF n
<1>2. lo \in 1..(n + 1) /\ n - lo + 1 <= RecentSamples /\ n - lo + 1 \in Nat
  BY <1>1 DEF From
<1> HIDE DEF lo
<1>3. PICK f : Collects(f, s, lo, n)
  BY <1>1, <1>2, CollectionExists
<1>4. f = Loop(f)
  <2>1. f = [k \in (lo - 1)..n |-> f[k]]
    BY <1>3 DEF Collects
  <2>2. \A k \in (lo - 1)..n :
           f[k] = IF k = lo - 1 THEN << >>
                  ELSE IF s[k].ok THEN Append(f[k - 1], s[k].ms) ELSE f[k - 1]
    <3>1. \A k \in (lo - 1)..n : k # lo - 1 => k \in lo..n
      BY <1>1, <1>2
    <3> QED BY <1>3, <3>1 DEF Collects
  <2> QED BY <2>1, <2>2
<1>5. kept = Loop(kept)
  <2> HIDE DEF Loop
  <2> QED BY <1>4
<1>6. kept[lo - 1] = << >>
      /\ \A i \in lo..n : kept[i] = IF s[i].ok THEN Append(kept[i - 1], s[i].ms) ELSE kept[i - 1]
  <2> HIDE DEF kept
  <2>1. lo - 1 \in (lo - 1)..n /\ \A i \in lo..n : i \in (lo - 1)..n /\ i # lo - 1
    BY <1>1, <1>2
  <2> QED BY <1>5, <2>1
<1>7. SampleWindow(s) = kept[n]
  BY DEF SampleWindow, n, lo, From
<1> HIDE DEF kept, Loop
<1>8. Lists(kept[n], s, Oks(s, lo, n))
  BY <1>1, <1>2, <1>6, CollectionLists
<1>9. Cardinality(Oks(s, lo, n)) <= RecentSamples
  <2>1. lo \in Int /\ n \in Int
    BY <1>1, <1>2
  <2>2. /\ IsFiniteSet(lo..n)
        /\ Cardinality(lo..n) = IF lo > n THEN 0 ELSE n - lo + 1
    BY <2>1, FS_Interval
  <2>3. Oks(s, lo, n) \subseteq lo..n
    BY DEF Oks
  <2>4. Cardinality(Oks(s, lo, n)) <= Cardinality(lo..n) /\ IsFiniteSet(Oks(s, lo, n))
    BY <2>2, <2>3, FS_Subset
  <2>5. Cardinality(Oks(s, lo, n)) \in Nat
    BY <2>4, FS_CardinalityType
  <2> QED BY <1>1, <1>2, <2>2, <2>4, <2>5
<1> QED BY <1>2, <1>7, <1>8, <1>9 DEF Lists, n, lo

(***************************************************************************)
(* The median is made of latencies of the window.                          *)
(***************************************************************************)
Under(w, v) == {i \in DOMAIN w : w[i] < v}
UpTo(w, v)  == {i \in DOMAIN w : w[i] <= v}

LEMMA PlacesFinite ==
    ASSUME NEW w \in Seq(Nat), NEW S \in SUBSET DOMAIN w
    PROVE  IsFiniteSet(S) /\ Cardinality(S) \in Nat
<1>1. DOMAIN w = 1..Len(w) /\ 1 \in Int /\ Len(w) \in Int
  BY LenProperties
<1>2. IsFiniteSet(DOMAIN w)
  BY <1>1, FS_Interval
<1> QED BY <1>2, FS_Subset, FS_CardinalityType

LEMMA Largest ==
    ASSUME NEW w \in Seq(Nat), NEW S \in SUBSET DOMAIN w, S # {}
    PROVE  \E i \in S : \A j \in S : w[j] <= w[i]
<1> DEFINE Over(i) == {j \in S : w[i] < w[j]}
           C == {Cardinality(Over(i)) : i \in S}
<1>1. \A i \in S : IsFiniteSet(Over(i)) /\ Cardinality(Over(i)) \in Nat
  BY PlacesFinite
<1>2. C \in SUBSET Nat /\ C # {}
  <2> HIDE DEF Over
  <2> QED BY <1>1
<1>3. PICK c \in C : \A d \in C : c <= d
  <2> HIDE DEF C
  <2> QED BY <1>2, LeastNat
<1>4. PICK i \in S : c = Cardinality(Over(i))
  <2> HIDE DEF Over
  <2> QED BY <1>3
<1>5. \A j \in S : w[j] \in Nat
  BY LenProperties, ElementOfSeq
<1>6. ASSUME NEW j \in S, w[i] < w[j] PROVE FALSE
  <2>1. j \in Over(i)
    BY <1>6
  <2>2. w[i] \in Nat /\ w[j] \in Nat /\ w[i] < w[j]
    BY <1>4, <1>5, <1>6
  <2>3. ASSUME NEW l \in S, w[j] < w[l] PROVE w[i] < w[l] /\ l # j
    <3>1. w[l] \in Nat
      BY <1>5
    <3> QED BY <2>2, <2>3, <3>1
  <2>4. Over(j) \subseteq Over(i) \ {j}
    BY <2>3
  <2> HIDE DEF Over
  <2>5. /\ IsFiniteSet(Over(i) \ {j})
        /\ Cardinality(Over(i) \ {j}) = Cardinality(Over(i)) - 1
    BY <1>1, <1>4, <2>1, FS_RemoveElement
  <2>6. Cardinality(Over(j)) <= Cardinality(Over(i) \ {j})
    BY <2>4, <2>5, FS_Subset
  <2>7. Cardinality(Over(j)) \in C
    OBVIOUS
  <2>8. Cardinality(Over(i)) <= Cardinality(Over(j))
    BY <1>3, <1>4, <2>7
  <2> QED BY <1>1, <1>4, <2>5, <2>6, <2>8
<1>7. \A j \in S : w[j] <= w[i]
  BY <1>4, <1>5, <1>6
<1> QED BY <1>4, <1>7

LEMMA KthOfWindow ==
    ASSUME NEW w \in Seq(Nat), NEW k \in 1..Len(w)
    PROVE  \E i \in DOMAIN w : KthLatency(w, k) = w[i]
<1> DEFINE V == {v \in {w[i] : i \in DOMAIN w} : k <= Cardinality(UpTo(w, v))}
<1>1. DOMAIN w = 1..Len(w) /\ Len(w) \in Nat /\ \A i \in DOMAIN w : w[i] \in Nat
  BY LenProperties, ElementOfSeq
<1>2. V \in SUBSET Nat
  BY <1>1
<1>3. V # {}
  <2>1. DOMAIN w # {}
    BY <1>1
  <2>2. PICK i \in DOMAIN w : \A j \in DOMAIN w : w[j] <= w[i]
    BY <2>1, Largest
  <2>3. UpTo(w, w[i]) = DOMAIN w
    BY <2>2 DEF UpTo
  <2>4. Cardinality(1..Len(w)) = Len(w)
    <3>1. 1 \in Int /\ Len(w) \in Int /\ ~(1 > Len(w))
      BY <1>1
    <3>2. Cardinality(1..Len(w)) = IF 1 > Len(w) THEN 0 ELSE Len(w) - 1 + 1
      BY <3>1, FS_Interval
    <3> QED BY <1>1, <3>1, <3>2
  <2>5. w[i] \in V
    BY <1>1, <2>3, <2>4
  <2> QED BY <2>5
<1>4. PICK v \in V : \A u \in V : v <= u
  <2> HIDE DEF V
  <2> QED BY <1>2, <1>3, LeastNat
<1>5. Cardinality(Under(w, v)) < k
  <2>1. Cardinality(Under(w, v)) \in Nat
    BY PlacesFinite DEF Under
  <2> SUFFICES ASSUME k <= Cardinality(Under(w, v)) PROVE FALSE
    BY <2>1
  <2>2. Under(w, v) # {}
    <3>1. Cardinality({}) = 0
      BY FS_EmptySet
    <3>2. Cardinality(Under(w, v)) # 0
      BY <1>1, <2>1
    <3> QED BY <3>1, <3>2, Zenon
  <2>3. Under(w, v) \in SUBSET DOMAIN w
    BY DEF Under
  <2>4. Under(w, v) # {} /\ Under(w, v) \in SUBSET DOMAIN w
    BY <2>2, <2>3
  <2>5. PICK i \in Under(w, v) : \A j \in Under(w, v) : w[j] <= w[i]
    BY <2>4, Largest
  <2>6. i \in DOMAIN w /\ w[i] < v /\ w[i] \in Nat
    BY <1>1, <2>5 DEF Under
  <2>7. Under(w, v) \subseteq UpTo(w, w[i])
    BY <2>5 DEF Under, UpTo
  <2>8. UpTo(w, w[i]) \in SUBSET DOMAIN w
    BY DEF UpTo
  <2>9. /\ Cardinality(Under(w, v)) <= Cardinality(UpTo(w, w[i]))
        /\ Cardinality(UpTo(w, w[i])) \in Nat
    BY <2>7, <2>8, PlacesFinite, FS_Subset
  <2>10. k <= Cardinality(UpTo(w, w[i]))
    BY <2>1, <2>9
  <2>11. w[i] \in V
    BY <2>6, <2>10
  <2> HIDE DEF V
  <2> QED BY <1>2, <1>4, <2>6, <2>11
<1>6. /\ v \in {w[i] : i \in DOMAIN w}
      /\ Cardinality({i \in DOMAIN w : w[i] < v}) < k
      /\ k <= Cardinality({i \in DOMAIN w : w[i] <= v})
  BY <1>4, <1>5 DEF Under, UpTo
<1>7. KthLatency(w, k) \in {w[i] : i \in DOMAIN w}
  BY <1>6 DEF KthLatency
<1> QED BY <1>7

LEMMA MedianOfWindow ==
    ASSUME NEW w \in Seq(Nat), w # << >>
    PROVE  \E i, j \in DOMAIN w : TwiceMedian(w) = w[i] + w[j]
<1> DEFINE mid == Len(w) \div 2
<1>1. Len(w) \in Nat \ {0} /\ \A i \in DOMAIN w : w[i] \in Nat
  BY EmptySeq, LenProperties, ElementOfSeq
<1>2. CASE Len(w) % 2 = 1
  <2>1. mid + 1 \in 1..Len(w)
    BY <1>1, <1>2
  <2>2. PICK i \in DOMAIN w : KthLatency(w, mid + 1) = w[i]
    BY <2>1, KthOfWindow
  <2>3. TwiceMedian(w) = 2 * w[i]
    BY <1>2, <2>2 DEF TwiceMedian
  <2> QED BY <1>1, <2>3
<1>3. CASE Len(w) % 2 # 1
  <2>1. mid \in 1..Len(w) /\ mid + 1 \in 1..Len(w)
    BY <1>1, <1>3
  <2>2. PICK i \in DOMAIN w : KthLatency(w, mid) = w[i]
    BY <2>1, KthOfWindow
  <2>3. PICK j \in DOMAIN w : KthLatency(w, mid + 1) = w[j]
    BY <2>1, KthOfWindow
  <2>4. TwiceMedian(w) = w[i] + w[j]
    BY <1>3, <2>2, <2>3 DEF TwiceMedian
  <2> QED BY <2>4
<1> QED BY <1>2, <1>3

(* What the threshold says without the median.                             *)
Enough(w) == w # << >> /\ Len(w) >= MinSamples /\ Multiplier > 0

LEMMA ThresholdMeans ==
    ASSUME NEW w \in Seq(Nat), NEW ms \in Nat
    PROVE  /\ ExceedsMedian(ms, w) =>
                Enough(w) /\ \E i \in DOMAIN w : ms >= Multiplier * w[i]
           /\ Enough(w) /\ (\A i \in DOMAIN w : ms >= Multiplier * w[i]) =>
                ExceedsMedian(ms, w)
<1>1. CASE w = << >>
  BY <1>1 DEF ExceedsMedian, Enough
<1>2. CASE w # << >>
  <2>1. PICK i, j \in DOMAIN w : TwiceMedian(w) = w[i] + w[j]
    BY <1>2, MedianOfWindow
  <2>2. w[i] \in Nat /\ w[j] \in Nat /\ Multiplier \in Nat
    BY LenProperties, ElementOfSeq, SpikeConfigAssumption
  <2> DEFINE x == Multiplier * w[i]
             y == Multiplier * w[j]
  <2>3. \A a, b, m \in Nat : (a + b) * m = m * a + m * b /\ m * a \in Nat
    OBVIOUS
  <2>4. TwiceMedian(w) * Multiplier = x + y /\ x \in Nat /\ y \in Nat
    <3>1. (w[i] + w[j]) * Multiplier = Multiplier * w[i] + Multiplier * w[j]
      BY <2>2, <2>3, Zenon
    <3>2. Multiplier * w[i] \in Nat /\ Multiplier * w[j] \in Nat
      BY <2>2, <2>3, Zenon
    <3> QED BY <2>1, <3>1, <3>2, Zenon
  <2> HIDE DEF x, y
  <2>5. ExceedsMedian(ms, w) <=> Enough(w) /\ 2 * ms >= x + y
    BY <2>4 DEF ExceedsMedian, Enough
  <2>6. 2 * ms >= x + y => ms >= x \/ ms >= y
    BY <2>4
  <2>7. ms >= x /\ ms >= y => 2 * ms >= x + y
    BY <2>4
  <2> QED BY <2>5, <2>6, <2>7 DEF x, y
<1> QED BY <1>1, <1>2

(* The window of a probe is what the tracker held after n samples, none of *)
(* them its own.                                                           *)
Past(p, n) ==
    /\ \A i \in 1..n : samples[i].by # p
    /\ Len(window[p]) <= RecentSamples
    /\ \E lo \in 1..(n + 1) : Lists(window[p], samples, Oks(samples, lo, n))

(* The events of a probe say of its latency what its window says of it.    *)
Judged(p) ==
    /\ \A e \in EventsOf(p) : e.relative => ExceedsMedian(latency[p], window[p])
    /\ pc[p] \in {"trigger", "recover", "triggerRecovery", "done"}
          /\ ExceedsMedian(latency[p], window[p]) =>
             \E e \in EventsOf(p) : e.relative

JudgeInv ==
    /\ window \in [Probes -> Seq(Nat)]
    /\ \A p \in Probes : \E n \in 0..Len(samples) : Past(p, n)
    /\ \A p \in Probes : Judged(p)

LEMMA JudgeInit == Init => JudgeInv
<1> SUFFICES ASSUME Init PROVE JudgeInv
  OBVIOUS
<1>1. << >> \in Seq(Nat) /\ Len(<< >>) = 0 /\ Cardinality({}) = 0
  BY EmptySeq, FS_EmptySet
<1>2. samples = << >> /\ events = {} /\ window = [p \in Probes |-> << >>]
      /\ pc = [p \in Probes |-> "unborn"]
  BY DEF Init
<1>3. window \in [Probes -> Seq(Nat)]
  BY <1>1, <1>2
<1>4. ASSUME NEW p \in Probes PROVE Past(p, 0)
  <2>1. window[p] = << >>
    BY <1>2
  <2>2. Oks(samples, 1, 0) = {}
    BY DEF Oks
  <2>3. Lists(<< >>, samples, {})
    BY <1>1 DEF Lists
  <2>4. 1 \in 1..(0 + 1)
    OBVIOUS
  <2>5. Lists(window[p], samples, Oks(samples, 1, 0))
    BY <2>1, <2>2, <2>3
  <2> QED BY <1>1, <2>1, <2>4, <2>5 DEF Past
<1>5. 0 \in 0..Len(samples)
  BY <1>1, <1>2
<1>6. \A p \in Probes : Judged(p)
  BY <1>2 DEF Judged, EventsOf
<1> QED BY <1>3, <1>4, <1>5, <1>6 DEF JudgeInv

(* What was recorded stays.                                                *)
LEMMA SamplesStay ==
    ASSUME MonitorInv, AccountInv, [Next]_vars
    PROVE  /\ samples \in Seq(Sample) /\ samples' \in Seq(Sample)
           /\ Len(samples) \in Nat /\ Len(samples') \in Nat
           /\ Len(samples) <= Len(samples')
           /\ \A i \in 1..Len(samples) : samples'[i] = samples[i]
<1>1. samples \in Seq(Sample) /\ samples' \in Seq(Sample)
  BY AccountStep DEF AccountInv
<1>2. /\ Len(samples) \in Nat /\ Len(samples') \in Nat
      /\ DOMAIN samples = 1..Len(samples) /\ DOMAIN samples' = 1..Len(samples')
  BY <1>1, LenProperties
<1>3. \/ samples' = samples
      \/ \E p \in Probes, ms \in Nat, ok \in BOOLEAN : Recorded(p, ms, ok)
  <2>1. CASE UNCHANGED vars
    BY <2>1 DEF vars
  <2>2. CASE ProbeAll \/ Stop \/ SetDiagCapture
    BY <2>2 DEF ProbeAll, Stop, SetDiagCapture
  <2>3. ASSUME NEW p \in Probes, Step(p)
        PROVE  \/ samples' = samples
               \/ \E ms \in Nat, ok \in BOOLEAN : Recorded(p, ms, ok)
    <3>1. CASE RequestInvalid(p) \/ RequestFails(p) \/ RecordResponse(p)
      BY <3>1 DEF RequestInvalid, RequestFails, RecordResponse, AccountInv
    <3>2. CASE ~(RequestInvalid(p) \/ RequestFails(p) \/ RecordResponse(p))
      BY <2>3, <3>2 DEF Step, TakeWindow, MarkUnreachable, Responds,
                        DetectFailure, DetectSpike, Trigger, RecordRecovery,
                        TriggerRecovery
    <3> QED BY <3>1, <3>2
  <2> QED BY <2>1, <2>2, <2>3 DEF Next
<1>4. CASE samples' = samples
  BY <1>1, <1>2, <1>4
<1>5. CASE samples' # samples
  <2>1. PICK p \in Probes, ms \in Nat, ok \in BOOLEAN : Recorded(p, ms, ok)
    BY <1>3, <1>5
  <2>2. \A i \in DOMAIN samples : i \in DOMAIN samples' /\ samples'[i] = samples[i]
    BY <1>1, <2>1, OneMore
  <2>3. Len(samples) <= Len(samples')
    <3>1. CASE Len(samples) = 0
      BY <1>2, <3>1
    <3>2. CASE Len(samples) # 0
      <4>1. Len(samples) \in 1..Len(samples')
        BY <1>2, <2>2, <3>2
      <4> QED BY <1>2, <4>1
    <3> QED BY <3>1, <3>2
  <2> QED BY <1>1, <1>2, <2>2, <2>3
<1> QED BY <1>4, <1>5

LEMMA PastStays ==
    ASSUME MonitorInv, AccountInv, [Next]_vars, NEW p \in Probes,
           window'[p] = window[p], \E n \in 0..Len(samples) : Past(p, n)
    PROVE  \E n \in 0..Len(samples') : Past(p, n)'
<1>1. PICK n \in 0..Len(samples) : Past(p, n)
  OBVIOUS
<1>2. n \in Nat /\ n \in 0..Len(samples') /\ \A i \in 1..n : samples'[i] = samples[i]
  BY SamplesStay
<1>3. \A i \in 1..n : samples'[i].by # p
  BY <1>1, <1>2 DEF Past
<1>4. PICK lo \in 1..(n + 1) : Lists(window[p], samples, Oks(samples, lo, n))
  BY <1>1 DEF Past
<1>5. \A i \in lo..n : samples'[i] = samples[i]
  BY <1>2, <1>4
<1>6. Oks(samples', lo, n) = Oks(samples, lo, n)
  BY <1>5 DEF Oks
<1>7. \A i \in Oks(samples, lo, n) : samples'[i].ms = samples[i].ms
  BY <1>5 DEF Oks
<1>8. Lists(window[p], samples', Oks(samples', lo, n))
  <2> DEFINE I == Oks(samples, lo, n)
  <2>1. Lists(window[p], samples', I)
    <3> HIDE DEF I
    <3>1. Lists(window[p], samples, I) /\ \A i \in I : samples'[i].ms = samples[i].ms
      BY <1>4, <1>7 DEF I
    <3> QED BY <3>1 DEF Lists
  <2> QED BY <1>6, <2>1
<1>9. Len(window'[p]) <= RecentSamples
  BY <1>1 DEF Past
<1>10. Past(p, n)'
  BY <1>3, <1>8, <1>9 DEF Past
<1> QED BY <1>2, <1>10

LEMMA PastTaken ==
    ASSUME MonitorInv, AccountInv, JudgeInv, [Next]_vars, NEW p \in Probes,
           TakeWindow(p)
    PROVE  /\ window' \in [Probes -> Seq(Nat)]
           /\ \E n \in 0..Len(samples') : Past(p, n)'
<1>0. samples \in Seq(Sample) /\ Len(samples) \in Nat /\ samples' = samples
  BY SamplesStay DEF TakeWindow
<1> PICK n \in Nat : n = Len(samples)
  BY <1>0
<1>1. samples \in Seq(Sample) /\ n = Len(samples) /\ samples' = samples
  BY <1>0
<1>2. window' = [window EXCEPT ![p] = SampleWindow(samples)]
  BY DEF TakeWindow
<1>3. /\ Lists(SampleWindow(samples), samples, Oks(samples, From(n), n))
      /\ From(n) \in 1..(n + 1)
      /\ Len(SampleWindow(samples)) <= RecentSamples
  BY <1>1, WindowLists
<1>4. SampleWindow(samples) \in Seq(Nat)
  BY <1>3 DEF Lists
<1>5. window' \in [Probes -> Seq(Nat)] /\ window'[p] = SampleWindow(samples)
  BY <1>2, <1>4 DEF JudgeInv
<1>6. \A i \in 1..n : samples[i].by # p
  <2>1. SamplesOf(p) = {}
    BY DEF TakeWindow, Goes, AccountInv, SampleAccount, Early
  <2>2. DOMAIN samples = 1..n
    BY <1>1, LenProperties
  <2> QED BY <2>1, <2>2 DEF SamplesOf
<1>7. Past(p, n)'
  <2>1. Lists(window'[p], samples', Oks(samples', From(n), n))
    BY <1>1, <1>3, <1>5
  <2> QED BY <1>1, <1>3, <1>5, <1>6, <2>1 DEF Past
<1> QED BY <1>1, <1>5, <1>7

(* Before its request has ended a probe has no event, and after it neither *)
(* its latency nor its window changes.                                     *)
LEMMA JudgedStays ==
    ASSUME MonitorInv, AccountInv, JudgeInv, [Next]_vars, NEW q \in Probes
    PROVE  Judged(q)'
<1> DEFINE Late == {"trigger", "recover", "triggerRecovery", "done"}
<1> USE DEF MonitorInv, AccountInv, Stages, Goes, loopVars, Early
<1>0. Judged(q)
  BY DEF JudgeInv
<1>1. ASSUME UNCHANGED <<events, latency[q], window[q]>>, pc'[q] \in Late => pc[q] \in Late
      PROVE  Judged(q)'
  BY <1>0, <1>1 DEF Judged, EventsOf
<1>2. CASE UNCHANGED vars
  BY <1>1, <1>2 DEF vars
<1>3. CASE ProbeAll
  <2>1. /\ started + 1 \in Probes /\ pc' = [pc EXCEPT ![started + 1] = "window"]
        /\ UNCHANGED <<events, latency, window>>
    BY <1>3 DEF ProbeAll, Probes
  <2> QED BY <1>1, <2>1
<1>4. CASE Stop \/ SetDiagCapture
  BY <1>1, <1>4 DEF Stop, SetDiagCapture
<1>5. ASSUME NEW p \in Probes,
             \/ TakeWindow(p) \/ RequestInvalid(p) \/ RequestFails(p) \/ Responds(p)
      PROVE  Judged(q)'
  <2>1. /\ events' = events /\ pc[p] \in {"window", "request"}
        /\ \E s \in {"request", "detect", "unreachable", "record"} :
              pc' = [pc EXCEPT ![p] = s]
    BY <1>5 DEF TakeWindow, RequestInvalid, RequestFails, Responds
  <2>2. CASE q = p
    <3>1. EventsOf(q) = {}
      BY <2>1, <2>2 DEF EventAccount
    <3>2. EventsOf(q)' = {}
      BY <2>1, <3>1 DEF EventsOf
    <3>3. pc'[q] \notin Late
      BY <2>1, <2>2
    <3> QED BY <3>2, <3>3 DEF Judged
  <2>3. CASE q # p
    <3>1. latency'[q] = latency[q] /\ window'[q] = window[q]
      BY <1>5, <2>3 DEF TakeWindow, RequestInvalid, RequestFails, Responds, JudgeInv
    <3>2. pc'[q] = pc[q]
      BY <2>1, <2>3
    <3> QED BY <1>1, <2>1, <3>1, <3>2
  <2> QED BY <2>2, <2>3
<1>6. ASSUME NEW p \in Probes, MarkUnreachable(p) \/ RecordResponse(p) \/ Trigger(p)
                               \/ TriggerRecovery(p)
      PROVE  Judged(q)'
  <2>1. UNCHANGED <<events, latency, window>>
    BY <1>6 DEF MarkUnreachable, RecordResponse, Trigger, TriggerRecovery
  <2>2. \/ pc' = [pc EXCEPT ![p] = "detect"]
        \/ pc[p] \in Late /\ \E s \in Late : pc' = [pc EXCEPT ![p] = s]
    BY <1>6 DEF MarkUnreachable, RecordResponse, Trigger, TriggerRecovery, AfterDetect
  <2>3. pc'[q] \in Late => pc[q] \in Late
    BY <2>2
  <2> QED BY <1>1, <2>1, <2>3
<1>7. ASSUME NEW p \in Probes, RecordRecovery(p)
      PROVE  Judged(q)'
  <2> DEFINE r == [by |-> p, severity |-> "recovery", failure |-> FALSE, relative |-> FALSE]
  <2>1. events' = events \cup {r}
    BY <1>7, Zenon DEF RecordRecovery
  <2>2. ~r.relative
    OBVIOUS
  <2>3. /\ UNCHANGED <<latency, window>> /\ pc[p] \in Late
        /\ pc' = [pc EXCEPT ![p] = "triggerRecovery"]
    BY <1>7 DEF RecordRecovery
  <2> HIDE DEF r
  <2>4. pc'[q] \in Late => pc[q] \in Late
    BY <2>3
  <2> QED BY <1>0, <2>1, <2>2, <2>3, <2>4 DEF Judged, EventsOf
<1>8. ASSUME NEW p \in Probes, DetectFailure(p) \/ DetectSpike(p)
      PROVE  Judged(q)'
  <2>1. /\ UNCHANGED <<latency, window>> /\ pc[p] = "detect"
        /\ \E s \in Stages : pc' = [pc EXCEPT ![p] = s]
    BY <1>8 DEF DetectFailure, DetectSpike, AfterDetect
  <2>2. /\ events \subseteq events'
        /\ \A e \in events' \ events : e.by = p
    BY <1>8 DEF DetectFailure, DetectSpike
  <2>3. CASE q # p
    <3>1. EventsOf(q)' = EventsOf(q) /\ pc'[q] = pc[q]
      BY <2>1, <2>2, <2>3 DEF EventsOf
    <3> QED BY <1>0, <2>1, <3>1 DEF Judged
  <2>4. CASE q = p
    <3>1. EventsOf(p) = {}
      BY <2>1 DEF EventAccount
    <3>2. CASE events' = events
      <4>1. DetectSpike(p) /\ SpikeReasons(latency[p], window[p]) = {}
        <5>1. DetectFailure(p) => events' # events
          <6> DEFINE r == [by |-> p, severity |-> "critical", failure |-> TRUE,
                           relative |-> ExceedsMedian(latency[p], window[p])]
          <6>1. ASSUME DetectFailure(p) PROVE r \in events'
            BY <6>1, Zenon DEF DetectFailure
          <6>2. r.by = p
            OBVIOUS
          <6> QED BY <3>1, <6>1, <6>2 DEF EventsOf
        <5>2. DetectSpike(p) /\ SpikeReasons(latency[p], window[p]) # {} => events' # events
          <6> DEFINE R == SpikeReasons(latency[p], window[p])
                     r == [by |-> p, severity |-> Severity(R), failure |-> FALSE,
                           relative |-> "relative" \in R]
          <6>1. ASSUME DetectSpike(p), R # {} PROVE r \in events'
            BY <6>1, Zenon DEF DetectSpike
          <6>2. r.by = p
            OBVIOUS
          <6> QED BY <3>1, <6>1, <6>2 DEF EventsOf
        <5> QED BY <1>8, <3>2, <5>1, <5>2
      <4>2. ~ExceedsMedian(latency[p], window[p])
        BY <4>1 DEF SpikeReasons
      <4> QED BY <2>1, <2>4, <3>1, <3>2, <4>2 DEF Judged, EventsOf
    <3>3. CASE events' # events
      <4>1. \E e : /\ events' = events \cup {e} /\ e.by = p
                   /\ e.relative <=> ExceedsMedian(latency[p], window[p])
        <5>1. CASE DetectFailure(p)
          <6> DEFINE r == [by |-> p, severity |-> "critical", failure |-> TRUE,
                           relative |-> ExceedsMedian(latency[p], window[p])]
          <6>1. events' = events \cup {r}
            BY <5>1, Zenon DEF DetectFailure
          <6>2. r.by = p /\ (r.relative <=> ExceedsMedian(latency[p], window[p]))
            OBVIOUS
          <6> QED BY <6>1, <6>2, Zenon
        <5>2. CASE DetectSpike(p)
          <6> DEFINE R == SpikeReasons(latency[p], window[p])
                     r == [by |-> p, severity |-> Severity(R), failure |-> FALSE,
                           relative |-> "relative" \in R]
          <6>1. events' = events \cup {r}
            BY <3>3, <5>2, Zenon DEF DetectSpike
          <6>2. r.by = p /\ (r.relative <=> "relative" \in R)
            OBVIOUS
          <6>3. "relative" \in R <=> ExceedsMedian(latency[p], window[p])
            BY Zenon DEF SpikeReasons
          <6> QED BY <6>1, <6>2, <6>3, Zenon
        <5> QED BY <1>8, <5>1, <5>2
      <4>2. PICK e : /\ events' = events \cup {e} /\ e.by = p
                     /\ e.relative <=> ExceedsMedian(latency[p], window[p])
        BY <4>1
      <4>3. EventsOf(p)' = {e}
        BY <3>1, <4>2 DEF EventsOf
      <4>4. (e.relative <=> ExceedsMedian(latency[p], window[p])')
        BY <2>1, <4>2, Zenon
      <4> QED BY <2>4, <4>3, <4>4, Zenon DEF Judged
    <3> QED BY <3>2, <3>3
  <2> QED BY <2>3, <2>4
<1> QED
  BY <1>2, <1>3, <1>4, <1>5, <1>6, <1>7, <1>8 DEF Next, Step

LEMMA JudgeStep ==
    ASSUME MonitorInv, AccountInv, JudgeInv, [Next]_vars
    PROVE  JudgeInv'
<1>1. \A q \in Probes : Judged(q)'
  BY JudgedStays
<1>2. ASSUME NEW p \in Probes, TakeWindow(p)
      PROVE  JudgeInv'
  <2>1. /\ window' \in [Probes -> Seq(Nat)]
        /\ \E n \in 0..Len(samples') : Past(p, n)'
    BY <1>2, PastTaken
  <2>2. ASSUME NEW q \in Probes, q # p
        PROVE  \E n \in 0..Len(samples') : Past(q, n)'
    <3>1. window'[q] = window[q]
      BY <1>2, <2>2 DEF TakeWindow, JudgeInv
    <3> QED BY <3>1, PastStays DEF JudgeInv
  <2> QED BY <1>1, <2>1, <2>2 DEF JudgeInv
<1>3. CASE window' = window
  <2>1. \A q \in Probes : \E n \in 0..Len(samples') : Past(q, n)'
    BY <1>3, PastStays DEF JudgeInv
  <2> QED BY <1>1, <1>3, <2>1 DEF JudgeInv
<1>4. window' = window \/ \E p \in Probes : TakeWindow(p)
  BY DEF Next, Step, vars, loopVars, ProbeAll, Stop, SetDiagCapture, RequestInvalid, RequestFails,
         MarkUnreachable, Responds, RecordResponse, DetectFailure, DetectSpike,
         Trigger, RecordRecovery, TriggerRecovery
<1> QED BY <1>2, <1>3, <1>4

LEMMA BaselineHeld == AccountInv /\ JudgeInv => BaselineIsPast
<1> SUFFICES ASSUME AccountInv, JudgeInv, NEW p \in Probes
             PROVE  \E n \in 0..Len(samples) :
                       LET past == SubSeq(samples, 1, n)
                       IN  /\ \A i \in 1..n : past[i].by # p
                           /\ Len(window[p]) <= RecentSamples
                           /\ \E lo \in 1..(n + 1) :
                                 \E I \in SUBSET (lo..n) :
                                    /\ I = {i \in lo..n : past[i].ok}
                                    /\ Cardinality(I) = Len(window[p])
                                    /\ \A i \in I : past[i].ms =
                                          window[p][Cardinality({j \in I : j <= i})]
  BY DEF BaselineIsPast
<1>1. samples \in Seq(Sample) /\ Len(samples) \in Nat
  BY LenProperties DEF AccountInv
<1>2. PICK n \in 0..Len(samples) : Past(p, n)
  BY DEF JudgeInv
<1> DEFINE past == SubSeq(samples, 1, n)
<1>3. \A i \in 1..n : past[i] = samples[i]
  <2>1. 1 \in 1..(Len(samples) + 1) /\ n \in Nat /\ n <= Len(samples)
    BY <1>1, <1>2
  <2> QED BY <1>1, <2>1, SubSeqProperties
<1>4. PICK lo \in 1..(n + 1) : Lists(window[p], samples, Oks(samples, lo, n))
  BY <1>2 DEF Past
<1> DEFINE I == Oks(samples, lo, n)
<1>5. I = {i \in lo..n : past[i].ok} /\ I \in SUBSET (lo..n) /\ I \subseteq 1..n
  <2>1. lo..n \subseteq 1..n
    BY <1>4
  <2> HIDE DEF past
  <2> QED BY <1>3, <2>1 DEF Oks
<1>6. /\ Cardinality(I) = Len(window[p])
      /\ \A i \in I : window[p][Cardinality({j \in I : j <= i})] = samples[i].ms
  <2> HIDE DEF I
  <2> QED BY <1>4 DEF Lists, I
<1>7. \A i \in I : past[i].ms = window[p][Cardinality({j \in I : j <= i})]
  <2> HIDE DEF I, past
  <2> QED BY <1>3, <1>5, <1>6
<1>8. (\A i \in 1..n : past[i].by # p) /\ Len(window[p]) <= RecentSamples
  <2> HIDE DEF past
  <2> QED BY <1>2, <1>3 DEF Past
<1>9. \E J \in SUBSET (lo..n) :
         /\ J = {i \in lo..n : past[i].ok}
         /\ Cardinality(J) = Len(window[p])
         /\ \A i \in J : past[i].ms = window[p][Cardinality({j \in J : j <= i})]
  <2> HIDE DEF I, past
  <2> QED BY <1>5, <1>6, <1>7
<1> HIDE DEF past
<1>10. /\ \A i \in 1..n : past[i].by # p
       /\ Len(window[p]) <= RecentSamples
       /\ \E l \in 1..(n + 1) : \E J \in SUBSET (l..n) :
             /\ J = {i \in l..n : past[i].ok}
             /\ Cardinality(J) = Len(window[p])
             /\ \A i \in J : past[i].ms = window[p][Cardinality({j \in J : j <= i})]
  BY <1>8, <1>9
<1> QED BY <1>10 DEF past

LEMMA RelativeHeld == AccountInv /\ JudgeInv => RelativeJustified
<1> SUFFICES ASSUME AccountInv, JudgeInv, NEW p \in Probes
             PROVE  /\ \A e \in EventsOf(p) : e.relative =>
                          /\ Enough(window[p])
                          /\ \E i \in DOMAIN window[p] :
                                latency[p] >= Multiplier * window[p][i]
                    /\ pc[p] = "done" /\ Enough(window[p])
                       /\ (\A i \in DOMAIN window[p] :
                              latency[p] >= Multiplier * window[p][i]) =>
                          \E e \in EventsOf(p) : e.relative
  BY DEF RelativeJustified, Enough
<1>1. window[p] \in Seq(Nat) /\ latency[p] \in Nat /\ Judged(p)
  BY DEF AccountInv, JudgeInv
<1> QED BY <1>1, ThresholdMeans DEF Judged

(* However the probes overlap, each is judged by successes that the        *)
(* tracker held before the probe had a sample of its own, the most recent  *)
(* ones in their order and no failure among them, and its event says       *)
(* exactly what they say (GetHTTPSampleWindow is read before the request,  *)
(* DetectAndRecordWithWindow after it).                                    *)
THEOREM ProbesJudgedFairly == Spec => []JudgedFairly
<1>1. AccountInv /\ JudgeInv => JudgedFairly
  BY BaselineHeld, RelativeHeld DEF JudgedFairly
<1>2. Spec => [](MonitorInv /\ AccountInv /\ JudgeInv)
  BY MonitorInit, MonitorStep, AccountInit, AccountStep, JudgeInit, JudgeStep,
     PTL DEF Spec
<1> QED BY <1>1, <1>2, PTL

=============================================================================
