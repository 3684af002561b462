---------------------- MODULE CaptureCooldown_proofs ----------------------
(***************************************************************************)
(* Proofs about CaptureCooldown, for every set of trackers and peers, every *)
(* cap and cooldown and any number of spikes.                              *)
(***************************************************************************)
EXTENDS CaptureCooldown, FiniteSetTheorems, TLAPS

USE CooldownAssumption, NoneAssumption, PeerOfAssumption, BoundsAssumption,
    CapAssumption

Lines == {"none", "into_old", "trigger", "reserve", "record_suppressed", "done"}
            \cup Recording \cup Holding

(* Where each goroutine is, and what it has by then: its tracker once it   *)
(* is detected, its peer once it asks for it, and the times it has read.   *)
Placed ==
    \A e \in Events :
        /\ from[e] = None <=> pc[e] = "none"
        /\ pc[e] \in {"reserve", "record_suppressed"} \cup Holding
              => Peer(e) \in Peers
        /\ pc[e] \in {"reserve", "evaluate", "spikes", "captures"}
              => decidedAt[e] \in Nat /\ decidedAt[e] <= now
        /\ pc[e] = "performing" => startedAt[e] \in Nat /\ startedAt[e] <= now

(* One step of one goroutine, with what it leaves alone. *)
LEMMA TypeStep ==
    ASSUME TypeOK, Placed, [Next]_vars
    PROVE  TypeOK'
<1> USE DEF TypeOK, Times, Records, Goto, Events
<1>1. CASE Tick
  BY <1>1 DEF Tick, tracking, locals, store
<1>2. CASE Idle
  BY <1>2 DEF Idle, vars, tracking, locals, store
<1>3. CASE EnableRetention
  BY <1>3 DEF EnableRetention, tracking, locals, store, Recording, Holding
<1>4. CASE SetDiagCapture
  BY <1>4 DEF SetDiagCapture, tracking, locals, store
<1>5. ASSUME NEW t \in Trackers, DetectSpike(t) PROVE TypeOK'
  <2>1. PICK e \in Events :
           /\ pc' = [pc EXCEPT ![e] = IF Cardinality(Purgeable(t)) >= MaxEventsPerTracker
                                      THEN "pick" ELSE "append"]
           /\ from' = [from EXCEPT ![e] = t]
    BY <1>5 DEF DetectSpike
  <2>2. PICK line \in Recording : pc' = [pc EXCEPT ![e] = line]
    BY <2>1 DEF Recording
  <2> QED BY <1>5, <2>1, <2>2 DEF DetectSpike, locals, store
<1>6. ASSUME NEW e \in Events, Step(e) PROVE TypeOK'
  <2>1. CASE PickVictim(e)
    <3>1. from[e] \in Trackers
      BY <2>1 DEF Placed, PickVictim
    <3>2. Purgeable(from[e]) \subseteq Events
      BY <3>1 DEF Purgeable
    <3>3. victim' \in [Events -> Events \cup {None}]
      BY <2>1, <3>2 DEF PickVictim
    <3> QED BY <2>1, <3>3 DEF PickVictim, locals, store, Recording
  <2>2. CASE AppendSpike(e)
    <3>1. from[e] \in Trackers
      BY <2>2 DEF Placed, AppendSpike
    <3>2. events' \in [Trackers -> SUBSET Events]
      BY <2>2, <3>1 DEF AppendSpike
    <3> QED BY <2>2, <3>2 DEF AppendSpike, locals, store
  <2>3. CASE AppendToOld(e)
    BY <2>3 DEF AppendToOld, tracking, locals, store
  <2>4. CASE RecordNoPeerMapping(e)
    BY <2>4 DEF RecordNoPeerMapping, tracking, locals
  <2>5. CASE ReadClock(e)
    BY <2>5 DEF ReadClock, tracking, store
  <2>6. CASE ReserveInFlight(e)
    <3>1. Peer(e) \in Peers
      BY <2>6 DEF Placed, ReserveInFlight
    <3> QED BY <2>6, <3>1 DEF ReserveInFlight, tracking, locals, Holding
  <2>7. CASE RecordSuppressedInFlight(e)
    BY <2>7 DEF RecordSuppressedInFlight, tracking
  <2>8. CASE SnapshotCooldown(e)
    <3>1. Peer(e) \in Peers
      BY <2>8 DEF Placed, SnapshotCooldown, Holding
    <3>2. /\ lastCapture[Peer(e)] \in Times \cup {None}
          /\ lastAnchor[Peer(e)] \in Events \cup {None}
      BY <3>1
    <3>a. PICK line \in Holding : pc' = [pc EXCEPT ![e] = line]
      BY <2>8 DEF SnapshotCooldown, Holding
    <3>3. pc' \in [Events -> Lines]
      BY <3>a DEF Lines
    <3>4. /\ decidedAt' \in [Events -> Times \cup {None}]
          /\ seenLast' \in [Events -> Times \cup {None}]
          /\ seenAnchor' \in [Events -> Events \cup {None}]
          /\ startedAt' = startedAt
      BY <2>8, <3>2 DEF SnapshotCooldown, ForgetLocals
    <3> QED BY <2>8, <3>3, <3>4 DEF SnapshotCooldown, tracking, store, Lines
  <2>9. CASE FindAnchorSpike(e)
    BY <2>9 DEF FindAnchorSpike, tracking, locals, store, Holding
  <2>10. CASE CheckAnchorCapture(e)
    BY <2>10, ZenonT(60) DEF CheckAnchorCapture, ForgetLocals, tracking, locals, store, Holding
  <2>11. CASE ClearCooldownIfSame(e)
    BY <2>11 DEF ClearCooldownIfSame, ForgetLocals, tracking, Holding
  <2>12. CASE ReleaseSuppressed(e)
    BY <2>12 DEF ReleaseSuppressed, tracking, locals
  <2>13. CASE RecordSuppressedCooldown(e)
    BY <2>13 DEF RecordSuppressedCooldown, tracking, locals
  <2>14. CASE StartCapture(e)
    BY <2>14 DEF StartCapture, tracking, store, Holding
  <2>15. ASSUME NEW o \in {"captured", "bare", "failed"},
                AddCaptureWithProvenance(e, o)
         PROVE  TypeOK'
    <3>1. pc[e] = "performing" /\ Peer(e) \in Peers /\ startedAt[e] \in Times
      BY <2>15 DEF Placed, AddCaptureWithProvenance, Holding
    <3>2. /\ lastCapture' \in [Peers -> Times \cup {None}]
          /\ lastAnchor' \in [Peers -> Events \cup {None}]
      BY <2>15, <3>1, ZenonT(60) DEF AddCaptureWithProvenance
    <3>3. /\ record' \in [Events -> Records \cup {None}]
          /\ startedAt' \in [Events -> Times \cup {None}]
      BY <2>15 DEF AddCaptureWithProvenance
    <3> QED BY <2>15, <3>2, <3>3 DEF AddCaptureWithProvenance, tracking, Holding
  <2>16. CASE ReleaseInFlight(e)
    BY <2>16 DEF ReleaseInFlight, tracking, locals
  <2> QED BY <1>6, <2>1, <2>2, <2>3, <2>4, <2>5, <2>6, <2>7, <2>8, <2>9,
             <2>10, <2>11, <2>12, <2>13, <2>14, <2>15, <2>16 DEF Step
<1>7. CASE UNCHANGED vars
  BY <1>7 DEF vars, tracking, locals, store
<1> QED BY <1>1, <1>2, <1>3, <1>4, <1>5, <1>6, <1>7 DEF Next

(* What a step of the goroutine of e leaves alone: everything of the other *)
(* goroutines and of the other peers, and the cooldown of its own peer too *)
(* unless it holds that peer.                                              *)
Frame(e) ==
    /\ now' = now /\ phase' = phase /\ from' = from
    /\ \A d \in Events \ {e} :
          /\ pc'[d] = pc[d]
          /\ decidedAt'[d] = decidedAt[d]
          /\ seenLast'[d] = seenLast[d]
          /\ seenAnchor'[d] = seenAnchor[d]
          /\ startedAt'[d] = startedAt[d]
          /\ record'[d] = record[d]
          /\ victim'[d] = victim[d]
    /\ \A p \in Peers \ {Peer(e)} :
          /\ lastCapture'[p] = lastCapture[p]
          /\ lastAnchor'[p] = lastAnchor[p]
          /\ p \in inFlight' <=> p \in inFlight
    /\ pc[e] \notin Holding =>
          /\ lastCapture' = lastCapture
          /\ lastAnchor' = lastAnchor
          /\ IF pc'[e] \in Holding
             THEN Peer(e) \notin inFlight /\ inFlight' = inFlight \cup {Peer(e)}
             ELSE inFlight' = inFlight
    /\ pc[e] \in Holding /\ pc'[e] \in Holding => inFlight' = inFlight

LEMMA StepFrame ==
    ASSUME TypeOK, Placed, NEW e \in Events, Step(e)
    PROVE  Frame(e)
<1> USE DEF TypeOK, Frame, Goto, Holding, Recording, tracking, locals, store
<1>1. CASE PickVictim(e)
  BY <1>1 DEF PickVictim
<1>2. CASE AppendSpike(e)
  BY <1>2 DEF AppendSpike
<1>3. CASE AppendToOld(e)
  BY <1>3 DEF AppendToOld
<1>4. CASE RecordNoPeerMapping(e)
  BY <1>4 DEF RecordNoPeerMapping
<1>5. CASE ReadClock(e)
  BY <1>5 DEF ReadClock
<1>6. CASE ReserveInFlight(e)
  BY <1>6 DEF ReserveInFlight
<1>7. CASE RecordSuppressedInFlight(e)
  BY <1>7 DEF RecordSuppressedInFlight
<1>8. CASE SnapshotCooldown(e)
  BY <1>8 DEF SnapshotCooldown, ForgetLocals
<1>9. CASE FindAnchorSpike(e)
  BY <1>9 DEF FindAnchorSpike
<1>10. CASE CheckAnchorCapture(e)
  BY <1>10 DEF CheckAnchorCapture, ForgetLocals
<1>11. CASE ClearCooldownIfSame(e)
  BY <1>11 DEF ClearCooldownIfSame, ForgetLocals
<1>12. CASE ReleaseSuppressed(e)
  BY <1>12 DEF ReleaseSuppressed
<1>13. CASE RecordSuppressedCooldown(e)
  BY <1>13 DEF RecordSuppressedCooldown
<1>14. CASE StartCapture(e)
  BY <1>14 DEF StartCapture
<1>15. CASE ReleaseInFlight(e)
  BY <1>15 DEF ReleaseInFlight
<1>16. ASSUME NEW o \in {"captured", "bare", "failed"},
            AddCaptureWithProvenance(e, o)
     PROVE  Frame(e)
  BY <1>16 DEF AddCaptureWithProvenance
<1> QED BY <1>1, <1>2, <1>3, <1>4, <1>5, <1>6, <1>7, <1>8, <1>9, <1>10, <1>11, <1>12, <1>13, <1>14, <1>15, <1>16 DEF Step

(* Whoever holds a peer has it reserved, and is alone. *)
Exclusive ==
    /\ \A e \in Events : pc[e] \in Holding => Peer(e) \in inFlight
    /\ OneCapturePerPeer

Cool(p, t) == lastCapture[p] = None \/ t >= lastCapture[p] + Cooldown

(* What the holder has read of its peer's cooldown is still so, and from   *)
(* the decision to capture on, the cooldown has passed.                    *)
Cooled ==
    \A e \in Events :
        /\ pc[e] \in {"spikes", "captures", "clear"}
              => /\ lastCapture[Peer(e)] \in Nat
                 /\ lastCapture[Peer(e)] = seenLast[e]
                 /\ lastAnchor[Peer(e)] = seenAnchor[e]
        /\ pc[e] = "turn_away" => lastCapture[Peer(e)] # None
        /\ pc[e] = "capture" => Cool(Peer(e), now)
        /\ pc[e] = "performing" => Cool(Peer(e), startedAt[e])

IInv == TypeOK /\ Placed /\ Exclusive /\ Cooled

(* The three conjuncts about goroutine d, so that a step of another one is *)
(* dealt with once.                                                        *)
PlacedOne(e) ==
    /\ from[e] = None <=> pc[e] = "none"
    /\ pc[e] \in {"reserve", "record_suppressed"} \cup Holding
          => Peer(e) \in Peers
    /\ pc[e] \in {"reserve", "evaluate", "spikes", "captures"}
          => decidedAt[e] \in Nat /\ decidedAt[e] <= now
    /\ pc[e] = "performing" => startedAt[e] \in Nat /\ startedAt[e] <= now

LEMMA PlacedOwn ==
    ASSUME TypeOK, Placed, NEW e \in Events, Step(e)
    PROVE  PlacedOne(e)'
<1> USE DEF TypeOK, Times, Placed, PlacedOne, Goto, Holding, Recording, Peer,
        tracking, locals, store
<1>1. CASE PickVictim(e)
  BY <1>1 DEF PickVictim
<1>2. CASE AppendSpike(e)
  BY <1>2 DEF AppendSpike
<1>3. CASE AppendToOld(e)
  BY <1>3 DEF AppendToOld
<1>4. CASE RecordNoPeerMapping(e)
  BY <1>4 DEF RecordNoPeerMapping
<1>5. CASE ReadClock(e)
  BY <1>5 DEF ReadClock
<1>6. CASE ReserveInFlight(e)
  BY <1>6 DEF ReserveInFlight
<1>7. CASE RecordSuppressedInFlight(e)
  BY <1>7 DEF RecordSuppressedInFlight
<1>8. CASE SnapshotCooldown(e)
  BY <1>8 DEF SnapshotCooldown, ForgetLocals
<1>9. CASE FindAnchorSpike(e)
  BY <1>9 DEF FindAnchorSpike
<1>10. CASE CheckAnchorCapture(e)
  BY <1>10 DEF CheckAnchorCapture, ForgetLocals
<1>11. CASE ClearCooldownIfSame(e)
  BY <1>11 DEF ClearCooldownIfSame, ForgetLocals
<1>12. CASE ReleaseSuppressed(e)
  BY <1>12 DEF ReleaseSuppressed
<1>13. CASE RecordSuppressedCooldown(e)
  BY <1>13 DEF RecordSuppressedCooldown
<1>14. CASE StartCapture(e)
  BY <1>14 DEF StartCapture
<1>15. CASE ReleaseInFlight(e)
  BY <1>15 DEF ReleaseInFlight
<1>16. ASSUME NEW o \in {"captured", "bare", "failed"},
            AddCaptureWithProvenance(e, o)
     PROVE  PlacedOne(e)'
  BY <1>16 DEF AddCaptureWithProvenance
<1> QED BY <1>1, <1>2, <1>3, <1>4, <1>5, <1>6, <1>7, <1>8, <1>9, <1>10, <1>11, <1>12, <1>13, <1>14, <1>15, <1>16 DEF Step

CooledOne(e) ==
    /\ pc[e] \in {"spikes", "captures", "clear"}
          => /\ lastCapture[Peer(e)] \in Nat
             /\ lastCapture[Peer(e)] = seenLast[e]
             /\ lastAnchor[Peer(e)] = seenAnchor[e]
    /\ pc[e] = "turn_away" => lastCapture[Peer(e)] # None
    /\ pc[e] = "capture" => Cool(Peer(e), now)
    /\ pc[e] = "performing" => Cool(Peer(e), startedAt[e])

LEMMA CooledOwn ==
    ASSUME TypeOK, Placed, Cooled, NEW e \in Events, Step(e)
    PROVE  CooledOne(e)'
<1> USE DEF TypeOK, Times, Placed, Cooled, CooledOne, Cool, Goto, Holding,
        Recording, Peer, tracking, locals, store
<1>1. CASE PickVictim(e)
  BY <1>1 DEF PickVictim
<1>2. CASE AppendSpike(e)
  BY <1>2 DEF AppendSpike
<1>3. CASE AppendToOld(e)
  BY <1>3 DEF AppendToOld
<1>4. CASE RecordNoPeerMapping(e)
  BY <1>4 DEF RecordNoPeerMapping
<1>5. CASE ReadClock(e)
  BY <1>5 DEF ReadClock
<1>6. CASE ReserveInFlight(e)
  BY <1>6 DEF ReserveInFlight
<1>7. CASE RecordSuppressedInFlight(e)
  BY <1>7 DEF RecordSuppressedInFlight
<1>8. CASE SnapshotCooldown(e)
  BY <1>8 DEF SnapshotCooldown, ForgetLocals
<1>9. CASE FindAnchorSpike(e)
  BY <1>9 DEF FindAnchorSpike
<1>10. CASE CheckAnchorCapture(e)
  BY <1>10 DEF CheckAnchorCapture, ForgetLocals
<1>11. CASE ClearCooldownIfSame(e)
  BY <1>11 DEF ClearCooldownIfSame, ForgetLocals
<1>12. CASE ReleaseSuppressed(e)
  BY <1>12 DEF ReleaseSuppressed
<1>13. CASE RecordSuppressedCooldown(e)
  BY <1>13 DEF RecordSuppressedCooldown
<1>14. CASE StartCapture(e)
  BY <1>14 DEF StartCapture
<1>15. CASE ReleaseInFlight(e)
  BY <1>15 DEF ReleaseInFlight
<1>16. ASSUME NEW o \in {"captured", "bare", "failed"},
            AddCaptureWithProvenance(e, o)
     PROVE  CooledOne(e)'
  BY <1>16 DEF AddCaptureWithProvenance
<1> QED BY <1>1, <1>2, <1>3, <1>4, <1>5, <1>6, <1>7, <1>8, <1>9, <1>10, <1>11, <1>12, <1>13, <1>14, <1>15, <1>16 DEF Step

LEMMA InitIInv == Init => IInv
<1> SUFFICES ASSUME Init PROVE IInv
  OBVIOUS
<1>1. TypeOK
  BY DEF Init, TypeOK, Times, Recording, Holding, Events
<1>2. Placed /\ Exclusive /\ Cooled
  BY DEF Init, Placed, Exclusive, OneCapturePerPeer, Cooled, Holding
<1> QED BY <1>1, <1>2 DEF IInv

(* A step of one goroutine keeps the invariant: its own part by what it    *)
(* does, the parts of the others because it leaves them alone.             *)
LEMMA StepIInv ==
    ASSUME IInv, NEW e \in Events, Step(e)
    PROVE  Placed' /\ Exclusive' /\ Cooled'
<1> USE DEF IInv
<1>1. Frame(e)
  BY StepFrame
<1>2. Placed'
  <2> SUFFICES ASSUME NEW d \in Events PROVE PlacedOne(d)'
    BY DEF Placed, PlacedOne
  <2>1. CASE d = e
    BY <2>1, PlacedOwn
  <2>2. CASE d # e
    BY <1>1, <2>2 DEF Frame, Placed, PlacedOne, Peer
  <2> QED BY <2>1, <2>2
<1>3. Exclusive'
  <2>1. \A d \in Events : pc'[d] \in Holding => Peer(d)' \in inFlight'
    <3> SUFFICES ASSUME NEW d \in Events, pc'[d] \in Holding
                 PROVE  Peer(d)' \in inFlight'
      OBVIOUS
    <3>1. Peer(d)' = Peer(d) /\ Peer(e)' = Peer(e)
      BY <1>1 DEF Frame, Peer
    <3>2. CASE d = e
      BY <1>1, <3>1, <3>2 DEF Frame, Exclusive
    <3>3. CASE d # e /\ Peer(d) # Peer(e)
      BY <1>1, <3>1, <3>3 DEF Frame, Exclusive, Placed
    <3>4. CASE d # e /\ Peer(d) = Peer(e)
      <4>1. pc[d] \in Holding /\ pc[e] \notin Holding
        BY <1>1, <3>4 DEF Frame, Exclusive, OneCapturePerPeer
      <4> QED BY <1>1, <3>1, <4>1 DEF Frame, Exclusive
    <3> QED BY <3>2, <3>3, <3>4
  <2>2. OneCapturePerPeer'
    <3> SUFFICES ASSUME NEW c \in Events, NEW d \in Events, c # d,
                        pc'[c] \in Holding, pc'[d] \in Holding
                 PROVE  Peer(c)' # Peer(d)'
      BY DEF OneCapturePerPeer
    <3>1. \A x \in Events : Peer(x)' = Peer(x)
      BY <1>1 DEF Frame, Peer
    <3>2. CASE c # e /\ d # e
      BY <1>1, <3>1, <3>2 DEF Frame, Exclusive, OneCapturePerPeer
    <3>3. CASE c = e
      BY <1>1, <3>1, <3>3 DEF Frame, Exclusive, OneCapturePerPeer
    <3>4. CASE d = e
      BY <1>1, <3>1, <3>4 DEF Frame, Exclusive, OneCapturePerPeer
    <3> QED BY <3>2, <3>3, <3>4
  <2> QED BY <2>1, <2>2 DEF Exclusive
<1>4. Cooled'
  <2> SUFFICES ASSUME NEW d \in Events PROVE CooledOne(d)'
    BY DEF Cooled, CooledOne
  <2>1. CASE d = e
    BY <2>1, CooledOwn
  <2>2. CASE d # e /\ pc[d] \in Holding
    <3>1. /\ Peer(d)' = Peer(d) /\ pc'[d] = pc[d]
          /\ seenLast'[d] = seenLast[d] /\ seenAnchor'[d] = seenAnchor[d]
          /\ startedAt'[d] = startedAt[d] /\ now' = now
      BY <1>1, <2>2 DEF Frame, Peer
    <3>2. /\ lastCapture'[Peer(d)] = lastCapture[Peer(d)]
          /\ lastAnchor'[Peer(d)] = lastAnchor[Peer(d)]
      BY <1>1, <2>2 DEF Frame, Exclusive, OneCapturePerPeer, Placed
    <3> QED BY <3>1, <3>2 DEF Cooled, CooledOne, Cool
  <2>3. CASE d # e /\ pc[d] \notin Holding
    BY <1>1, <2>3 DEF Frame, CooledOne, Holding
  <2> QED BY <2>1, <2>2, <2>3
<1> QED BY <1>2, <1>3, <1>4

LEMMA NextIInv == IInv /\ [Next]_vars => IInv'
<1> SUFFICES ASSUME IInv, [Next]_vars PROVE IInv'
  OBVIOUS
<1>0. TypeOK'
  BY TypeStep DEF IInv
<1> USE DEF IInv
<1>1. CASE Tick
  <2>1. /\ now \in Nat /\ now' = now + 1
        /\ UNCHANGED <<pc, from, locals, store>>
    BY <1>1 DEF Tick, TypeOK, Times, tracking
  <2>2. \A e \in Events : Peer(e)' = Peer(e)
    BY <2>1 DEF Peer
  <2>3. Placed'
    BY <2>1, <2>2 DEF Placed, locals
  <2>4. Exclusive'
    BY <2>1, <2>2 DEF Exclusive, OneCapturePerPeer, store
  <2>5. Cooled'
    <3> SUFFICES ASSUME NEW e \in Events PROVE CooledOne(e)'
      BY DEF Cooled, CooledOne
    <3>1. CASE pc[e] = "capture"
      <4>1. lastCapture[Peer(e)] \in Nat \cup {None}
        BY <3>1 DEF Placed, Holding, TypeOK, Times
      <4> QED BY <2>1, <2>2, <3>1, <4>1 DEF Cooled, CooledOne, Cool, store
    <3>2. CASE pc[e] # "capture"
      BY <2>1, <2>2, <3>2 DEF Cooled, CooledOne, Cool, locals, store
    <3> QED BY <3>1, <3>2
  <2> QED BY <1>0, <2>3, <2>4, <2>5
<1>2. ASSUME UNCHANGED vars PROVE IInv'
  BY <1>0, <1>2 DEF vars, Placed, Exclusive, OneCapturePerPeer,
                    Cooled, Cool, Peer, tracking, locals, store
<1>3. CASE Idle
  BY <1>2, <1>3 DEF Idle
<1>4. CASE EnableRetention
  <2>1. /\ \A e \in Events : (pc'[e] = pc[e]) \/
                              (pc[e] \in Recording /\ pc'[e] = "into_old")
        /\ UNCHANGED <<now, from, locals, store>>
    BY <1>4 DEF EnableRetention
  <2>2. Placed'
    BY <2>1 DEF Placed, Peer, Recording, Holding, locals
  <2>3. Exclusive'
    BY <2>1 DEF Exclusive, OneCapturePerPeer, Peer, Recording, Holding, store
  <2>4. Cooled'
    BY <2>1 DEF Cooled, Cool, Peer, Recording, Holding, locals, store
  <2> QED BY <1>0, <2>2, <2>3, <2>4
<1>5. CASE SetDiagCapture
  BY <1>0, <1>5 DEF SetDiagCapture, Placed, Exclusive, OneCapturePerPeer,
                    Cooled, Cool, Peer, tracking, locals, store
<1>6. ASSUME NEW t \in Trackers, DetectSpike(t) PROVE IInv'
  <2>1. PICK e \in Events :
           /\ pc[e] = "none" /\ pc'[e] \in Recording
           /\ from' = [from EXCEPT ![e] = t]
           /\ \A d \in Events \ {e} : pc'[d] = pc[d]
           /\ UNCHANGED <<now, locals, store>>
    BY <1>6 DEF DetectSpike, Goto, Recording, TypeOK
  <2>2. \A d \in Events \ {e} : Peer(d)' = Peer(d) /\ from'[d] = from[d]
    BY <2>1 DEF Peer, TypeOK
  <2>3. Placed'
    BY <2>1, <2>2 DEF Placed, Recording, Holding, TypeOK, locals
  <2>4. Exclusive'
    BY <2>1, <2>2 DEF Exclusive, OneCapturePerPeer, Recording, Holding, store
  <2>5. Cooled'
    BY <2>1, <2>2 DEF Cooled, Cool, Recording, Holding, locals, store
  <2> QED BY <1>0, <2>3, <2>4, <2>5
<1>7. ASSUME NEW e \in Events, Step(e) PROVE IInv'
  BY <1>0, <1>7, StepIInv
<1> QED BY <1>1, <1>2, <1>3, <1>4, <1>5, <1>6, <1>7 DEF Next

LEMMA Inductive == Spec => []IInv
BY InitIInv, NextIInv, PTL DEF Spec

(* Every variable keeps its type (TypeOK).                                 *)
THEOREM TypeCorrect == Spec => []TypeOK
BY Inductive, PTL DEF IInv

(* No peer has two captures at once (diag/capture.go:87-121), for any      *)
(* number of probes, targets and peers.                                    *)
THEOREM CapturesExclusive == Spec => []OneCapturePerPeer
<1>1. IInv => OneCapturePerPeer
  BY DEF IInv, Exclusive
<1> QED BY <1>1, Inductive, PTL

(***************************************************************************)
(* The refinement of CaptureAdmission.  What a peer is doing is what its   *)
(* only holder is doing, so a step of a goroutine changes it for the peer  *)
(* of that goroutine and for no other.                                     *)
(***************************************************************************)
Stage(line) ==
    CASE line = "performing" -> "capturing"
      [] line = "release" -> "ending"
      [] OTHER -> "deciding"

Slots == [p \in Peers |-> Slot(p)]

LEMMA SlotHeld ==
    ASSUME Placed, OneCapturePerPeer, NEW e \in Events, pc[e] \in Holding
    PROVE  Slot(Peer(e)) = Stage(pc[e])
<1>1. \A d \in Events : pc[d] \in Holding /\ Peer(d) = Peer(e) => d = e
  BY DEF OneCapturePerPeer
<1>2. from[e] # None
  BY DEF Placed, Holding
<1>3. CASE pc[e] = "performing"
  BY <1>1, <1>2, <1>3 DEF Slot, HeldAt, Stage, Holding
<1>4. CASE pc[e] = "release"
  BY <1>1, <1>2, <1>4 DEF Slot, HeldAt, Stage, Holding
<1>5. CASE pc[e] \notin {"performing", "release"}
  <2>1. \A d \in Events : Peer(d) = Peer(e) => pc[d] \notin {"performing", "release"}
    BY <1>1, <1>5 DEF Holding
  <2>2. pc[e] \in Holding \ {"performing", "release"}
    BY <1>5
  <2>3. Stage(pc[e]) = "deciding"
    BY <1>5 DEF Stage
  <2> QED BY <1>2, <2>1, <2>2, <2>3 DEF Slot, HeldAt
<1> QED BY <1>3, <1>4, <1>5

LEMMA SlotFree ==
    ASSUME NEW p, \A e \in Events : pc[e] \in Holding => Peer(e) # p
    PROVE  Slot(p) = "free"
BY DEF Slot, HeldAt, Holding

LEMMA SlotHeldNext ==
    ASSUME Placed', OneCapturePerPeer', NEW e \in Events, pc'[e] \in Holding
    PROVE  Slot(Peer(e))' = Stage(pc'[e])
<1>1. \A d \in Events : pc'[d] \in Holding /\ Peer(d)' = Peer(e)' => d = e
  BY DEF OneCapturePerPeer
<1>2. from'[e] # None
  BY DEF Placed, Holding
<1>3. CASE pc'[e] = "performing"
  BY <1>1, <1>2, <1>3 DEF Slot, HeldAt, Stage, Holding
<1>4. CASE pc'[e] = "release"
  BY <1>1, <1>2, <1>4 DEF Slot, HeldAt, Stage, Holding
<1>5. CASE pc'[e] \notin {"performing", "release"}
  <2>1. \A d \in Events : Peer(d)' = Peer(e)' => pc'[d] \notin {"performing", "release"}
    BY <1>1, <1>5 DEF Holding
  <2>2. pc'[e] \in Holding \ {"performing", "release"}
    BY <1>5
  <2>3. Stage(pc'[e]) = "deciding"
    BY <1>5 DEF Stage
  <2> QED BY <1>2, <2>1, <2>2, <2>3 DEF Slot, HeldAt
<1> QED BY <1>3, <1>4, <1>5

LEMMA SlotStep ==
    ASSUME IInv, IInv', NEW e \in Events, Step(e)
    PROVE  /\ \A p \in Peers \ {Peer(e)} : Slot(p)' = Slot(p)
           /\ pc[e] \notin Holding /\ pc'[e] \notin Holding => Slots' = Slots
           /\ pc'[e] \in Holding => Slot(Peer(e))' = Stage(pc'[e])
           /\ pc[e] \in Holding => Slot(Peer(e)) = Stage(pc[e])
           /\ pc[e] \in Holding /\ pc'[e] \notin Holding
                => Slot(Peer(e))' = "free"
           /\ pc[e] \notin Holding /\ pc'[e] \in Holding
                => Slot(Peer(e)) = "free"
<1>1. Frame(e)
  BY StepFrame DEF IInv
<1>2. \A d \in Events : Peer(d)' = Peer(d) /\ from'[d] = from[d]
  BY <1>1 DEF Frame, Peer
<1>3. \A d \in Events \ {e} : pc'[d] = pc[d]
  BY <1>1 DEF Frame
<1>4. ASSUME NEW p \in Peers, p # Peer(e) PROVE Slot(p)' = Slot(p)
  BY <1>2, <1>3, <1>4 DEF Slot, HeldAt
<1>5. ASSUME pc[e] \notin Holding, pc'[e] \notin Holding
      PROVE  Slots' = Slots
  <2>1. ASSUME NEW p \in Peers PROVE Slot(p)' = Slot(p)
    BY <1>2, <1>3, <1>5 DEF Slot, HeldAt, Holding
  <2> QED BY <2>1 DEF Slots
<1>6. pc'[e] \in Holding => Slot(Peer(e))' = Stage(pc'[e])
  BY SlotHeldNext DEF IInv, Exclusive
<1>7. pc[e] \in Holding => Slot(Peer(e)) = Stage(pc[e])
  BY SlotHeld DEF IInv, Exclusive
<1>8. ASSUME pc[e] \in Holding, pc'[e] \notin Holding
      PROVE  Slot(Peer(e))' = "free"
  <2>1. \A d \in Events : pc'[d] \in Holding => Peer(d)' # Peer(e)'
    BY <1>2, <1>3, <1>8 DEF IInv, Exclusive, OneCapturePerPeer
  <2> QED BY <2>1 DEF Slot, HeldAt, Holding
<1>9. ASSUME pc[e] \notin Holding, pc'[e] \in Holding
      PROVE  Slot(Peer(e)) = "free"
  <2>1. Peer(e) \notin inFlight
    BY <1>1, <1>9 DEF Frame
  <2>2. \A d \in Events : pc[d] \in Holding => Peer(d) # Peer(e)
    BY <2>1 DEF IInv, Exclusive
  <2> QED BY <2>2, SlotFree
<1> QED BY <1>4, <1>5, <1>6, <1>7, <1>8, <1>9

(* A step that does not change the stage of its goroutine, nor the time,   *)
(* is a stutter of the abstract specification.                             *)
LEMMA Stutters ==
    ASSUME IInv, IInv', NEW e \in Events, Step(e),
           \/ pc[e] \notin Holding /\ pc'[e] \notin Holding
           \/ /\ pc[e] \in Holding /\ pc'[e] \in Holding
              /\ Stage(pc[e]) = Stage(pc'[e]),
           UNCHANGED lastCapture
    PROVE  UNCHANGED <<now, Slots, lastCapture>>
<1>1. Frame(e)
  BY StepFrame DEF IInv
<1>2. Peer(e)' = Peer(e)
  BY <1>1 DEF Frame, Peer
<1>3. CASE pc[e] \notin Holding /\ pc'[e] \notin Holding
  BY <1>1, <1>3, SlotStep DEF Frame
<1>4. CASE /\ pc[e] \in Holding /\ pc'[e] \in Holding
           /\ Stage(pc[e]) = Stage(pc'[e])
  <2>1. \A p \in Peers : Slot(p)' = Slot(p)
    BY <1>2, <1>4, SlotStep
  <2> QED BY <1>1, <2>1 DEF Slots, Frame
<1> QED BY <1>3, <1>4

(* A step that changes it moves the slot of its peer, and no other.        *)
LEMMA MovesSlot ==
    ASSUME IInv, IInv', NEW e \in Events, Step(e), Peer(e) \in Peers,
           NEW a, NEW b,
           a = IF pc[e] \in Holding THEN Stage(pc[e]) ELSE "free",
           b = IF pc'[e] \in Holding THEN Stage(pc'[e]) ELSE "free",
           pc[e] \in Holding \/ pc'[e] \in Holding
    PROVE  Admission!Moves(Peer(e), a, b)
<1>1. Frame(e)
  BY StepFrame DEF IInv
<1>2. Peer(e)' = Peer(e)
  BY <1>1 DEF Frame, Peer
<1>3. Slot(Peer(e)) = a /\ Slot(Peer(e))' = b
  BY <1>2, SlotStep
<1>4. \A p \in Peers \ {Peer(e)} : Slot(p)' = Slot(p)
  BY SlotStep
<1>5. [p \in Peers |-> Slot(p)]' = [[p \in Peers |-> Slot(p)] EXCEPT ![Peer(e)] = b]
  BY <1>2, <1>3, <1>4
<1>6. now' = now
  BY <1>1 DEF Frame
<1> QED BY <1>3, <1>5, <1>6 DEF Admission!Moves

(* Every step of a goroutine is a step of the abstract service, or none.   *)
LEMMA StepSimulates ==
    ASSUME IInv, IInv', NEW e \in Events, Step(e)
    PROVE  [Admission!ANext]_(Admission!avars)
<1> USE DEF Holding, Stage, Goto, store
<1>q. ASSUME UNCHANGED <<now, Slots, lastCapture>>
      PROVE  [Admission!ANext]_(Admission!avars)
  BY <1>q DEF Admission!avars, Slots
<1>t. pc \in [Events -> Lines]
  BY DEF IInv, TypeOK, Lines
<1>p. pc[e] \in Holding => Peer(e) \in Peers
  BY DEF IInv, Placed
<1>1. CASE \/ PickVictim(e) \/ AppendSpike(e) \/ AppendToOld(e)
           \/ RecordNoPeerMapping(e) \/ ReadClock(e)
           \/ RecordSuppressedInFlight(e) \/ RecordSuppressedCooldown(e)
  <2>1. pc[e] \notin Holding /\ pc'[e] \notin Holding /\ UNCHANGED lastCapture
    BY <1>1, <1>t DEF PickVictim, AppendSpike, AppendToOld, RecordNoPeerMapping,
       ReadClock, RecordSuppressedInFlight, RecordSuppressedCooldown
  <2> QED BY <1>q, <2>1, Stutters
<1>2. CASE SnapshotCooldown(e) \/ FindAnchorSpike(e) \/ CheckAnchorCapture(e)
  <2>1. /\ pc[e] \in {"evaluate", "spikes", "captures"}
        /\ pc'[e] \in {"spikes", "captures", "clear", "capture", "turn_away"}
        /\ UNCHANGED lastCapture
    BY <1>2, <1>t DEF SnapshotCooldown, FindAnchorSpike, CheckAnchorCapture
  <2> QED BY <1>q, <2>1, Stutters
<1>3. CASE ReserveInFlight(e)
  <2>1. /\ pc[e] = "reserve" /\ pc'[e] = "evaluate"
        /\ UNCHANGED lastCapture
    BY <1>3, <1>t DEF ReserveInFlight
  <2>2. Peer(e) \in Peers
    BY <2>1 DEF IInv, Placed
  <2>3. Admission!Moves(Peer(e), "free", "deciding")
    BY <2>1, <2>2, MovesSlot
  <2> QED BY <2>1, <2>2, <2>3 DEF Admission!ANext, Admission!Reserves
<1>4. CASE ClearCooldownIfSame(e)
  <2>1. pc[e] = "clear" /\ pc'[e] = "capture"
    BY <1>4, <1>t DEF ClearCooldownIfSame
  <2>2. CASE UNCHANGED lastCapture
    BY <1>q, <2>1, <2>2, Stutters
  <2>3. CASE lastCapture' = [lastCapture EXCEPT ![Peer(e)] = None]
    <3>1. Admission!Moves(Peer(e), "deciding", "deciding")
      BY <2>1, <1>p, MovesSlot
    <3>2. UNCHANGED <<now, Slots>>
      <4>1. Frame(e) /\ Peer(e)' = Peer(e)
        BY StepFrame DEF IInv, Frame, Peer
      <4>2. \A p \in Peers : Slot(p)' = Slot(p)
        BY <2>1, <4>1, SlotStep
      <4> QED BY <4>1, <4>2 DEF Slots, Frame
    <3>3. Admission!Forgets(Peer(e))
      BY <2>3, <3>1, <3>2 DEF Admission!Forgets, Admission!Moves, Slots
    <3> QED BY <1>p, <2>1, <3>3 DEF Admission!ANext
  <2> QED BY <1>4, <2>2, <2>3 DEF ClearCooldownIfSame
<1>5. CASE ReleaseSuppressed(e)
  <2>1. /\ pc[e] = "turn_away" /\ pc'[e] = "record_suppressed"
        /\ UNCHANGED lastCapture
    BY <1>5, <1>t DEF ReleaseSuppressed
  <2>2. Admission!Moves(Peer(e), "deciding", "free")
    BY <2>1, <1>p, MovesSlot
  <2>3. lastCapture[Peer(e)] # None
    BY <2>1 DEF IInv, Cooled
  <2> QED BY <1>p, <2>1, <2>2, <2>3 DEF Admission!ANext, Admission!TurnedAway
<1>6. CASE StartCapture(e)
  <2>1. /\ pc[e] = "capture" /\ pc'[e] = "performing"
        /\ UNCHANGED lastCapture
    BY <1>6, <1>t DEF StartCapture
  <2>2. Admission!Moves(Peer(e), "deciding", "capturing")
    BY <2>1, <1>p, MovesSlot
  <2>3. Cool(Peer(e), now)
    BY <2>1 DEF IInv, Cooled
  <2> QED BY <1>p, <2>1, <2>2, <2>3 DEF Admission!ANext, Admission!Starts, Cool
<1>7. ASSUME NEW o \in {"captured", "bare", "failed"},
             AddCaptureWithProvenance(e, o)
      PROVE  [Admission!ANext]_(Admission!avars)
  <2>1. pc[e] = "performing" /\ pc'[e] = "release"
    BY <1>7, <1>t DEF AddCaptureWithProvenance
  <2>2. Admission!Moves(Peer(e), "capturing", "ending")
    BY <2>1, <1>p, MovesSlot
  <2>3. CASE o = "captured"
    <3>1. startedAt[e] \in 0..now /\ Cool(Peer(e), startedAt[e])
      BY <2>1 DEF IInv, Placed, Cooled, TypeOK, Times
    <3>2. lastCapture' = [lastCapture EXCEPT ![Peer(e)] = startedAt[e]]
      BY <1>7, <2>3 DEF AddCaptureWithProvenance
    <3>3. Admission!Succeeds(Peer(e))
      BY <2>2, <3>1, <3>2 DEF Admission!Succeeds, Cool
    <3> QED BY <1>p, <2>1, <3>3 DEF Admission!ANext
  <2>4. CASE o # "captured"
    <3>1. UNCHANGED lastCapture
      BY <1>7, <2>4 DEF AddCaptureWithProvenance
    <3> QED BY <1>p, <2>1, <2>2, <3>1 DEF Admission!ANext, Admission!Fails
  <2> QED BY <2>3, <2>4
<1>8. CASE ReleaseInFlight(e)
  <2>1. /\ pc[e] = "release" /\ pc'[e] = "done"
        /\ UNCHANGED lastCapture
    BY <1>8, <1>t DEF ReleaseInFlight
  <2>2. Admission!Moves(Peer(e), "ending", "free")
    BY <2>1, <1>p, MovesSlot
  <2> QED BY <1>p, <2>1, <2>2 DEF Admission!ANext, Admission!Releases
<1> QED BY <1>1, <1>2, <1>3, <1>4, <1>5, <1>6, <1>7, <1>8 DEF Step

(* The goroutine of e neither takes nor gives back a peer. *)
Quiet(e) ==
    \/ pc'[e] = pc[e] /\ from'[e] = from[e]
    \/ pc[e] \notin Holding /\ pc'[e] \notin Holding

LEMMA QuietStutters ==
    ASSUME \A e \in Events : Quiet(e), UNCHANGED lastCapture
    PROVE  UNCHANGED <<Slots, lastCapture>>
<1>1. ASSUME NEW p \in Peers, NEW lines \in SUBSET Holding
      PROVE  HeldAt(p, lines)' <=> HeldAt(p, lines)
  <2>1. ASSUME NEW e \in Events
        PROVE  (from'[e] # None /\ Peer(e)' = p /\ pc'[e] \in lines)
               <=> (from[e] # None /\ Peer(e) = p /\ pc[e] \in lines)
    BY DEF Quiet, Peer
  <2> QED BY <2>1 DEF HeldAt
<1>2. ASSUME NEW p \in Peers PROVE Slot(p)' = Slot(p)
  <2>1. HeldAt(p, {"performing"})' <=> HeldAt(p, {"performing"})
    BY <1>1 DEF Holding
  <2>2. HeldAt(p, {"release"})' <=> HeldAt(p, {"release"})
    BY <1>1 DEF Holding
  <2>3. HeldAt(p, Holding \ {"performing", "release"})'
          <=> HeldAt(p, Holding \ {"performing", "release"})
    BY <1>1
  <2> QED BY <2>1, <2>2, <2>3 DEF Slot
<1> QED BY <1>2 DEF Slots

LEMMA NextSimulates ==
    ASSUME IInv, IInv', [Next]_vars
    PROVE  [Admission!ANext]_(Admission!avars)
<1>1. CASE Tick
  <2>1. /\ \A e \in Events : Quiet(e)
        /\ UNCHANGED lastCapture /\ now' = now + 1
    BY <1>1 DEF Tick, tracking, store, Quiet
  <2>2. UNCHANGED <<Slots, lastCapture>>
    BY <2>1, QuietStutters
  <2> QED BY <2>1, <2>2 DEF Admission!ANext, Admission!Passes, Slots
<1>2. CASE \/ EnableRetention \/ SetDiagCapture \/ Idle \/ UNCHANGED vars
           \/ \E t \in Trackers : DetectSpike(t)
  <2>1. /\ \A e \in Events : Quiet(e)
        /\ UNCHANGED <<now, lastCapture>>
    <3>1. CASE EnableRetention
      <4>1. /\ pc' = [e \in Events |-> IF pc[e] \in Recording
                                       THEN "into_old" ELSE pc[e]]
            /\ UNCHANGED <<now, from, lastCapture>>
        BY <3>1 DEF EnableRetention, store
      <4> QED BY <4>1 DEF Quiet, Recording, Holding
    <3>2. CASE SetDiagCapture \/ Idle \/ UNCHANGED vars
      BY <3>2 DEF SetDiagCapture, Idle, vars, tracking, store, Quiet
    <3>3. ASSUME NEW t \in Trackers, DetectSpike(t)
          PROVE  (\A e \in Events : Quiet(e)) /\ UNCHANGED <<now, lastCapture>>
      <4>1. PICK e \in Events :
               /\ pc[e] = "none" /\ pc'[e] \in Recording
               /\ from' = [from EXCEPT ![e] = t]
               /\ \A d \in Events \ {e} : pc'[d] = pc[d]
               /\ UNCHANGED <<now, lastCapture>>
        BY <3>3, ZenonT(60) DEF DetectSpike, Goto, Recording, IInv, TypeOK, store
      <4> QED BY <4>1 DEF Quiet, Recording, Holding, IInv, TypeOK
    <3> QED BY <1>2, <3>1, <3>2, <3>3
  <2>2. UNCHANGED <<Slots, lastCapture>>
    BY <2>1, QuietStutters
  <2> QED BY <2>1, <2>2 DEF Admission!avars, Slots
<1>3. ASSUME NEW e \in Events, Step(e)
      PROVE  [Admission!ANext]_(Admission!avars)
  BY <1>3, StepSimulates
<1> QED BY <1>1, <1>2, <1>3 DEF Next

(* The service, with all its goroutines, locks and maps, implements the    *)
(* admission of captures that CaptureAdmission states: exclusive per peer, *)
(* never within the cooldown of a success that stands, times only forward. *)
THEOREM ImplementsAdmission == Spec => AdmissionKept
<1>1. Init => Admission!AInit
  <2> SUFFICES ASSUME Init PROVE Admission!AInit
    OBVIOUS
  <2>1. \A p \in Peers : Slot(p) = "free"
    BY DEF Init, Slot, HeldAt, Holding
  <2> QED BY <2>1 DEF Init, Admission!AInit
<1>2. IInv /\ IInv' /\ [Next]_vars => [Admission!ANext]_(Admission!avars)
  BY NextSimulates
<1> QED BY <1>1, <1>2, Inductive, PTL DEF Spec, AdmissionKept, Admission!ASpec

(***************************************************************************)
(* The timeline.  A suppression stays justified because the spike it names *)
(* cannot be evicted any more: it has a successful capture, so no          *)
(* goroutine chooses it, and the validator, which waits for the tracker's  *)
(* lock, saw it when no goroutine had chosen it before.                    *)
(***************************************************************************)
Safe(a) ==
    /\ a \in Events
    /\ Retained(a)
    /\ record[a] = "captured"
    /\ \A e \in Events : victim[e] # a

WiredFirst ==
    \A e \in Events :
        \/ /\ pc[e] \notin {"trigger", "reserve", "record_suppressed"} \cup Holding
           /\ record[e] # "captured"
        \/ phase = "wired"

TimelinePlaced ==
    /\ \A t \in Trackers : \A e \in events[t] : from[e] = t
    /\ \A e \in Events : victim[e] # None =>
          pc[e] = "append" /\ from[victim[e]] = from[e]

AnchorCaptured ==
    /\ \A e \in Events : record[e] # None =>
          pc[e] \in {"release", "done"}
    /\ \A p \in Peers :
          /\ lastCapture[p] # None => lastAnchor[p] # None
          /\ lastAnchor[p] # None => record[lastAnchor[p]] = "captured"

(* A goroutine that relies on its anchor, and one that has relied on it. *)
Relies(e) ==
    pc[e] \in {"captures", "turn_away", "record_suppressed"}
        \/ record[e] = "suppressed"

JustifiedSafe ==
    \A e \in Events :
        /\ Relies(e) => Safe(seenAnchor[e])
        /\ pc[e] = "spikes" =>
              /\ seenAnchor[e] \in Events
              /\ record[seenAnchor[e]] = "captured"
        /\ pc[e] = "clear" =>
              /\ seenAnchor[e] \in Events
              /\ record[seenAnchor[e]] = "captured"
              /\ ~Retained(seenAnchor[e])

RInv == WiredFirst /\ TimelinePlaced /\ AnchorCaptured /\ JustifiedSafe

LEMMA InitRInv == Init => RInv
<1> SUFFICES ASSUME Init PROVE RInv
  OBVIOUS
<1>1. WiredFirst
  BY DEF Init, WiredFirst, Holding, Records
<1>2. TimelinePlaced
  BY DEF Init, TimelinePlaced
<1>3. AnchorCaptured
  BY DEF Init, AnchorCaptured, Records
<1>4. JustifiedSafe
  BY DEF Init, JustifiedSafe, Relies, Records
<1> QED BY <1>1, <1>2, <1>3, <1>4 DEF RInv

LEMMA StepWiredFirst ==
    ASSUME IInv, RInv, NEW e \in Events, Step(e)
    PROVE  WiredFirst'
<1> USE DEF IInv, TypeOK, RInv, WiredFirst, Goto, Holding, Recording,
            tracking, locals, store
<1>1. CASE PickVictim(e)
  BY <1>1 DEF PickVictim
<1>2. CASE AppendSpike(e)
  BY <1>2 DEF AppendSpike
<1>3. CASE AppendToOld(e)
  BY <1>3 DEF AppendToOld
<1>4. CASE RecordNoPeerMapping(e)
  BY <1>4 DEF RecordNoPeerMapping
<1>5. CASE ReadClock(e)
  BY <1>5 DEF ReadClock
<1>6. CASE ReserveInFlight(e)
  BY <1>6 DEF ReserveInFlight
<1>7. CASE RecordSuppressedInFlight(e)
  BY <1>7 DEF RecordSuppressedInFlight
<1>8. CASE SnapshotCooldown(e)
  BY <1>8 DEF SnapshotCooldown
<1>9. CASE FindAnchorSpike(e)
  BY <1>9 DEF FindAnchorSpike
<1>10. CASE CheckAnchorCapture(e)
  BY <1>10 DEF CheckAnchorCapture
<1>11. CASE ClearCooldownIfSame(e)
  BY <1>11 DEF ClearCooldownIfSame
<1>12. CASE ReleaseSuppressed(e)
  BY <1>12 DEF ReleaseSuppressed
<1>13. CASE RecordSuppressedCooldown(e)
  BY <1>13 DEF RecordSuppressedCooldown
<1>14. CASE StartCapture(e)
  BY <1>14 DEF StartCapture
<1>15. CASE ReleaseInFlight(e)
  BY <1>15 DEF ReleaseInFlight
<1>16. ASSUME NEW o \in {"captured", "bare", "failed"},
            AddCaptureWithProvenance(e, o)
     PROVE  WiredFirst'
  BY <1>16 DEF AddCaptureWithProvenance
<1> QED BY <1>1, <1>2, <1>3, <1>4, <1>5, <1>6, <1>7, <1>8, <1>9, <1>10, <1>11, <1>12, <1>13, <1>14, <1>15, <1>16 DEF Step

LEMMA StepTimeline ==
    ASSUME IInv, RInv, NEW e \in Events, Step(e)
    PROVE  TimelinePlaced'
<1> USE DEF IInv, TypeOK, RInv, TimelinePlaced, Placed, Goto, Recording,
            tracking, locals, store
<1>1. CASE PickVictim(e)
  BY <1>1 DEF PickVictim, Purgeable
<1>2. CASE AppendSpike(e)
  BY <1>2 DEF AppendSpike
<1>3. CASE AppendToOld(e)
  BY <1>3 DEF AppendToOld
<1>4. CASE RecordNoPeerMapping(e)
  BY <1>4 DEF RecordNoPeerMapping
<1>5. CASE ReadClock(e)
  BY <1>5 DEF ReadClock
<1>6. CASE ReserveInFlight(e)
  BY <1>6 DEF ReserveInFlight
<1>7. CASE RecordSuppressedInFlight(e)
  BY <1>7 DEF RecordSuppressedInFlight
<1>8. CASE SnapshotCooldown(e)
  BY <1>8 DEF SnapshotCooldown
<1>9. CASE FindAnchorSpike(e)
  BY <1>9 DEF FindAnchorSpike
<1>10. CASE CheckAnchorCapture(e)
  BY <1>10 DEF CheckAnchorCapture
<1>11. CASE ClearCooldownIfSame(e)
  BY <1>11 DEF ClearCooldownIfSame
<1>12. CASE ReleaseSuppressed(e)
  BY <1>12 DEF ReleaseSuppressed
<1>13. CASE RecordSuppressedCooldown(e)
  BY <1>13 DEF RecordSuppressedCooldown
<1>14. CASE StartCapture(e)
  BY <1>14 DEF StartCapture
<1>15. CASE ReleaseInFlight(e)
  BY <1>15 DEF ReleaseInFlight
<1>16. ASSUME NEW o \in {"captured", "bare", "failed"},
            AddCaptureWithProvenance(e, o)
     PROVE  TimelinePlaced'
  BY <1>16 DEF AddCaptureWithProvenance
<1> QED BY <1>1, <1>2, <1>3, <1>4, <1>5, <1>6, <1>7, <1>8, <1>9, <1>10, <1>11, <1>12, <1>13, <1>14, <1>15, <1>16 DEF Step

LEMMA StepAnchor ==
    ASSUME IInv, RInv, NEW e \in Events, Step(e)
    PROVE  AnchorCaptured'
<1> USE DEF IInv, TypeOK, RInv, AnchorCaptured, Records, Placed, Goto, Holding, Recording,
            tracking, locals, store
<1>1. CASE PickVictim(e)
  BY <1>1 DEF PickVictim
<1>2. CASE AppendSpike(e)
  BY <1>2 DEF AppendSpike
<1>3. CASE AppendToOld(e)
  BY <1>3 DEF AppendToOld
<1>4. CASE RecordNoPeerMapping(e)
  BY <1>4 DEF RecordNoPeerMapping
<1>5. CASE ReadClock(e)
  BY <1>5 DEF ReadClock
<1>6. CASE ReserveInFlight(e)
  BY <1>6 DEF ReserveInFlight
<1>7. CASE RecordSuppressedInFlight(e)
  BY <1>7 DEF RecordSuppressedInFlight
<1>8. CASE SnapshotCooldown(e)
  BY <1>8 DEF SnapshotCooldown
<1>9. CASE FindAnchorSpike(e)
  BY <1>9 DEF FindAnchorSpike
<1>10. CASE CheckAnchorCapture(e)
  BY <1>10 DEF CheckAnchorCapture
<1>11. CASE ClearCooldownIfSame(e)
  BY <1>11 DEF ClearCooldownIfSame
<1>12. CASE ReleaseSuppressed(e)
  BY <1>12 DEF ReleaseSuppressed
<1>13. CASE RecordSuppressedCooldown(e)
  BY <1>13 DEF RecordSuppressedCooldown
<1>14. CASE StartCapture(e)
  BY <1>14 DEF StartCapture
<1>15. CASE ReleaseInFlight(e)
  BY <1>15 DEF ReleaseInFlight
<1>16. ASSUME NEW o \in {"captured", "bare", "failed"},
            AddCaptureWithProvenance(e, o)
     PROVE  AnchorCaptured'
  <2>1. /\ pc[e] = "performing" /\ Peer(e) \in Peers
        /\ startedAt[e] \in Nat
    BY <1>16 DEF AddCaptureWithProvenance
  <2>2. record[e] # "captured"
    BY <2>1
  <2>3. /\ pc' = [pc EXCEPT ![e] = "release"]
        /\ record' = [record EXCEPT ![e] = o]
    BY <1>16 DEF AddCaptureWithProvenance
  <2>4. CASE o = "captured"
    <3>1. /\ lastCapture' = [lastCapture EXCEPT ![Peer(e)] = startedAt[e]]
          /\ lastAnchor' = [lastAnchor EXCEPT ![Peer(e)] = e]
      BY <1>16, <2>4 DEF AddCaptureWithProvenance
    <3>2. \A p \in Peers \ {Peer(e)} :
             lastCapture'[p] = lastCapture[p] /\ lastAnchor'[p] = lastAnchor[p]
      BY <3>1
    <3>3. lastAnchor'[Peer(e)] = e /\ e # None /\ record'[e] = "captured"
      BY <3>1, <2>1, <2>3, <2>4 DEF Events
    <3>4. \A p \in Peers \ {Peer(e)} :
             lastAnchor[p] # None =>
                record'[lastAnchor[p]] = "captured"
      BY <2>2, <2>3
    <3>5. \A d \in Events : record'[d] # None => pc'[d] \in {"release", "done"}
      BY <2>3
    <3>6. \A p \in Peers :
             /\ lastCapture'[p] # None => lastAnchor'[p] # None
             /\ lastAnchor'[p] # None => record'[lastAnchor'[p]] = "captured"
      BY <3>2, <3>3, <3>4
    <3> QED BY <3>5, <3>6
  <2>5. CASE o # "captured"
    <3>1. UNCHANGED <<lastCapture, lastAnchor>>
      BY <1>16, <2>5 DEF AddCaptureWithProvenance
    <3> QED BY <2>2, <2>3, <3>1
  <2> QED BY <2>4, <2>5
<1> QED BY <1>1, <1>2, <1>3, <1>4, <1>5, <1>6, <1>7, <1>8, <1>9, <1>10, <1>11, <1>12, <1>13, <1>14, <1>15, <1>16 DEF Step

(* What keeps an anchor safe: it stays in its tracker with its capture,    *)
(* and nobody chooses it as the oldest spike to remove.                    *)
LEMMA StepSafe ==
    ASSUME IInv, RInv, NEW e \in Events, Step(e), NEW a \in Events, Safe(a)
    PROVE  Safe(a)'
<1> USE DEF IInv, TypeOK, RInv, Safe, Retained, Placed, Goto, Holding,
            Recording, tracking, locals, store
<1>0. phase = "wired" /\ phase' = phase /\ from' = from
  BY StepFrame DEF WiredFirst, Frame
<1>a. record[a] = "captured" /\ pc[a] \in {"release", "done"}
  BY DEF AnchorCaptured, Records
<1>1. CASE PickVictim(e)
  <2>1. a \notin Purgeable(from[e])
    BY <1>0, <1>a DEF Purgeable, Protected, GetProtectionInfo
  <2>2. victim'[e] # a
    BY <1>1, <2>1 DEF PickVictim
  <2> QED BY <1>0, <1>1, <2>2 DEF PickVictim
<1>2. CASE AppendSpike(e)
  <2>1. \A d \in Events : victim'[d] # a
    BY <1>2, NoneAssumption DEF AppendSpike, Events
  <2>2. a \in events'[from[a]]
    BY <1>2 DEF AppendSpike
  <2> QED BY <1>0, <1>2, <2>1, <2>2 DEF AppendSpike
<1>3. CASE AppendToOld(e)
  BY <1>3 DEF AppendToOld
<1>4. CASE RecordNoPeerMapping(e)
  BY <1>4, <1>a DEF RecordNoPeerMapping
<1>5. CASE ReadClock(e)
  BY <1>5 DEF ReadClock
<1>6. CASE ReserveInFlight(e)
  BY <1>6 DEF ReserveInFlight
<1>7. CASE RecordSuppressedInFlight(e)
  BY <1>7, <1>a DEF RecordSuppressedInFlight
<1>8. CASE SnapshotCooldown(e)
  BY <1>8 DEF SnapshotCooldown
<1>9. CASE FindAnchorSpike(e)
  BY <1>9 DEF FindAnchorSpike
<1>10. CASE CheckAnchorCapture(e)
  BY <1>10 DEF CheckAnchorCapture
<1>11. CASE ClearCooldownIfSame(e)
  BY <1>11 DEF ClearCooldownIfSame
<1>12. CASE ReleaseSuppressed(e)
  BY <1>12 DEF ReleaseSuppressed
<1>13. CASE RecordSuppressedCooldown(e)
  BY <1>13, <1>a DEF RecordSuppressedCooldown
<1>14. CASE StartCapture(e)
  BY <1>14 DEF StartCapture
<1>15. CASE ReleaseInFlight(e)
  BY <1>15 DEF ReleaseInFlight
<1>16. ASSUME NEW o \in {"captured", "bare", "failed"},
            AddCaptureWithProvenance(e, o)
     PROVE  Safe(a)'
  <2>1. pc[e] = "performing" /\ UNCHANGED <<events, from, victim>>
        /\ record' = [record EXCEPT ![e] = o]
    BY <1>16 DEF AddCaptureWithProvenance
  <2> QED BY <2>1, <1>a
<1> QED BY <1>1, <1>2, <1>3, <1>4, <1>5, <1>6, <1>7, <1>8, <1>9, <1>10, <1>11, <1>12, <1>13, <1>14, <1>15, <1>16 DEF Step

(* A spike whose capture was a success and that has left its tracker does  *)
(* not come back.                                                          *)
LEMMA StepGone ==
    ASSUME IInv, RInv, NEW e \in Events, Step(e), NEW a \in Events,
           record[a] = "captured"
    PROVE  record'[a] = "captured" /\ (~Retained(a) => ~Retained(a)')
<1> USE DEF IInv, TypeOK, RInv, Retained, Placed, Goto, Holding,
            Recording, tracking, locals, store
<1>0. from' = from
  BY StepFrame DEF Frame
<1>a. record[a] = "captured" /\ pc[a] \in {"release", "done"}
  BY DEF AnchorCaptured, Records
<1>1. CASE PickVictim(e)
  BY <1>0, <1>1 DEF PickVictim
<1>2. CASE AppendSpike(e)
  <2>1. a # e
    BY <1>2, <1>a DEF AppendSpike
  <2>2. from[e] \in Trackers /\ from[a] \in Trackers
    BY <1>2, <1>a DEF AppendSpike
  <2>3. a \in events'[from[a]] => a \in events[from[a]]
    BY <1>2, <2>1, <2>2 DEF AppendSpike
  <2> QED BY <1>0, <1>2, <2>3 DEF AppendSpike
<1>3. CASE AppendToOld(e)
  BY <1>3 DEF AppendToOld
<1>4. CASE RecordNoPeerMapping(e)
  BY <1>4, <1>a DEF RecordNoPeerMapping
<1>5. CASE ReadClock(e)
  BY <1>5 DEF ReadClock
<1>6. CASE ReserveInFlight(e)
  BY <1>6 DEF ReserveInFlight
<1>7. CASE RecordSuppressedInFlight(e)
  BY <1>7, <1>a DEF RecordSuppressedInFlight
<1>8. CASE SnapshotCooldown(e)
  BY <1>8 DEF SnapshotCooldown
<1>9. CASE FindAnchorSpike(e)
  BY <1>9 DEF FindAnchorSpike
<1>10. CASE CheckAnchorCapture(e)
  BY <1>10 DEF CheckAnchorCapture
<1>11. CASE ClearCooldownIfSame(e)
  BY <1>11 DEF ClearCooldownIfSame
<1>12. CASE ReleaseSuppressed(e)
  BY <1>12 DEF ReleaseSuppressed
<1>13. CASE RecordSuppressedCooldown(e)
  BY <1>13, <1>a DEF RecordSuppressedCooldown
<1>14. CASE StartCapture(e)
  BY <1>14 DEF StartCapture
<1>15. CASE ReleaseInFlight(e)
  BY <1>15 DEF ReleaseInFlight
<1>16. ASSUME NEW o \in {"captured", "bare", "failed"},
            AddCaptureWithProvenance(e, o)
     PROVE  record'[a] = "captured" /\ (~Retained(a) => ~Retained(a)')
  <2>1. pc[e] = "performing" /\ UNCHANGED <<events, from, victim>>
        /\ record' = [record EXCEPT ![e] = o]
    BY <1>16 DEF AddCaptureWithProvenance
  <2> QED BY <2>1, <1>a
<1> QED BY <1>1, <1>2, <1>3, <1>4, <1>5, <1>6, <1>7, <1>8, <1>9, <1>10, <1>11, <1>12, <1>13, <1>14, <1>15, <1>16 DEF Step

(* The goroutine that moves keeps its own promise. *)
JustifiedOne(e) ==
    /\ Relies(e) => Safe(seenAnchor[e])
    /\ pc[e] = "spikes" =>
          /\ seenAnchor[e] \in Events
          /\ record[seenAnchor[e]] = "captured"
    /\ pc[e] = "clear" =>
          /\ seenAnchor[e] \in Events
          /\ record[seenAnchor[e]] = "captured"
          /\ ~Retained(seenAnchor[e])

LEMMA StepJustifiedOne ==
    ASSUME IInv, RInv, NEW e \in Events, Step(e)
    PROVE  JustifiedOne(e)'
<1> USE DEF IInv, TypeOK, RInv, JustifiedSafe, JustifiedOne, Relies, Placed,
            Goto, Holding, Recording, tracking, locals, store
<1>0. ASSUME Safe(seenAnchor[e]) PROVE Safe(seenAnchor[e])'
      \/ seenAnchor'[e] # seenAnchor[e]
  <2>1. \A a \in Events : Safe(a) => Safe(a)'
    BY StepSafe
  <2>2. CASE seenAnchor'[e] = seenAnchor[e]
    BY <1>0, <2>1, <2>2 DEF Safe, Retained
  <2> QED BY <2>2
<1>a. pc[e] \notin {"release", "done"} => record[e] = None
  BY DEF AnchorCaptured
<1>b. None # "suppressed" /\ None # "captured"
  BY DEF Records
<1>1. CASE PickVictim(e)
  BY <1>1, <1>0, <1>a, <1>b DEF PickVictim
<1>2. CASE AppendSpike(e)
  BY <1>2, <1>0, <1>a, <1>b DEF AppendSpike
<1>3. CASE AppendToOld(e)
  BY <1>3, <1>0, <1>a, <1>b DEF AppendToOld
<1>4. CASE RecordNoPeerMapping(e)
  BY <1>4, <1>0, <1>a, <1>b DEF RecordNoPeerMapping
<1>5. CASE ReadClock(e)
  BY <1>5, <1>0, <1>a, <1>b DEF ReadClock
<1>6. CASE ReserveInFlight(e)
  BY <1>6, <1>0, <1>a, <1>b DEF ReserveInFlight
<1>7. CASE RecordSuppressedInFlight(e)
  BY <1>7, <1>0, <1>a, <1>b DEF RecordSuppressedInFlight
<1>8. CASE SnapshotCooldown(e)
  <2>1. Peer(e) \in Peers
    BY <1>8 DEF SnapshotCooldown
  <2>0. record'[e] # "suppressed"
    BY <1>8, <1>a, <1>b DEF SnapshotCooldown
  <2>2. CASE lastCapture[Peer(e)] = None
    <3>1. pc'[e] = "capture"
      BY <1>8, <2>2 DEF SnapshotCooldown
    <3> QED BY <2>0, <3>1
  <2>3. CASE lastCapture[Peer(e)] # None
    <3>1. /\ lastAnchor[Peer(e)] \in Events
          /\ record[lastAnchor[Peer(e)]] = "captured"
      BY <2>1, <2>3 DEF AnchorCaptured
    <3>2. /\ pc' = [pc EXCEPT ![e] = "spikes"] /\ record' = record
          /\ seenAnchor' = [seenAnchor EXCEPT ![e] = lastAnchor[Peer(e)]]
      BY <1>8, <2>3 DEF SnapshotCooldown
    <3>3. pc'[e] = "spikes" /\ seenAnchor'[e] = lastAnchor[Peer(e)]
      BY <3>2
    <3> QED BY <2>0, <3>1, <3>2, <3>3
  <2> QED BY <2>2, <2>3
<1>9. CASE FindAnchorSpike(e)
  <2>1. /\ pc[e] = "spikes" /\ UNCHANGED <<tracking, locals, store>>
        /\ ~Locked(from[seenAnchor[e]])
        /\ pc' = [pc EXCEPT ![e] = IF Retained(seenAnchor[e])
                                   THEN "captures" ELSE "clear"]
    BY <1>9 DEF FindAnchorSpike
  <2>2. /\ seenAnchor[e] \in Events
        /\ record[seenAnchor[e]] = "captured"
    BY <2>1
  <2>3. \A d \in Events : victim[d] # seenAnchor[e]
    <3> SUFFICES ASSUME NEW d \in Events, victim[d] = seenAnchor[e] PROVE FALSE
      OBVIOUS
    <3>1. victim[d] # None
      BY <2>2 DEF Events
    <3>2. pc[d] = "append" /\ from[d] = from[seenAnchor[e]]
      BY <3>1 DEF TimelinePlaced
    <3> QED BY <2>1, <3>2 DEF Locked
  <2>0. record'[e] # "suppressed"
    BY <2>1, <1>a, <1>b
  <2>4. CASE Retained(seenAnchor[e])
    <3>1. Safe(seenAnchor[e]) /\ pc'[e] = "captures"
      BY <2>1, <2>2, <2>3, <2>4 DEF Safe
    <3>2. Safe(seenAnchor[e])'
      BY <2>1, <3>1 DEF Safe, Retained
    <3> QED BY <3>1, <3>2
  <2>5. CASE ~Retained(seenAnchor[e])
    <3>1. pc'[e] = "clear" /\ ~Retained(seenAnchor[e])'
      BY <2>1, <2>5 DEF Retained
    <3>2. seenAnchor'[e] \in Events /\ record'[seenAnchor'[e]] = "captured"
      BY <2>1, <2>2
    <3> QED BY <2>0, <3>1, <3>2
  <2> QED BY <2>4, <2>5
<1>10. CASE CheckAnchorCapture(e)
  <2>1. Safe(seenAnchor[e]) /\ pc[e] = "captures"
    BY <1>10 DEF CheckAnchorCapture
  <2>0. record[seenAnchor[e]] = "captured" /\ seenAnchor[e] \in Events
    BY <2>1 DEF Safe
  <2>2. /\ UNCHANGED <<tracking, store>>
        /\ \/ pc'[e] = "capture"
           \/ pc'[e] = "turn_away" /\ UNCHANGED seenAnchor
    BY <1>10, <2>0 DEF CheckAnchorCapture, ForgetLocals
  <2>3. record'[e] # "suppressed"
    BY <2>1, <2>2, <1>a, <1>b
  <2>4. pc'[e] = "turn_away" => Safe(seenAnchor[e])'
    BY <2>1, <2>2 DEF Safe, Retained
  <2> QED BY <2>2, <2>3, <2>4
<1>11. CASE ClearCooldownIfSame(e)
  BY <1>11, <1>0, <1>a, <1>b DEF ClearCooldownIfSame
<1>12. CASE ReleaseSuppressed(e)
  BY <1>12, <1>0, <1>a, <1>b DEF ReleaseSuppressed
<1>13. CASE RecordSuppressedCooldown(e)
  BY <1>13, <1>0, <1>a, <1>b DEF RecordSuppressedCooldown
<1>14. CASE StartCapture(e)
  BY <1>14, <1>0, <1>a, <1>b DEF StartCapture
<1>15. CASE ReleaseInFlight(e)
  BY <1>15, <1>0, <1>a, <1>b DEF ReleaseInFlight
<1>16. ASSUME NEW o \in {"captured", "bare", "failed"},
            AddCaptureWithProvenance(e, o)
     PROVE  JustifiedOne(e)'
  <2>1. pc'[e] = "release" /\ record'[e] = o
    BY <1>16 DEF AddCaptureWithProvenance
  <2> QED BY <2>1
<1> QED BY <1>1, <1>2, <1>3, <1>4, <1>5, <1>6, <1>7, <1>8, <1>9, <1>10, <1>11, <1>12, <1>13, <1>14, <1>15, <1>16 DEF Step

LEMMA StepJustified ==
    ASSUME IInv, RInv, NEW e \in Events, Step(e)
    PROVE  JustifiedSafe'
<1>1. JustifiedOne(e)'
  BY StepJustifiedOne
<1>2. ASSUME NEW d \in Events \ {e} PROVE JustifiedOne(d)'
  <2>1. /\ pc'[d] = pc[d] /\ seenAnchor'[d] = seenAnchor[d]
        /\ record'[d] = record[d]
    BY StepFrame DEF Frame, IInv
  <2>2. JustifiedOne(d)
    BY DEF RInv, JustifiedSafe, JustifiedOne
  <2>3. \A a \in Events : Safe(a) => Safe(a)'
    BY StepSafe
  <2>4. \A a \in Events : record[a] = "captured" =>
           record'[a] = "captured" /\ (~Retained(a) => ~Retained(a)')
    BY StepGone
  <2>5. Relies(d)' => Relies(d)
    BY <2>1 DEF Relies
  <2>6. Relies(d)' => Safe(seenAnchor[d])'
    <3>1. Relies(d)' => Safe(seenAnchor[d]) /\ seenAnchor[d] \in Events
      BY <2>2, <2>5 DEF JustifiedOne, Safe
    <3> QED BY <2>1, <2>3, <3>1 DEF Safe, Retained
  <2>7. pc'[d] = "spikes" =>
           seenAnchor'[d] \in Events /\ record'[seenAnchor'[d]] = "captured"
    BY <2>1, <2>2, <2>4 DEF JustifiedOne
  <2>8. pc'[d] = "clear" =>
           /\ seenAnchor'[d] \in Events /\ record'[seenAnchor'[d]] = "captured"
           /\ ~Retained(seenAnchor[d])'
    <3>1. pc'[d] = "clear" =>
             /\ seenAnchor[d] \in Events /\ record[seenAnchor[d]] = "captured"
             /\ ~Retained(seenAnchor[d])
      BY <2>1, <2>2 DEF JustifiedOne
    <3> QED BY <2>1, <2>4, <3>1 DEF Retained
  <2> QED BY <2>6, <2>7, <2>8 DEF JustifiedOne
<1> QED BY <1>1, <1>2 DEF JustifiedSafe, JustifiedOne

LEMMA NextRInv == IInv /\ RInv /\ [Next]_vars => RInv'
<1> SUFFICES ASSUME IInv, RInv, [Next]_vars PROVE RInv'
  OBVIOUS
<1> USE DEF RInv
<1>1. ASSUME UNCHANGED <<phase, pc, tracking, locals, store>> PROVE RInv'
  <2>1. WiredFirst'
    BY <1>1 DEF WiredFirst, store
  <2>2. TimelinePlaced'
    BY <1>1 DEF TimelinePlaced, tracking
  <2>3. AnchorCaptured'
    BY <1>1 DEF AnchorCaptured, store
  <2>4. JustifiedSafe'
    BY <1>1 DEF JustifiedSafe, Relies, Safe, Retained, tracking, locals, store
  <2> QED BY <2>1, <2>2, <2>3, <2>4
<1>2. CASE Tick \/ Idle \/ UNCHANGED vars
  BY <1>1, <1>2 DEF Tick, Idle, vars
<1>3. CASE EnableRetention
  <2>1. /\ \A e \in Events : (pc'[e] = pc[e]) \/
                              (pc[e] \in Recording /\ pc'[e] = "into_old")
        /\ phase = "probing"
        /\ \A e \in Events : victim'[e] = None
        /\ \A t \in Trackers : events'[t] = {}
        /\ UNCHANGED <<now, from, locals, store>>
    BY <1>3 DEF EnableRetention
  <2>2. \A e \in Events : record[e] # "captured"
    BY <2>1 DEF WiredFirst
  <2>3. WiredFirst'
    BY <2>1, <2>2 DEF WiredFirst, Recording, Holding, store
  <2>4. TimelinePlaced'
    BY <2>1 DEF TimelinePlaced
  <2>5. AnchorCaptured'
    BY <2>1 DEF AnchorCaptured, Recording, store
  <2>6. \A e \in Events : ~Relies(e) /\ pc[e] \notin {"spikes", "clear"}
    BY <2>1, <2>2 DEF JustifiedSafe, Safe, WiredFirst, Holding
  <2>7. JustifiedSafe'
    BY <2>1, <2>6 DEF JustifiedSafe, Relies, Recording, store
  <2> QED BY <2>3, <2>4, <2>5, <2>7
<1>4. CASE SetDiagCapture
  <2>1. UNCHANGED <<pc, tracking, locals, store>> /\ phase' = "wired"
    BY <1>4 DEF SetDiagCapture
  <2>2. WiredFirst'
    BY <2>1 DEF WiredFirst
  <2>3. TimelinePlaced'
    BY <2>1 DEF TimelinePlaced, tracking
  <2>4. AnchorCaptured'
    BY <2>1 DEF AnchorCaptured, store
  <2>5. JustifiedSafe'
    BY <2>1 DEF JustifiedSafe, Relies, Safe, Retained, tracking, locals, store
  <2> QED BY <2>2, <2>3, <2>4, <2>5
<1>5. ASSUME NEW t \in Trackers, DetectSpike(t) PROVE RInv'
  <2>1. PICK e \in Events :
           /\ from[e] = None /\ pc[e] = "none"
           /\ from' = [from EXCEPT ![e] = t]
           /\ pc'[e] \in Recording
           /\ \A d \in Events \ {e} : pc'[d] = pc[d]
           /\ UNCHANGED <<phase, events, victim, locals, store>>
    <3>1. PICK e \in Events :
             /\ \A d \in Events : (from[d] = None) <=> (d >= e)
             /\ Goto(e, "none", IF Cardinality(Purgeable(t)) >= MaxEventsPerTracker
                                THEN "pick" ELSE "append")
             /\ from' = [from EXCEPT ![e] = t]
      BY <1>5 DEF DetectSpike
    <3>2. from[e] = None
      BY <3>1 DEF Events
    <3>3. pc[e] = "none" /\ pc'[e] \in Recording
          /\ \A d \in Events \ {e} : pc'[d] = pc[d]
      BY <3>1 DEF Goto, Recording, IInv, TypeOK
    <3> QED BY <1>5, <3>1, <3>2, <3>3 DEF DetectSpike
  <2>2. \A d \in Events \ {e} : from'[d] = from[d]
    BY <2>1 DEF IInv, TypeOK
  <2>3. record[e] # "captured" /\ record[e] = None
    BY <2>1 DEF AnchorCaptured, Records
  <2>4. WiredFirst'
    BY <2>1, <2>3 DEF WiredFirst, Recording, Holding, store
  <2>5. \A u \in Trackers : e \notin events[u]
    BY <2>1 DEF TimelinePlaced
  <2>6. \A d \in Events : victim[d] # e
    <3>1. \A d \in Events : victim[d] = e => from[d] = None /\ pc[d] = "append"
      BY <2>1, NoneAssumption DEF TimelinePlaced, Events
    <3> QED BY <3>1 DEF IInv, Placed
  <2>7. TimelinePlaced'
    <3>1. \A u \in Trackers : \A d \in events'[u] : from'[d] = u
      BY <2>1, <2>2, <2>5 DEF TimelinePlaced, IInv, TypeOK
    <3>2. \A d \in Events : victim'[d] # None =>
             pc'[d] = "append" /\ from'[victim'[d]] = from'[d]
      BY <2>1, <2>2, <2>6 DEF TimelinePlaced, IInv, TypeOK
    <3> QED BY <3>1, <3>2 DEF TimelinePlaced
  <2>8. AnchorCaptured'
    BY <2>1, <2>3 DEF AnchorCaptured, store
  <2>9. \A a \in Events : record[a] = "captured" =>
           a # e /\ (Retained(a)' <=> Retained(a))
    BY <2>1, <2>2, <2>3 DEF Retained
  <2>10. \A a \in Events : Safe(a) => Safe(a)'
    BY <2>1, <2>9 DEF Safe, Retained, store
  <2>11. JustifiedSafe'
    <3> SUFFICES ASSUME NEW d \in Events PROVE JustifiedOne(d)'
      BY DEF JustifiedSafe, JustifiedOne
    <3>1. CASE d = e
      BY <2>1, <2>3, <3>1 DEF JustifiedOne, Relies, Recording, Records, store
    <3>2. CASE d # e
      <4>1. JustifiedOne(d)
        BY DEF JustifiedSafe, JustifiedOne
      <4>2. pc'[d] = pc[d] /\ seenAnchor' = seenAnchor /\ record' = record
        BY <2>1, <3>2 DEF locals, store
      <4>3. Relies(d)' => Safe(seenAnchor[d])'
        <5>1. Relies(d)' => Safe(seenAnchor[d]) /\ seenAnchor[d] \in Events
          BY <4>1, <4>2 DEF Relies, JustifiedOne, Safe
        <5> QED BY <2>10, <4>2, <5>1 DEF Safe, Retained
      <4>4. pc'[d] = "clear" => ~Retained(seenAnchor[d])'
        <5>1. pc'[d] = "clear" =>
                 /\ seenAnchor[d] \in Events /\ record[seenAnchor[d]] = "captured"
                 /\ ~Retained(seenAnchor[d])
          BY <4>1, <4>2 DEF JustifiedOne
        <5> QED BY <2>9, <4>2, <5>1 DEF Retained
      <4> QED BY <4>1, <4>2, <4>3, <4>4 DEF JustifiedOne
    <3> QED BY <3>1, <3>2
  <2> QED BY <2>4, <2>7, <2>8, <2>11
<1>6. ASSUME NEW e \in Events, Step(e) PROVE RInv'
  BY <1>6, StepWiredFirst, StepTimeline, StepAnchor, StepJustified
<1> QED BY <1>2, <1>3, <1>4, <1>5, <1>6 DEF Next

LEMMA TimelineInductive == Spec => []RInv
BY InitRInv, NextRInv, Inductive, PTL DEF Spec

(* A suppression names an anchor that is, and stays, in its tracker        *)
(* (cooldown.go:200), for any interleaving of probes, validations and      *)
(* evictions, any cap and any number of targets that share a peer.         *)
THEOREM SuppressionsJustified == Spec => []SuppressionJustified
<1>1. RInv => SuppressionJustified
  BY DEF RInv, JustifiedSafe, Relies, Safe, SuppressionJustified
<1> QED BY <1>1, TimelineInductive, PTL

(* The step that deletes a cooldown is ClearCooldownIfSame, and the anchor *)
(* it compares with is one that has left its tracker.                      *)
LEMMA StepCleared ==
    ASSUME IInv, RInv, NEW e \in Events, Step(e), NEW p \in Peers,
           lastCapture[p] # None, lastCapture'[p] = None
    PROVE  ~Retained(lastAnchor[p])
<1> USE DEF IInv, TypeOK, Goto, store
<1>1. CASE PickVictim(e)
  BY <1>1 DEF PickVictim
<1>2. CASE AppendSpike(e)
  BY <1>2 DEF AppendSpike
<1>3. CASE AppendToOld(e)
  BY <1>3 DEF AppendToOld
<1>4. CASE RecordNoPeerMapping(e)
  BY <1>4 DEF RecordNoPeerMapping
<1>5. CASE ReadClock(e)
  BY <1>5 DEF ReadClock
<1>6. CASE ReserveInFlight(e)
  BY <1>6 DEF ReserveInFlight
<1>7. CASE RecordSuppressedInFlight(e)
  BY <1>7 DEF RecordSuppressedInFlight
<1>8. CASE SnapshotCooldown(e)
  BY <1>8 DEF SnapshotCooldown
<1>9. CASE FindAnchorSpike(e)
  BY <1>9 DEF FindAnchorSpike
<1>10. CASE CheckAnchorCapture(e)
  BY <1>10 DEF CheckAnchorCapture
<1>11. CASE ClearCooldownIfSame(e)
  <2>1. p = Peer(e) /\ lastAnchor[p] = seenAnchor[e] /\ pc[e] = "clear"
    BY <1>11 DEF ClearCooldownIfSame
  <2> QED BY <2>1 DEF RInv, JustifiedSafe
<1>12. CASE ReleaseSuppressed(e)
  BY <1>12 DEF ReleaseSuppressed
<1>13. CASE RecordSuppressedCooldown(e)
  BY <1>13 DEF RecordSuppressedCooldown
<1>14. CASE StartCapture(e)
  BY <1>14 DEF StartCapture
<1>15. CASE ReleaseInFlight(e)
  BY <1>15 DEF ReleaseInFlight
<1>16. ASSUME NEW o \in {"captured", "bare", "failed"},
            AddCaptureWithProvenance(e, o)
     PROVE  ~Retained(lastAnchor[p])
  <2>1. startedAt[e] \in Nat /\ pc[e] = "performing"
    BY <1>16 DEF AddCaptureWithProvenance, Placed
  <2>2. lastCapture'[p] \in {lastCapture[p], startedAt[e]}
    BY <1>16 DEF AddCaptureWithProvenance
  <2> QED BY <2>1, <2>2
<1> QED BY <1>1, <1>2, <1>3, <1>4, <1>5, <1>6, <1>7, <1>8, <1>9, <1>10, <1>11, <1>12, <1>13, <1>14, <1>15, <1>16 DEF Step

(* A peer's cooldown is given up only for an evicted anchor, although the  *)
(* validation ran outside the lock (cooldown_anchor_validation.go:62-75).  *)
THEOREM ClearsOnlyEvicted == Spec => ClearedOnlyEvicted
<1>1. IInv /\ RInv /\ [Next]_vars =>
        [\A p \in Peers :
            (lastCapture[p] # None /\ lastCapture'[p] = None)
            => ~Retained(lastAnchor[p])]_vars
  <2> SUFFICES ASSUME IInv, RInv, [Next]_vars, NEW p \in Peers,
                      lastCapture[p] # None, lastCapture'[p] = None
               PROVE  ~Retained(lastAnchor[p])
    OBVIOUS
  <2>1. CASE \/ Tick \/ Idle \/ EnableRetention \/ SetDiagCapture
             \/ UNCHANGED vars \/ \E t \in Trackers : DetectSpike(t)
    BY <2>1 DEF Tick, Idle, EnableRetention, SetDiagCapture, DetectSpike,
                vars, store
  <2>2. ASSUME NEW e \in Events, Step(e) PROVE ~Retained(lastAnchor[p])
    BY <2>2, StepCleared
  <2> QED BY <2>1, <2>2 DEF Next
<1> QED BY <1>1, Inductive, TimelineInductive, PTL DEF Spec, ClearedOnlyEvicted

(***************************************************************************)
(* The spikes that nothing protects.                                       *)
(***************************************************************************)
(* One goroutine at a time holds a tracker's lock, and when it is about to *)
(* append there is room for its spike, whatever has become protected since *)
(* it counted: a capture that ends can only make room.                     *)
OneRecorder ==
    \A d, e \in Events :
        (d # e /\ pc[d] \in Recording /\ pc[e] \in Recording) => from[d] # from[e]

RoomFor(e) == Cardinality(Purgeable(from[e]) \ {victim[e]}) < Cap

Counted ==
    phase # "probing" =>
        /\ \A t \in Trackers : Cardinality(Purgeable(t)) <= Cap
        /\ \A e \in Events : pc[e] = "append" => RoomFor(e)

CInv == OneRecorder /\ Counted

LEMMA PurgeableFinite ==
    ASSUME TypeOK, NEW t \in Trackers
    PROVE  /\ Purgeable(t) \subseteq Events
           /\ \A S : S \subseteq Purgeable(t) =>
                 /\ IsFiniteSet(S) /\ Cardinality(S) \in Nat
                 /\ Cardinality(S) <= Cardinality(Purgeable(t))
<1>1. Purgeable(t) \subseteq Events
  BY DEF Purgeable, TypeOK
<1>2. IsFiniteSet(Purgeable(t))
  <2>1. IsFiniteSet(Events)
    BY FS_Interval DEF Events
  <2> QED BY <1>1, <2>1, FS_Subset
<1> QED BY <1>1, <1>2, FS_Subset, FS_CardinalityType

(* A record is made once, and no step takes the protection of a spike.     *)
LEMMA ProtectionKept ==
    ASSUME IInv, RInv, NEW e \in Events, Step(e), ~AppendSpike(e)
    PROVE  \A t \in Trackers : Purgeable(t)' \subseteq Purgeable(t)
<1> USE DEF IInv
<1>1. Frame(e)
  BY StepFrame
<1>2. events' = events
  BY DEF Step, PickVictim, AppendToOld, RecordNoPeerMapping, ReadClock,
         ReserveInFlight, RecordSuppressedInFlight, SnapshotCooldown,
         FindAnchorSpike, CheckAnchorCapture, ClearCooldownIfSame,
         ReleaseSuppressed, RecordSuppressedCooldown, StartCapture,
         AddCaptureWithProvenance, ReleaseInFlight, tracking
<1>3. record[e] # None => record' = record
  <2> SUFFICES ASSUME record[e] # None PROVE record' = record
    OBVIOUS
  <2>1. pc[e] \in {"release", "done"}
    BY DEF RInv, AnchorCaptured
  <2> QED
    BY <2>1 DEF Step, PickVictim, AppendToOld, RecordNoPeerMapping, ReadClock,
         ReserveInFlight, RecordSuppressedInFlight, SnapshotCooldown,
         FindAnchorSpike, CheckAnchorCapture, ClearCooldownIfSame,
         ReleaseSuppressed, RecordSuppressedCooldown, StartCapture,
         AddCaptureWithProvenance, ReleaseInFlight, Goto, store
<1>4. \A d \in Events : record[d] \in {"captured", "bare"} => record'[d] = record[d]
  BY <1>1, <1>3 DEF Frame, Records
<1>5. \A d \in Events : Protected(d) => Protected(d)'
  <2>1. \A d \in Events : d \notin inFlight
    BY PeersAssumption DEF TypeOK
  <2> QED BY <1>1, <1>4, <2>1 DEF Protected, GetProtectionInfo, Frame
<1> QED BY <1>2, <1>5 DEF Purgeable, TypeOK

LEMMA StepOneRecorder ==
    ASSUME IInv, OneRecorder, NEW e \in Events, Step(e)
    PROVE  OneRecorder'
<1>1. Frame(e)
  BY StepFrame DEF IInv
<1>2. pc'[e] \in Recording => pc[e] \in Recording
  BY DEF Step, PickVictim, AppendSpike, AppendToOld, RecordNoPeerMapping, ReadClock,
         ReserveInFlight, RecordSuppressedInFlight, SnapshotCooldown,
         FindAnchorSpike, CheckAnchorCapture, ClearCooldownIfSame,
         ReleaseSuppressed, RecordSuppressedCooldown, StartCapture,
         AddCaptureWithProvenance, ReleaseInFlight, Goto, Recording, IInv, TypeOK
<1> QED BY <1>1, <1>2 DEF OneRecorder, Frame

LEMMA StepCounted ==
    ASSUME IInv, RInv, CInv, NEW e \in Events, Step(e)
    PROVE  Counted'
<1> SUFFICES ASSUME phase' # "probing" PROVE Counted'
  BY DEF Counted
<1> USE DEF IInv
<1>1. TypeOK' /\ Frame(e)
  BY TypeStep, StepFrame DEF Next
<1>2. phase # "probing" /\ from' = from
  BY <1>1 DEF Frame
<1>3. /\ \A t \in Trackers : Cardinality(Purgeable(t)) <= Cap
      /\ \A d \in Events : pc[d] = "append" => RoomFor(d)
  BY <1>2 DEF CInv, Counted
<1>4. \A d \in Events : pc[d] # "none" => from[d] \in Trackers
  BY DEF Placed, TypeOK
<1>5. CASE ~AppendSpike(e)
  <2>1. \A t \in Trackers : Purgeable(t)' \subseteq Purgeable(t)
    BY <1>5, ProtectionKept
  <2>2. ASSUME NEW t \in Trackers PROVE Cardinality(Purgeable(t)') <= Cap
    <3>1. /\ Cardinality(Purgeable(t)') <= Cardinality(Purgeable(t))
          /\ Cardinality(Purgeable(t)') \in Nat /\ Cardinality(Purgeable(t)) \in Nat
      BY <2>1, PurgeableFinite
    <3> QED BY <1>3, <3>1
  <2>3. ASSUME NEW d \in Events, pc'[d] = "append" PROVE RoomFor(d)'
    <3>1. PICK t \in Trackers : t = from[d] /\ t = from'[d]
      <4>1. from'[d] # None
        BY <1>1, <2>3, StepIInv DEF Placed
      <4> QED BY <1>2, <4>1 DEF TypeOK
    <3> DEFINE P == Purgeable(t)
               Q == Purgeable(t)'
    <3>2. Q \subseteq P
      BY <2>1, <3>1
    <3>3. CASE d # e \/ pc[e] = "append"
      <4>1. pc[d] = "append" /\ victim'[d] = victim[d]
        <5>1. pc[e] # "append"
          BY <1>5 DEF Step, PickVictim, AppendSpike, AppendToOld, RecordNoPeerMapping,
             ReadClock, ReserveInFlight, RecordSuppressedInFlight, SnapshotCooldown,
             FindAnchorSpike, CheckAnchorCapture, ClearCooldownIfSame,
             ReleaseSuppressed, RecordSuppressedCooldown, StartCapture,
             AddCaptureWithProvenance, ReleaseInFlight, Goto
        <5> QED BY <1>1, <2>3, <3>3, <5>1 DEF Frame
      <4>2. Q \ {victim[d]} \subseteq P \ {victim[d]} /\ P \ {victim[d]} \subseteq P
        BY <3>2
      <4>3. IsFiniteSet(P \ {victim[d]})
        BY <3>1, <4>2, PurgeableFinite
      <4>4. Cardinality(Q \ {victim[d]}) <= Cardinality(P \ {victim[d]})
        BY <4>2, <4>3, FS_Subset
      <4>5. Cardinality(P \ {victim[d]}) \in Nat /\ Cardinality(Q \ {victim[d]}) \in Nat
        BY <3>1, <3>2, PurgeableFinite
      <4>6. Cardinality(P \ {victim[d]}) < Cap
        BY <1>3, <3>1, <4>1 DEF RoomFor
      <4>7. Cardinality(Q \ {victim[d]}) < Cap
        BY <4>4, <4>5, <4>6
      <4> QED BY <3>1, <4>1, <4>7 DEF RoomFor
    <3>4. CASE d = e /\ pc[e] # "append"
      <4>1. PickVictim(e)
        BY <2>3, <3>4 DEF Step, PickVictim, AppendSpike, AppendToOld, RecordNoPeerMapping,
           ReadClock, ReserveInFlight, RecordSuppressedInFlight, SnapshotCooldown,
           FindAnchorSpike, CheckAnchorCapture, ClearCooldownIfSame,
           ReleaseSuppressed, RecordSuppressedCooldown, StartCapture,
           AddCaptureWithProvenance, ReleaseInFlight, Goto, TypeOK
      <4>2. IsFiniteSet(P) /\ Cardinality(P) \in Nat /\ Cardinality(P) <= Cap
        BY <1>3, <3>1, PurgeableFinite
      <4>3. Cardinality(P \ {victim'[e]}) < Cap
        <5>1. CASE P = {}
          BY <5>1, FS_EmptySet, CapAssumption
        <5>2. CASE P # {}
          <6>1. PICK v \in P : victim' = [victim EXCEPT ![e] = v]
            BY <3>1, <3>4, <4>1, <5>2 DEF PickVictim
          <6>2. victim'[e] = v
            BY <6>1 DEF TypeOK
          <6>3. Cardinality(P \ {v}) = Cardinality(P) - 1
            BY <4>2, FS_RemoveElement
          <6> QED BY <4>2, <6>2, <6>3
        <5> QED BY <5>1, <5>2
      <4>4. Q \ {victim'[e]} \subseteq P \ {victim'[e]} /\ P \ {victim'[e]} \subseteq P
        BY <3>2
      <4>5. Cardinality(Q \ {victim'[e]}) <= Cardinality(P \ {victim'[e]})
        BY <3>1, <4>4, PurgeableFinite, FS_Subset
      <4>6. Cardinality(P \ {victim'[e]}) \in Nat /\ Cardinality(Q \ {victim'[e]}) \in Nat
        BY <3>1, <3>2, <4>4, PurgeableFinite
      <4>7. Cardinality(Q \ {victim'[e]}) < Cap
        BY <4>3, <4>5, <4>6
      <4> QED BY <3>1, <3>4, <4>7 DEF RoomFor
    <3> QED BY <3>3, <3>4
  <2> QED BY <2>2, <2>3 DEF Counted
<1>6. CASE AppendSpike(e)
  <2>0. PICK t \in Trackers : t = from[e]
    BY <1>4, <1>6 DEF AppendSpike, Goto
  <2>1. /\ pc[e] = "append"
        /\ events' = [events EXCEPT ![t] = (@ \ {victim[e]}) \cup {e}]
        /\ UNCHANGED <<phase, record, inFlight>>
    BY <1>6, <2>0 DEF AppendSpike, Goto, store
  <2>2. \A d \in Events : Protected(d)' <=> Protected(d)
    BY <2>1 DEF Protected, GetProtectionInfo
  <2>3. Purgeable(t)' \subseteq (Purgeable(t) \ {victim[e]}) \cup {e}
    BY <2>1, <2>2 DEF Purgeable, TypeOK
  <2>4. \A u \in Trackers \ {t} : Purgeable(u)' = Purgeable(u)
    BY <2>1, <2>2 DEF Purgeable, TypeOK
  <2>5. Cardinality(Purgeable(t)') <= Cap
    <3> DEFINE K == Purgeable(t) \ {victim[e]}
    <3>1. IsFiniteSet(K) /\ Cardinality(K) \in Nat
      BY <2>1, PurgeableFinite
    <3>2. Cardinality(K) < Cap
      BY <1>3, <2>0, <2>1 DEF RoomFor
    <3>3. IsFiniteSet(K \cup {e}) /\ Cardinality(K \cup {e}) <= Cardinality(K) + 1
      <4> HIDE DEF K
      <4>1. /\ IsFiniteSet(K \cup {e})
            /\ Cardinality(K \cup {e}) = IF e \in K THEN Cardinality(K)
                                                   ELSE Cardinality(K) + 1
        BY <3>1, FS_AddElement, Zenon
      <4> QED BY <3>1, <4>1
    <3>4. Cardinality(K \cup {e}) \in Nat
      BY <3>3, FS_CardinalityType
    <3>5. Purgeable(t)' \in SUBSET (K \cup {e})
      BY <2>3
    <3>6. /\ Cardinality(Purgeable(t)') <= Cardinality(K \cup {e})
          /\ Cardinality(Purgeable(t)') \in Nat
      <4>1. IsFiniteSet(Purgeable(t)')
        BY <3>3, <3>5, FS_Subset
      <4> QED BY <3>3, <3>5, <4>1, FS_Subset, FS_CardinalityType
    <3> HIDE DEF K
    <3> QED BY <3>1, <3>2, <3>3, <3>4, <3>6
  <2>6. \A u \in Trackers : Cardinality(Purgeable(u)') <= Cap
    BY <1>3, <2>4, <2>5
  <2>7. ASSUME NEW d \in Events, pc'[d] = "append" PROVE RoomFor(d)'
    <3>1. d # e
      BY <1>6, <2>7 DEF AppendSpike, Goto, TypeOK
    <3>2. pc[d] = "append" /\ victim'[d] = victim[d] /\ from'[d] = from[d]
      BY <1>1, <2>7, <3>1 DEF Frame
    <3>3. from[d] \in Trackers \ {t}
      BY <1>4, <2>0, <2>1, <3>1, <3>2 DEF CInv, OneRecorder, Recording
    <3> QED BY <1>3, <2>4, <3>2, <3>3 DEF RoomFor
  <2> QED BY <2>6, <2>7 DEF Counted
<1> QED BY <1>5, <1>6

LEMMA InitCInv == Init => CInv
BY DEF Init, CInv, OneRecorder, Counted, Recording

LEMMA NextCInv == IInv /\ RInv /\ CInv /\ [Next]_vars => CInv'
<1> SUFFICES ASSUME IInv, RInv, CInv, [Next]_vars PROVE CInv'
  OBVIOUS
<1> USE DEF IInv
<1>1. ASSUME UNCHANGED <<pc, tracking, store>>, phase' = phase \/ phase = "retaining"
      PROVE  CInv'
  <2>1. OneRecorder'
    BY <1>1 DEF CInv, OneRecorder, tracking
  <2>2. phase' = phase \/ (phase # "probing")
    BY <1>1
  <2>3. phase # "probing" => Counted'
    <3> SUFFICES ASSUME phase # "probing", phase' # "probing" PROVE Counted'
      BY DEF Counted
    <3>1. \A t \in Trackers : Purgeable(t)' = Purgeable(t)
      BY <1>1 DEF Purgeable, Protected, GetProtectionInfo, tracking, store
    <3>2. \A d \in Events : pc[d] = "append" => from[d] \in Trackers
      BY DEF Placed, TypeOK
    <3>3. from' = from /\ victim' = victim /\ pc' = pc
      BY <1>1 DEF tracking
    <3>4. \A d \in Events : pc[d] = "append" =>
             Purgeable(from[d])' = Purgeable(from[d])
      BY <3>1, <3>2, <3>3
    <3> QED BY <3>1, <3>3, <3>4 DEF CInv, Counted, RoomFor
  <2> QED BY <2>1, <2>2, <2>3 DEF CInv, Counted
<1>2. CASE Tick \/ Idle \/ SetDiagCapture \/ UNCHANGED vars
  BY <1>1, <1>2 DEF Tick, Idle, SetDiagCapture, vars
<1>3. CASE EnableRetention
  <2>1. \A e \in Events : pc'[e] \notin Recording
    BY <1>3 DEF EnableRetention, Recording
  <2>2. \A t \in Trackers : Purgeable(t)' = {}
    BY <1>3 DEF EnableRetention, Purgeable
  <2>3. \A t \in Trackers : Cardinality(Purgeable(t)') <= Cap
    BY <2>2, FS_EmptySet
  <2> QED BY <2>1, <2>3 DEF CInv, OneRecorder, Counted, Recording
<1>4. ASSUME NEW t \in Trackers, DetectSpike(t) PROVE CInv'
  <2>1. PICK e \in Events :
           /\ \A d \in Events : (from[d] = None) <=> (d >= e)
           /\ Goto(e, "none", IF Cardinality(Purgeable(t)) >= MaxEventsPerTracker
                              THEN "pick" ELSE "append")
           /\ from' = [from EXCEPT ![e] = t]
    BY <1>4 DEF DetectSpike
  <2>2. ~Locked(t) /\ UNCHANGED <<now, phase, events, victim, locals, store>>
    BY <1>4 DEF DetectSpike
  <2>3. /\ from[e] = None /\ pc[e] = "none" /\ from'[e] = t
        /\ pc'[e] \in Recording
        /\ pc'[e] = "append" => ~(Cardinality(Purgeable(t)) >= MaxEventsPerTracker)
        /\ \A d \in Events \ {e} : pc'[d] = pc[d] /\ from'[d] = from[d]
    BY <2>1 DEF Goto, Recording, TypeOK, Events
  <2>4. OneRecorder'
    BY <2>2, <2>3 DEF CInv, OneRecorder, Locked
  <2>5. \A u \in Trackers : Purgeable(u)' = Purgeable(u)
    BY <2>2 DEF Purgeable, Protected, GetProtectionInfo, store
  <2>6. ASSUME phase' # "probing" PROVE Counted'
    <3>1. /\ \A u \in Trackers : Cardinality(Purgeable(u)) <= Cap
          /\ \A d \in Events : pc[d] = "append" => RoomFor(d)
      BY <2>2, <2>6 DEF CInv, Counted
    <3>2. ASSUME NEW d \in Events, pc'[d] = "append" PROVE RoomFor(d)'
      <4>1. CASE d = e
        <5>1. ~(Cardinality(Purgeable(t)) >= Cap)
          BY <2>2, <2>3, <2>6, <3>2, <4>1 DEF MaxEventsPerTracker
        <5>2. Purgeable(t) \ {victim[e]} \subseteq Purgeable(t)
          OBVIOUS
        <5>3. /\ Cardinality(Purgeable(t)) \in Nat
              /\ Cardinality(Purgeable(t) \ {victim[e]}) \in Nat
              /\ Cardinality(Purgeable(t) \ {victim[e]}) <= Cardinality(Purgeable(t))
          BY <5>2, PurgeableFinite
        <5>4. Cardinality(Purgeable(t) \ {victim[e]}) < Cap
          BY <5>1, <5>3
        <5>5. Purgeable(from[e])' = Purgeable(t)
          BY <2>3, <2>5
        <5> QED BY <2>2, <4>1, <5>4, <5>5 DEF RoomFor
      <4>2. CASE d # e
        <5>1. pc[d] = "append" /\ from'[d] = from[d] /\ from[d] \in Trackers
          BY <2>3, <3>2, <4>2 DEF Placed, TypeOK
        <5>2. Purgeable(from[d])' = Purgeable(from[d])
          BY <2>5, <5>1
        <5> QED BY <2>2, <3>1, <5>1, <5>2 DEF RoomFor
      <4> QED BY <4>1, <4>2
    <3>3. \A u \in Trackers : Cardinality(Purgeable(u)') <= Cap
      BY <2>5, <3>1
    <3> QED BY <3>2, <3>3 DEF Counted
  <2> QED BY <2>4, <2>6 DEF CInv, Counted
<1>5. ASSUME NEW e \in Events, Step(e) PROVE CInv'
  BY <1>5, StepOneRecorder, StepCounted DEF CInv
<1> QED BY <1>2, <1>3, <1>4, <1>5 DEF Next

(* The spikes that nothing protects stay within max_uncaptured_spikes      *)
(* (spike_tracker.go:35-57), although captures end between the count, the  *)
(* choice of the oldest and its removal, for every cap and all trackers.   *)
THEOREM UncapturedAlwaysBounded == Spec => []UncapturedBounded
<1>1. CInv => UncapturedBounded
  BY DEF CInv, Counted, UncapturedBounded
<1> QED
  BY <1>1, InitCInv, NextCInv, Inductive, TimelineInductive, PTL DEF Spec

============================================================================
