-------------------------- MODULE BfdAndLab_proofs --------------------------
(***************************************************************************)
(* Two programs that stop what they started before they let go of what it  *)
(* uses: the BFD session with its two threads, and a run of the            *)
(* memory-leak lab with its children and goroutines.                       *)
(*                                                                         *)
(* The BFD session moves only with a peer that has heard this daemon, it   *)
(* is freed after its two threads, and times out after a silence unless a  *)
(* packet overtakes the test - for every detection multiplier, any number  *)
(* of restarts of the peer and of packets under way, and every interleaving.*)
(* HeardBeforeInit is not inductive: it says nothing of the packets that   *)
(* are under way, of the one the receive thread is handling, nor of what   *)
(* that thread is about to write.  Heard follows the fact through each.    *)
(*                                                                         *)
(* A run of the lab ends, and publishes, only when its children and its    *)
(* collectors are gone and its fake server was told to shut down,          *)
(* and succeeds only if it has seen what a success claims.  Neither is     *)
(* inductive: what a success claims is gathered over the whole run, and a  *)
(* run that is still without an error must owe it to what it has passed    *)
(* (Untroubled), while what is gone must stay so (NotYet, NoLonger).       *)
(***************************************************************************)
EXTENDS Bfd, MemleakLab, TLAPS

-----------------------------------------------------------------------------
(* Bfd: the session, its threads and its peer.                             *)

(* Every place a state above down can come from: whoever shows it has an   *)
(* end to name, and names this daemon only after it heard it.              *)
Heard ==
    /\ p_remote = Here => heard
    /\ p_state \in {"init", "up"} => p_remote /= None
    /\ \A p \in to_local :
          /\ p.your = Here => heard
          /\ p.state \in {"init", "up"} => p.your /= None
    /\ pkt \in {"init", "up"} => heard
    /\ new_state \in {"init", "up"} => heard
    /\ state \in {"init", "up"} => heard

\* a calm network is one with a peer that runs
CalmPeer == calm => p_state \in States

(* What the threads measure is at most the silence, and what the transmit  *)
(* thread has decided is justified by it, except for a packet that was     *)
(* accepted and not stamped, or not before that thread had read the clock. *)
Measured ==
    /\ rpc = "stamp" /\ tpc \in {"elapsed", "timeout"} => overtaken
    /\ rpc = "stamp" \/ age <= quiet
    /\ overtaken \/ /\ tpc = "elapsed" => elapsed <= quiet
                    /\ tpc = "timeout" => quiet = Multiplier

\* each join of cleanupBfdBundle has waited for its thread
Joined ==
    /\ mpc \in {"join_tx", "freed"} => rpc = "done"
    /\ mpc = "freed" => tpc = "done"

IInv ==
    /\ TypeOK
    /\ Heard
    /\ CalmPeer
    /\ Measured
    /\ Joined

-----------------------------------------------------------------------------
(* The names of the ends differ, so that a packet names at most one of them *)
LEMMA NamesDiffer ==
    /\ None \notin PeerDiscrs /\ Here /= None /\ Before /= None /\ Here /= Before
    /\ 1 \in PeerDiscrs /\ Wrapped \in Nat /\ Multiplier \in Nat /\ Multiplier > 0
    /\ Wrapped > Multiplier
  BY MultiplierAssumption, BoundsAssumption DEF None, PeerDiscrs, Here, Before, Wrapped

LEMMA UpBounded ==
    ASSUME NEW t \in 0 .. Multiplier
    PROVE  Up(t) \in 0 .. Multiplier /\ t <= Up(t)
  BY NamesDiffer DEF Up

LEMMA UpMonotonic ==
    ASSUME NEW t \in 0 .. Multiplier, NEW u \in 0 .. Multiplier, t <= u
    PROVE  Up(t) <= Up(u)
  BY NamesDiffer DEF Up

\* no packet takes a session that is down to a state that it does not name
LEMMA NextStates ==
    ASSUME NEW current \in States, NEW received \in States \cup {"admin_down"}
    PROVE  /\ nextState(current, received) \in States
           /\ nextState(current, received) \in {"init", "up"}
                => current \in {"init", "up"} \/ received \in {"init", "up"}
  BY DEF nextState, States

LEMMA InitIInv == Init => IInv
<1> SUFFICES ASSUME Init PROVE IInv
  OBVIOUS
<1> USE NamesDiffer DEF Init
<1>1. TypeOK
  <2>1. p_state \in States \cup {"admin_down", "stopped"} /\ p_remote \in {None, Here, Before}
    BY DEF States
  <2>2. /\ age \in 0 .. Multiplier /\ quiet \in 0 .. Multiplier /\ p_age \in 0 .. Multiplier
        /\ elapsed \in 0 .. Wrapped
    OBVIOUS
  <2>3. calm \in BOOLEAN /\ heard \in BOOLEAN /\ sent \in BOOLEAN /\ due \in BOOLEAN
    OBVIOUS
  <2>4. /\ to_local \subseteq PeerPackets /\ p_discr \in PeerDiscrs /\ state \in States
        /\ pkt \in States \cup {"admin_down"} /\ new_state \in States \cup {"kept"}
    BY DEF States
  <2> QED
    BY <2>1, <2>2, <2>3, <2>4 DEF TypeOK
<1>2. Heard
  BY DEF Heard
<1>3. CalmPeer /\ Measured /\ Joined
  BY DEF CalmPeer, Measured, Joined
<1> QED
  BY <1>1, <1>2, <1>3 DEF IInv

\* what the peer makes of a packet leaves it with a session that has an end
LEMMA PeerReceivesKept ==
    ASSUME TypeOK, Heard, CalmPeer, NEW p, PeerReceives(p), p.state \in States
    PROVE  /\ p_state' \in States \cup {"admin_down", "stopped"} /\ p_discr' = p_discr
           /\ p_remote' \in {None, Here, Before} /\ p_age' \in 0 .. Multiplier
           /\ heard' \in BOOLEAN /\ (heard => heard')
           /\ p_remote' = Here => heard'
           /\ p_state' \in {"init", "up"} => p_remote' /= None
           /\ p_state \in States => p_state' \in States
<1>1. CASE UNCHANGED <<peer, heard>>
  BY <1>1 DEF TypeOK, Heard, peer
<1>2. CASE p_state \in States /\ p_remote' = Here /\ p_age' = 0 /\ heard' = TRUE
           /\ UNCHANGED p_discr /\ p_state' = PeerNext(p.state)
  <2>1. PeerNext(p.state) \in States
    BY <1>2 DEF PeerNext, States
  <2> QED
    BY <1>2, <2>1, NamesDiffer
<1> QED
  BY <1>1, <1>2 DEF PeerReceives

-----------------------------------------------------------------------------
(* The receive thread *)

LEMMA ReceiverKeeps == IInv /\ Receiver => IInv'
<1> SUFFICES ASSUME IInv, Receiver PROVE IInv'
  OBVIOUS
<1> USE NamesDiffer DEF IInv
<1>1. CASE RxStops
  BY <1>1 DEF RxStops, session, tx, peer, net, TypeOK, Heard, CalmPeer, Measured, Joined
<1>2. ASSUME NEW p \in to_local, RxReceive(p) PROVE IInv'
  <2> USE <1>2 DEF RxReceive, Accept, peer
  <2>0. p \in PeerPackets
    BY DEF TypeOK
  <2>1. TypeOK'
    <3>1. overtaken' \in BOOLEAN
      <4>1. overtaken \in BOOLEAN
        BY ONLY TypeOK DEF TypeOK
      <4>2. CASE p.your \in {None, Here}
        <5>1. Accept(p)
          BY ONLY <1>2, <4>2 DEF RxReceive
        <5>2. overtaken' = (tpc \in {"elapsed", "timeout"})
          BY ONLY <5>1 DEF Accept
        <5>3. (tpc \in {"elapsed", "timeout"}) \in BOOLEAN
          OBVIOUS
        <5> QED
          BY ONLY <5>2, <5>3, Zenon
      <4>3. CASE p.your \notin {None, Here}
        BY ONLY <1>2, <4>1, <4>3, Zenon DEF RxReceive
      <4> QED
        BY <4>2, <4>3
    <3>2. /\ remote_discr' \in {None} \cup PeerDiscrs /\ to_local' \subseteq PeerPackets
          /\ pkt' \in States \cup {"admin_down"} /\ rpc' \in {"recv", "stamp"}
          /\ quiet' \in 0 .. Multiplier
      BY <2>0 DEF TypeOK, PeerPackets
    <3>3. UNCHANGED <<state, age, sent, due, new_state, tpc, elapsed, mpc, peer, calm, heard>>
      OBVIOUS
    <3> QED
      BY ONLY TypeOK, <3>1, <3>2, <3>3 DEF TypeOK, peer
  <2>2. p.your \in {None, Here} /\ p.state \in {"init", "up"} => heard
    BY DEF Heard
  <2>3. Heard'
    BY <2>2 DEF Heard
  <2>4. CalmPeer' /\ Measured' /\ Joined'
    BY DEF CalmPeer, Measured, Joined
  <2> QED
    BY <2>1, <2>3, <2>4
<1>3. CASE RxStamp
  <2> USE <1>3 DEF RxStamp, tx, peer, net, Differences
  <2>1. elapsed' \in {elapsed, 0, Wrapped} /\ (tpc = "elapsed" => elapsed' \in {0, Wrapped})
    OBVIOUS
  <2>2. TypeOK'
    BY <2>1 DEF TypeOK
  <2>3. Heard' /\ CalmPeer' /\ Joined'
    BY DEF Heard, CalmPeer, Joined
  <2>4. Measured'
    BY <2>1 DEF Measured, TypeOK
  <2> QED
    BY <2>2, <2>3, <2>4
<1>4. CASE RxDecide
  <2> USE <1>4 DEF RxDecide, session, tx, peer, net
  <2>1. new_state' \in {nextState(state, pkt), "kept"}
    OBVIOUS
  <2>2. /\ nextState(state, pkt) \in States
        /\ nextState(state, pkt) \in {"init", "up"} => heard
    BY NextStates DEF TypeOK, Heard
  <2>3. TypeOK'
    BY <2>1, <2>2 DEF TypeOK, States
  <2>4. Heard'
    BY <2>1, <2>2 DEF Heard
  <2>5. CalmPeer' /\ Measured' /\ Joined'
    BY DEF CalmPeer, Measured, Joined
  <2> QED
    BY <2>3, <2>4, <2>5
<1>5. CASE RxWrite
  BY <1>5 DEF RxWrite, tx, peer, net, TypeOK, Heard, CalmPeer, Measured, Joined
<1> QED
  BY <1>1, <1>2, <1>3, <1>4, <1>5 DEF Receiver

(* The transmit thread *)

LEMMA TransmitterKeeps == IInv /\ Transmitter => IInv'
<1> SUFFICES ASSUME IInv, Transmitter PROVE IInv'
  OBVIOUS
<1> USE NamesDiffer DEF IInv, rx, net
<1>1. CASE TxTop
  <2> USE <1>1 DEF TxTop, session, peer
  <2>1. tpc' \in {"done", "elapsed", "transmit"} /\ (tpc' = "elapsed" => elapsed' = age)
        /\ elapsed' \in {age, 0}
    OBVIOUS
  <2>2. TypeOK'
    <3>1. overtaken' \in BOOLEAN
      OBVIOUS
    <3>2. UNCHANGED <<session, rx, mpc, peer, net, quiet, heard>>
      OBVIOUS
    <3> QED
      BY ONLY TypeOK, <2>1, <3>1, <3>2, NamesDiffer DEF TypeOK, session, rx, peer, net
  <2>3. Heard' /\ CalmPeer' /\ Joined'
    BY DEF Heard, CalmPeer, Joined
  <2>4. Measured'
    BY <2>1 DEF Measured
  <2> QED
    BY <2>2, <2>3, <2>4
<1>2. CASE TxElapsed
  BY <1>2 DEF TxElapsed, session, peer, TypeOK, Heard, CalmPeer, Measured, Joined
<1>3. CASE TxTimeout
  <2> USE <1>3 DEF TxTimeout, peer
  <2>1. TypeOK'
    <3>1. state' \in States /\ tpc' \in {"forget", "transmit"} /\ overtaken' \in BOOLEAN
      BY DEF TypeOK, States
    <3>2. UNCHANGED <<remote_discr, age, sent, due, rx, elapsed, mpc, peer, net, quiet, heard>>
      OBVIOUS
    <3> QED
      BY ONLY TypeOK, <3>1, <3>2 DEF TypeOK, rx, peer, net
  <2>2. Heard' /\ CalmPeer' /\ Joined'
    BY DEF Heard, CalmPeer, Joined
  <2>3. Measured'
    BY DEF Measured
  <2> QED
    BY <2>1, <2>2, <2>3
<1>4. CASE TxForget
  BY <1>4 DEF TxForget, peer, TypeOK, Heard, CalmPeer, Measured, Joined
<1>5. CASE TxNotDue
  BY <1>5 DEF TxNotDue, session, peer, TypeOK, Heard, CalmPeer, Measured, Joined
<1>6. CASE TxTransmit
  <2> DEFINE p == [state |-> state, your |-> remote_discr]
  <2>1. PeerReceives(p) \/ UNCHANGED <<peer, heard>>
    BY <1>6 DEF TxTransmit
  <2>2. /\ p_state' \in States \cup {"admin_down", "stopped"} /\ p_discr' = p_discr
        /\ p_remote' \in {None, Here, Before} /\ p_age' \in 0 .. Multiplier
        /\ heard' \in BOOLEAN /\ (heard => heard')
        /\ p_remote' = Here => heard'
        /\ p_state' \in {"init", "up"} => p_remote' /= None
        /\ p_state \in States => p_state' \in States
    <3>1. CASE PeerReceives(p)
      <4>1. p.state \in States
        BY DEF TypeOK
      <4> QED
        BY <3>1, <4>1, PeerReceivesKept
    <3>2. CASE UNCHANGED <<peer, heard>>
      BY <3>2 DEF TypeOK, Heard, peer
    <3> QED
      BY <2>1, <3>1, <3>2
  <2>3. /\ tpc' = "top" /\ sent' = TRUE /\ due' = FALSE
        /\ UNCHANGED <<state, remote_discr, age, rpc, pkt, new_state, elapsed, overtaken,
                       mpc, to_local, calm, quiet>>
    BY <1>6 DEF TxTransmit
  <2> HIDE DEF p
  <2>4. TypeOK'
    BY <2>2, <2>3 DEF TypeOK
  <2>5. Heard'
    BY <2>2, <2>3 DEF Heard
  <2>6. CalmPeer' /\ Measured'
    BY <2>2, <2>3 DEF CalmPeer, Measured
  <2>7. Joined'
    BY <1>6, <2>3 DEF Joined, TxTransmit
  <2> QED
    BY <2>4, <2>5, <2>6, <2>7
<1>7. CASE TxTransmitFails
  BY <1>7 DEF TxTransmitFails, peer, TypeOK, Heard, CalmPeer, Measured, Joined
<1> QED
  BY <1>1, <1>2, <1>3, <1>4, <1>5, <1>6, <1>7 DEF Transmitter

(* The main thread *)

LEMMA MainKeeps == IInv /\ (MainStop \/ Joins) => IInv'
<1> SUFFICES ASSUME IInv, MainStop \/ Joins PROVE IInv'
  OBVIOUS
<1> USE NamesDiffer DEF IInv, session, rx, tx, TypeOK, Heard, CalmPeer, Measured, Joined
<1>1. CASE MainStop
  <2> USE <1>1 DEF MainStop
  <2>1. TypeOK'
    <3>1. p_state' \in States \cup {"admin_down", "stopped"} /\ p_remote' \in {None, Here, Before}
      OBVIOUS
    <3>2. p_age' \in 0 .. Multiplier
      OBVIOUS
    <3>3. calm' \in BOOLEAN /\ mpc' \in {"serving", "join_rx", "join_tx", "freed"}
      OBVIOUS
    <3> QED
      BY <3>1, <3>2, <3>3
  <2>2. Heard'
    OBVIOUS
  <2>3. CalmPeer' /\ Measured' /\ Joined'
    OBVIOUS
  <2> QED
    BY <2>1, <2>2, <2>3
<1>2. CASE MainJoinReceive
  BY <1>2 DEF MainJoinReceive, peer, net
<1>3. CASE MainJoinTransmit
  BY <1>3 DEF MainJoinTransmit, peer, net
<1> QED
  BY <1>1, <1>2, <1>3 DEF Joins

(* The peer, the network and time *)

\* the peer never sends as stopped, and names no end only while it is down
LEMMA PeerPacketSound ==
    ASSUME TypeOK, Heard, p_state /= "stopped"
    PROVE  /\ PeerPacket \in PeerPackets
           /\ PeerPacket.your = Here => heard
           /\ PeerPacket.state \in {"init", "up"} => PeerPacket.your /= None
  BY DEF PeerPacket, PeerPackets, TypeOK, Heard

LEMMA OutsideKeeps == IInv /\ (Peer \/ CalmDown \/ Tick) => IInv'
<1> SUFFICES ASSUME IInv, Peer \/ CalmDown \/ Tick PROVE IInv'
  OBVIOUS
<1> USE NamesDiffer DEF IInv, rx, tx
<1>1. CASE PeerTimesOut
  BY <1>1 DEF PeerTimesOut, session, net, TypeOK, States, Heard, CalmPeer, Measured, Joined
<1>2. CASE PeerTransmits
  <2> USE <1>2 DEF PeerTransmits, session, peer
  <2>1. /\ PeerPacket \in PeerPackets
        /\ PeerPacket.your = Here => heard
        /\ PeerPacket.state \in {"init", "up"} => PeerPacket.your /= None
    BY PeerPacketSound
  <2>2. to_local' = to_local \cup {PeerPacket}
    OBVIOUS
  <2>3. TypeOK'
    BY <2>1, <2>2 DEF TypeOK
  <2>4. Heard'
    BY <2>1, <2>2 DEF Heard
  <2>5. CalmPeer' /\ Measured' /\ Joined'
    BY DEF CalmPeer, Measured, Joined
  <2> QED
    BY <2>3, <2>4, <2>5
<1>3. CASE Lose
  BY <1>3 DEF Lose, session, peer, TypeOK, Heard, CalmPeer, Measured, Joined
<1>4. CASE PeerStops
  BY <1>4 DEF PeerStops, session, net, TypeOK, Heard, CalmPeer, Measured, Joined
<1>5. CASE PeerStarts
  <2>1. p_discr' \in PeerDiscrs
    BY <1>5, BoundsAssumption DEF PeerStarts, PeerDiscrs, TypeOK
  <2> QED
    BY <1>5, <2>1 DEF PeerStarts, session, net, TypeOK, States, Heard, CalmPeer, Measured, Joined
<1>6. CASE CalmDown
  BY <1>6 DEF CalmDown, session, peer, TypeOK, Heard, CalmPeer, Measured, Joined
<1>7. CASE Tick
  <2> USE <1>7 DEF Tick
  <2>1. /\ age' \in 0 .. Multiplier /\ quiet' \in 0 .. Multiplier /\ p_age' \in 0 .. Multiplier
        /\ quiet <= quiet' /\ (age <= quiet => age' <= quiet')
    BY UpBounded, UpMonotonic DEF TypeOK
  <2>2. UNCHANGED to_local \/ (to_local' = {PeerPacket} /\ p_state /= "stopped")
    BY DEF Prompt, CalmPeer, States
  <2>3. TypeOK'
    BY <2>1, <2>2, PeerPacketSound DEF TypeOK
  <2>4. Heard'
    BY <2>2, PeerPacketSound DEF Heard
  <2>5. CalmPeer' /\ Joined'
    BY DEF CalmPeer, Joined
  <2>6. Measured'
    BY <2>1 DEF Measured, TypeOK
  <2> QED
    BY <2>3, <2>4, <2>5, <2>6
<1> QED
  BY <1>1, <1>2, <1>3, <1>4, <1>5, <1>6, <1>7 DEF Peer

LEMMA NextIInv == IInv /\ [Next]_vars => IInv'
<1>1. IInv /\ UNCHANGED vars => IInv'
  BY DEF IInv, vars, session, rx, tx, peer, net, TypeOK, Heard, CalmPeer, Measured, Joined
<1> QED
  BY <1>1, ReceiverKeeps, TransmitterKeeps, MainKeeps, OutsideKeeps DEF Next

-----------------------------------------------------------------------------
(* Every reachable state has the types the code declares.                  *)
THEOREM TypeCorrect == Spec => []TypeOK
<1>1. IInv => TypeOK
  BY DEF IInv
<1> QED
  BY <1>1, InitIInv, NextIInv, PTL DEF Spec

(* handlePacketReceived moves the session only for a peer that has heard   *)
(* this daemon, and cleanupBfdBundle frees it when both threads are gone.  *)
THEOREM SessionAlwaysSafe == Spec => []SessionSafe
<1>1. IInv => SessionSafe
  BY DEF IInv, Heard, Joined, SessionSafe, HeardBeforeInit, FreedLast
<1> QED
  BY <1>1, InitIInv, NextIInv, PTL DEF Spec

(* handleDetectionTimeout takes the session down only after the detection  *)
(* time without a packet, or when one was accepted after the transmit      *)
(* thread had read the clock, or not yet stamped when it did.              *)
THEOREM AlarmsJustified == Spec => NoFalseAlarm
<1>1. IInv /\ [Next]_vars =>
        [tpc = "timeout" /\ tpc' = "forget" => quiet = Multiplier \/ overtaken]_vars
  BY DEF IInv, Measured
<1> QED
  BY <1>1, InitIInv, NextIInv, PTL DEF Spec, NoFalseAlarm

-----------------------------------------------------------------------------
(* MemleakLab: the run.                                                    *)

\* the places of runMain and runLab, in their order
Starting == {"config", "identity", "startTovarisch", "awaitTovarisch", "startUvb76",
             "pprof", "endpoints", "api", "login"}
Collecting == {"captureStart", "captureMid", "captureFinal", "drain", "join"}
Stopping == {"terminate", "wait", "kill", "await"}
Ending == {"verify", "persist", "write", "done"}

\* a child that is not there: never started, or reaped
Gone == {"none", "reaped", "recorded"}

\* the type of the state, in four parts
PhasesOK ==
    /\ pc \in Starting \cup Collecting \cup {"stopFake"} \cup Stopping \cup Ending
    /\ mode \in {"real", "fake"} /\ turn \in Procs

PartsOK ==
    /\ proc \in [Procs -> Gone \cup {"running", "zombie"}]
    /\ asked \subseteq Procs /\ killed \subseteq Procs
    /\ fake \in {"none", "serving", "stopped", "lingering"}
    /\ poll \in {"idle", "running", "sent", "ended"}
    /\ channel \in {"empty", "completed", "failed"} /\ got \in {"zero", "completed", "failed"}
    /\ coll \in [Procs -> {"idle", "running", "fetch", "ended"}]
    /\ sampled \subseteq Procs

FlagsOK ==
    /\ failing \in BOOLEAN /\ observing \in BOOLEAN /\ terminated \in BOOLEAN
    /\ collErrors \in BOOLEAN /\ profileErr \in BOOLEAN /\ errors \in BOOLEAN

Outcomes == [by : {"none", "torn", "earlier", "this"}, ok : BOOLEAN, checked : BOOLEAN]

OutcomeOK ==
    /\ verdict \in {"PARTIAL", "FAILED", "OBSERVED"}
    /\ file \in Outcomes
    /\ exit \in {"none", "success", "failure"}

RunTypeOK == PhasesOK /\ PartsOK /\ FlagsOK /\ OutcomeOK

(* What was not started yet: a child or the fake runs only past its start, *)
(* and a collector only in a collection.                                   *)
NotYet ==
    /\ pc \in {"config", "identity", "startTovarisch"} =>
          proc["tovarisch"] = "none" /\ fake = "none"
    /\ pc \in {"config", "identity", "startTovarisch", "awaitTovarisch", "startUvb76"} =>
          proc["uvb76"] = "none"
    /\ pc \in Starting \cup Collecting => ~failing
    /\ pc \in Starting \/ failing => \A c \in Procs : coll[c] = "idle"
    /\ mode = "fake" => proc["tovarisch"] = "none"
    /\ \A c \in sampled : coll[c] # "idle"

(* What is no longer there: the collectors after the join, the fake after  *)
(* it was stopped, and each child after its turn in the cleanup.           *)
NoLonger ==
    /\ pc \in Starting \cup Collecting \cup {"stopFake"} => turn = "uvb76"
    /\ pc \notin Starting \cup Collecting => \A c \in Procs : coll[c] \in {"idle", "ended"}
    /\ pc \in Stopping \cup Ending => fake # "serving"
    /\ pc \in Ending \/ (pc \in Stopping /\ turn = "tovarisch") => proc["uvb76"] \in Gone
    /\ pc \in Ending => proc["tovarisch"] \in Gone

\* a child that was asked to stop and did, or was never there
Stopped(p) == proc[p] = "none" \/ (proc[p] = "recorded" /\ p \in asked)

(* What a run with no error so far has passed: every failure it could have *)
(* met on the way sets errors, so a run without one has had the child, the *)
(* answer or the exit that each phase behind it waits for.                 *)
Untroubled ==
    ~errors =>
        /\ ~failing /\ killed = {} /\ pc \notin {"kill", "await"}
        /\ pc \in {"pprof", "endpoints", "api", "login", "stopFake"} \cup Collecting \cup Stopping
                  \cup {"verify", "persist"} =>
              proc["uvb76"] # "none"
        /\ pc \in {"awaitTovarisch", "startUvb76", "pprof", "endpoints", "api", "login", "stopFake"}
                  \cup Collecting \cup Stopping \cup {"verify", "persist"} =>
              mode = "fake" \/ proc["tovarisch"] # "none"
        /\ pc \in {"join", "stopFake"} \cup Stopping \cup {"verify", "persist"} =>
              got = "completed" /\ terminated
        /\ pc \in {"stopFake"} \cup Stopping \cup {"verify", "persist"} => ~profileErr
        /\ pc = "wait" => turn \in asked
        /\ pc \in {"verify", "persist"} \/ (pc \in Stopping /\ turn = "tovarisch") =>
              Stopped("uvb76")
        /\ pc \in {"verify", "persist"} => Stopped("tovarisch")

\* Observed, but for a fake in the place of tovarisch
Seen ==
    /\ \A p \in Procs : \/ mode = "fake" /\ p = "tovarisch"
                        \/ proc[p] = "recorded" /\ p \in asked \ killed
    /\ got = "completed" /\ terminated
    /\ sampled = Procs
    /\ ~profileErr

(* A verdict of OBSERVED is reached without an error, so Seen holds; the   *)
(* result of a run with a fake is turned into FAILED (BuildResult).        *)
Concluded ==
    verdict = "OBSERVED" =>
        /\ pc \in {"persist", "write", "done"} /\ ~failing
        /\ Seen
        /\ pc = "persist" \/ mode = "real"

\* what is on the disk and what was returned, against what was seen
Published ==
    /\ exit = "none" <=> pc # "done"
    /\ exit = "success" => Observed
    /\ file.by = "this" => pc \in {"write", "done"}
    /\ file.by = "this" /\ file.ok => Observed

RunInv == RunTypeOK /\ NotYet /\ NoLonger /\ Untroubled /\ Concluded /\ Published

\* the four contents of result.json
LEMMA FilesTyped ==
    NoFile \in Outcomes /\ Torn \in Outcomes /\ Earlier \in Outcomes
BY DEF NoFile, Torn, Earlier, Outcomes

LEMMA OursTyped == Ours(TRUE) \in Outcomes /\ Ours(FALSE) \in Outcomes
<1>1. CASE verdict = "OBSERVED"
  <2>1. /\ Ours(TRUE) = [by |-> "this", ok |-> TRUE, checked |-> TRUE]
        /\ Ours(FALSE) = [by |-> "this", ok |-> TRUE, checked |-> FALSE]
    BY <1>1 DEF Ours
  <2>2. /\ [by |-> "this", ok |-> TRUE, checked |-> TRUE] \in Outcomes
        /\ [by |-> "this", ok |-> TRUE, checked |-> FALSE] \in Outcomes
    BY DEF Outcomes
  <2> QED
    BY <2>1, <2>2, Zenon
<1>2. CASE verdict # "OBSERVED"
  <2>1. /\ Ours(TRUE) = [by |-> "this", ok |-> FALSE, checked |-> TRUE]
        /\ Ours(FALSE) = [by |-> "this", ok |-> FALSE, checked |-> FALSE]
    BY <1>2 DEF Ours
  <2>2. /\ [by |-> "this", ok |-> FALSE, checked |-> TRUE] \in Outcomes
        /\ [by |-> "this", ok |-> FALSE, checked |-> FALSE] \in Outcomes
    BY DEF Outcomes
  <2> QED
    BY <2>1, <2>2, Zenon
<1> QED
  BY <1>1, <1>2

LEMMA OursSays ==
    /\ Ours(TRUE).by = "this" /\ Ours(FALSE).by = "this"
    /\ Ours(TRUE).ok <=> verdict = "OBSERVED"
    /\ Ours(FALSE).ok <=> verdict = "OBSERVED"
<1>1. CASE verdict = "OBSERVED"
  BY <1>1 DEF Ours
<1>2. CASE verdict # "OBSERVED"
  BY <1>2 DEF Ours
<1> QED
  BY <1>1, <1>2

LEMMA RunInitInv == RunInit => RunInv
<1> SUFFICES ASSUME RunInit PROVE RunInv
  OBVIOUS
<1> USE DEF RunInit, Procs
<1>1. PhasesOK
  BY DEF PhasesOK, Starting, Collecting, Stopping, Ending
<1>2. PartsOK
  BY DEF PartsOK, Gone
<1>3. FlagsOK
  BY DEF FlagsOK
<1>4. OutcomeOK
  BY FilesTyped DEF OutcomeOK
<1>5. NotYet
  BY DEF NotYet
<1>6. NoLonger
  BY DEF NoLonger, Stopping, Ending, Starting
<1>7. Untroubled
  BY DEF Untroubled, Collecting, Stopping
<1>8. Concluded
  BY DEF Concluded
<1>9. Published
  BY DEF Published, NoFile, Earlier
<1> QED
  BY <1>1, <1>2, <1>3, <1>4, <1>5, <1>6, <1>7, <1>8, <1>9 DEF RunInv, RunTypeOK

\* The type of the state is kept, part by part.
LEMMA PhasesOKStep ==
    RunTypeOK /\ [RunNext]_runVars => PhasesOK'
<1> SUFFICES ASSUME RunTypeOK, [RunNext]_runVars PROVE PhasesOK'
  OBVIOUS
<1> USE DEF RunTypeOK, PhasesOK,
            GoesToFinalizer, ReturnsFailed, NextChild,
            Starting, Collecting, Stopping, Ending, Gone, Procs,
            mainVars, procVars, pollVars, drainVars, collVars, cleanFrame,
            collFrame, procFrame, runVars
<1>1. CASE PublishConfig
  BY <1>1 DEF PublishConfig
<1>2. CASE ValidateIdentity
  BY <1>2 DEF ValidateIdentity
<1>3. CASE StartTovarisch
  BY <1>3 DEF StartTovarisch
<1>4. CASE AwaitTovarisch
  BY <1>4 DEF AwaitTovarisch
<1>5. CASE StartUvb76
  BY <1>5 DEF StartUvb76
<1>6. CASE CheckUvb76
  BY <1>6 DEF CheckUvb76, Following
<1>7. CASE BeginCollection
  BY <1>7 DEF BeginCollection
<1>8. CASE Capture
  BY <1>8 DEF Capture, CaptureRound
<1>9. CASE DrainEnds
  BY <1>9 DEF DrainEnds
<1>10. CASE Snapshot
  BY <1>10 DEF Snapshot
<1>11. CASE StopFake
  BY <1>11 DEF StopFake
<1>12. CASE Terminate
  BY <1>12 DEF Terminate
<1>13. CASE WaitForExit
  BY <1>13 DEF WaitForExit
<1>14. CASE ForceKill
  BY <1>14 DEF ForceKill
<1>15. CASE AwaitKilled
  BY <1>15 DEF AwaitKilled
<1>16. CASE VerifyAndClassify
  BY <1>16 DEF VerifyAndClassify, classifyLabResult
<1>17. CASE Finalize
  BY <1>17 DEF Finalize, NoFile
<1>18. CASE BuildResult
  BY <1>18 DEF BuildResult
<1>19. CASE PersistResult
  BY <1>19 DEF PersistResult, Ours, NoFile
<1>20. CASE WriteResult
  BY <1>20 DEF WriteResult, Ours, Torn
<1>21. CASE DrainReceives
  BY <1>21 DEF DrainReceives
<1>22. CASE DrainSeesEnd
  BY <1>22 DEF DrainSeesEnd
<1>23. CASE ObservationEnds
  BY <1>23 DEF ObservationEnds
<1>24. CASE PollCompletes
  BY <1>24 DEF PollCompletes
<1>25. CASE PollGivesUp
  BY <1>25 DEF PollGivesUp
<1>26. CASE PollExits
  BY <1>26 DEF PollExits
<1>27. ASSUME NEW p \in Procs, ProcessGone(p) PROVE PhasesOK'
  BY <1>27 DEF ProcessGone
<1>28. ASSUME NEW p \in Procs, SamplingFails(p) PROVE PhasesOK'
  BY <1>28 DEF SamplingFails
<1>29. ASSUME NEW p \in Procs, Sample(p) PROVE PhasesOK'
  BY <1>29 DEF Sample
<1>30. ASSUME NEW p \in Procs, FetchGoroutineCount(p) PROVE PhasesOK'
  BY <1>30 DEF FetchGoroutineCount
<1>31. ASSUME NEW p \in Procs, CollectorStops(p) PROVE PhasesOK'
  BY <1>31 DEF CollectorStops
<1>32. ASSUME NEW p \in Procs, Dies(p) PROVE PhasesOK'
  BY <1>32 DEF Dies
<1>33. ASSUME NEW p \in Procs, Monitor(p) PROVE PhasesOK'
  BY <1>33 DEF Monitor
<1>34. CASE UNCHANGED runVars
  BY <1>34
<1> QED
  BY <1>1, <1>2, <1>3, <1>4, <1>5, <1>6, <1>7, <1>8, <1>9, <1>10, <1>11, <1>12, <1>13, 
     <1>14, <1>15, <1>16, <1>17, <1>18, <1>19, <1>20, <1>21, <1>22, <1>23, <1>24, <1>25, 
     <1>26, <1>27, <1>28, <1>29, <1>30, <1>31, <1>32, <1>33, <1>34
     DEF RunNext, Main, Cleanup, Collect, Finished

LEMMA PartsOKStep ==
    RunTypeOK /\ [RunNext]_runVars => PartsOK'
<1> SUFFICES ASSUME RunTypeOK, [RunNext]_runVars PROVE PartsOK'
  OBVIOUS
<1> USE DEF RunTypeOK, PhasesOK, PartsOK,
            GoesToFinalizer, ReturnsFailed, NextChild,
            Starting, Collecting, Stopping, Ending, Gone, Procs,
            mainVars, procVars, pollVars, drainVars, collVars, cleanFrame,
            collFrame, procFrame, runVars
<1>1. CASE PublishConfig
  BY <1>1 DEF PublishConfig
<1>2. CASE ValidateIdentity
  BY <1>2 DEF ValidateIdentity
<1>3. CASE StartTovarisch
  BY <1>3 DEF StartTovarisch
<1>4. CASE AwaitTovarisch
  BY <1>4 DEF AwaitTovarisch
<1>5. CASE StartUvb76
  BY <1>5 DEF StartUvb76
<1>6. CASE CheckUvb76
  BY <1>6 DEF CheckUvb76, Following
<1>7. CASE BeginCollection
  BY <1>7 DEF BeginCollection
<1>8. CASE Capture
  BY <1>8, ZenonT(60) DEF Capture, CaptureRound
<1>9. CASE DrainEnds
  BY <1>9 DEF DrainEnds
<1>10. CASE Snapshot
  BY <1>10 DEF Snapshot
<1>11. CASE StopFake
  BY <1>11 DEF StopFake
<1>12. CASE Terminate
  BY <1>12 DEF Terminate
<1>13. CASE WaitForExit
  BY <1>13 DEF WaitForExit
<1>14. CASE ForceKill
  BY <1>14 DEF ForceKill
<1>15. CASE AwaitKilled
  BY <1>15 DEF AwaitKilled
<1>16. CASE VerifyAndClassify
  BY <1>16 DEF VerifyAndClassify, classifyLabResult
<1>17. CASE Finalize
  BY <1>17 DEF Finalize, NoFile
<1>18. CASE BuildResult
  BY <1>18 DEF BuildResult
<1>19. CASE PersistResult
  BY <1>19 DEF PersistResult, Ours, NoFile
<1>20. CASE WriteResult
  BY <1>20 DEF WriteResult, Ours, Torn
<1>21. CASE DrainReceives
  BY <1>21 DEF DrainReceives
<1>22. CASE DrainSeesEnd
  BY <1>22 DEF DrainSeesEnd
<1>23. CASE ObservationEnds
  BY <1>23 DEF ObservationEnds
<1>24. CASE PollCompletes
  BY <1>24 DEF PollCompletes
<1>25. CASE PollGivesUp
  BY <1>25 DEF PollGivesUp
<1>26. CASE PollExits
  BY <1>26 DEF PollExits
<1>27. ASSUME NEW p \in Procs, ProcessGone(p) PROVE PartsOK'
  BY <1>27 DEF ProcessGone
<1>28. ASSUME NEW p \in Procs, SamplingFails(p) PROVE PartsOK'
  BY <1>28 DEF SamplingFails
<1>29. ASSUME NEW p \in Procs, Sample(p) PROVE PartsOK'
  BY <1>29 DEF Sample
<1>30. ASSUME NEW p \in Procs, FetchGoroutineCount(p) PROVE PartsOK'
  BY <1>30 DEF FetchGoroutineCount
<1>31. ASSUME NEW p \in Procs, CollectorStops(p) PROVE PartsOK'
  BY <1>31 DEF CollectorStops
<1>32. ASSUME NEW p \in Procs, Dies(p) PROVE PartsOK'
  BY <1>32 DEF Dies
<1>33. ASSUME NEW p \in Procs, Monitor(p) PROVE PartsOK'
  BY <1>33 DEF Monitor
<1>34. CASE UNCHANGED runVars
  BY <1>34
<1> QED
  BY <1>1, <1>2, <1>3, <1>4, <1>5, <1>6, <1>7, <1>8, <1>9, <1>10, <1>11, <1>12, <1>13, 
     <1>14, <1>15, <1>16, <1>17, <1>18, <1>19, <1>20, <1>21, <1>22, <1>23, <1>24, <1>25, 
     <1>26, <1>27, <1>28, <1>29, <1>30, <1>31, <1>32, <1>33, <1>34
     DEF RunNext, Main, Cleanup, Collect, Finished

LEMMA FlagsOKStep ==
    RunTypeOK /\ [RunNext]_runVars => FlagsOK'
<1> SUFFICES ASSUME RunTypeOK, [RunNext]_runVars PROVE FlagsOK'
  OBVIOUS
<1> USE DEF RunTypeOK, PhasesOK, FlagsOK,
            GoesToFinalizer, ReturnsFailed, NextChild,
            Starting, Collecting, Stopping, Ending, Gone, Procs,
            mainVars, procVars, pollVars, drainVars, collVars, cleanFrame,
            collFrame, procFrame, runVars
<1>1. CASE PublishConfig
  BY <1>1 DEF PublishConfig
<1>2. CASE ValidateIdentity
  BY <1>2 DEF ValidateIdentity
<1>3. CASE StartTovarisch
  BY <1>3 DEF StartTovarisch
<1>4. CASE AwaitTovarisch
  BY <1>4 DEF AwaitTovarisch
<1>5. CASE StartUvb76
  BY <1>5 DEF StartUvb76
<1>6. CASE CheckUvb76
  BY <1>6 DEF CheckUvb76, Following
<1>7. CASE BeginCollection
  BY <1>7 DEF BeginCollection
<1>8. CASE Capture
  BY <1>8 DEF Capture, CaptureRound
<1>9. CASE DrainEnds
  BY <1>9 DEF DrainEnds
<1>10. CASE Snapshot
  BY <1>10 DEF Snapshot
<1>11. CASE StopFake
  BY <1>11 DEF StopFake
<1>12. CASE Terminate
  BY <1>12 DEF Terminate
<1>13. CASE WaitForExit
  BY <1>13 DEF WaitForExit
<1>14. CASE ForceKill
  BY <1>14 DEF ForceKill
<1>15. CASE AwaitKilled
  BY <1>15 DEF AwaitKilled
<1>16. CASE VerifyAndClassify
  BY <1>16 DEF VerifyAndClassify, classifyLabResult
<1>17. CASE Finalize
  BY <1>17 DEF Finalize, NoFile
<1>18. CASE BuildResult
  BY <1>18 DEF BuildResult
<1>19. CASE PersistResult
  BY <1>19 DEF PersistResult, Ours, NoFile
<1>20. CASE WriteResult
  BY <1>20 DEF WriteResult, Ours, Torn
<1>21. CASE DrainReceives
  BY <1>21 DEF DrainReceives
<1>22. CASE DrainSeesEnd
  BY <1>22 DEF DrainSeesEnd
<1>23. CASE ObservationEnds
  BY <1>23 DEF ObservationEnds
<1>24. CASE PollCompletes
  BY <1>24 DEF PollCompletes
<1>25. CASE PollGivesUp
  BY <1>25 DEF PollGivesUp
<1>26. CASE PollExits
  BY <1>26 DEF PollExits
<1>27. ASSUME NEW p \in Procs, ProcessGone(p) PROVE FlagsOK'
  BY <1>27 DEF ProcessGone
<1>28. ASSUME NEW p \in Procs, SamplingFails(p) PROVE FlagsOK'
  BY <1>28 DEF SamplingFails
<1>29. ASSUME NEW p \in Procs, Sample(p) PROVE FlagsOK'
  BY <1>29 DEF Sample
<1>30. ASSUME NEW p \in Procs, FetchGoroutineCount(p) PROVE FlagsOK'
  BY <1>30 DEF FetchGoroutineCount
<1>31. ASSUME NEW p \in Procs, CollectorStops(p) PROVE FlagsOK'
  BY <1>31 DEF CollectorStops
<1>32. ASSUME NEW p \in Procs, Dies(p) PROVE FlagsOK'
  BY <1>32 DEF Dies
<1>33. ASSUME NEW p \in Procs, Monitor(p) PROVE FlagsOK'
  BY <1>33 DEF Monitor
<1>34. CASE UNCHANGED runVars
  BY <1>34
<1> QED
  BY <1>1, <1>2, <1>3, <1>4, <1>5, <1>6, <1>7, <1>8, <1>9, <1>10, <1>11, <1>12, <1>13, 
     <1>14, <1>15, <1>16, <1>17, <1>18, <1>19, <1>20, <1>21, <1>22, <1>23, <1>24, <1>25, 
     <1>26, <1>27, <1>28, <1>29, <1>30, <1>31, <1>32, <1>33, <1>34
     DEF RunNext, Main, Cleanup, Collect, Finished

LEMMA OutcomeOKStep ==
    RunTypeOK /\ [RunNext]_runVars => OutcomeOK'
<1> SUFFICES ASSUME RunTypeOK, [RunNext]_runVars PROVE OutcomeOK'
  OBVIOUS
<1> USE DEF RunTypeOK, PhasesOK, OutcomeOK,
            GoesToFinalizer, ReturnsFailed, NextChild,
            Starting, Collecting, Stopping, Ending, Gone, Procs,
            mainVars, procVars, pollVars, drainVars, collVars, cleanFrame,
            collFrame, procFrame, runVars
<1>1. CASE PublishConfig
  BY <1>1 DEF PublishConfig
<1>2. CASE ValidateIdentity
  BY <1>2 DEF ValidateIdentity
<1>3. CASE StartTovarisch
  BY <1>3 DEF StartTovarisch
<1>4. CASE AwaitTovarisch
  BY <1>4 DEF AwaitTovarisch
<1>5. CASE StartUvb76
  BY <1>5 DEF StartUvb76
<1>6. CASE CheckUvb76
  BY <1>6 DEF CheckUvb76, Following
<1>7. CASE BeginCollection
  BY <1>7 DEF BeginCollection
<1>8. CASE Capture
  BY <1>8 DEF Capture, CaptureRound
<1>9. CASE DrainEnds
  BY <1>9 DEF DrainEnds
<1>10. CASE Snapshot
  BY <1>10 DEF Snapshot
<1>11. CASE StopFake
  BY <1>11 DEF StopFake
<1>12. CASE Terminate
  BY <1>12 DEF Terminate
<1>13. CASE WaitForExit
  BY <1>13 DEF WaitForExit
<1>14. CASE ForceKill
  BY <1>14 DEF ForceKill
<1>15. CASE AwaitKilled
  BY <1>15 DEF AwaitKilled
<1>16. CASE VerifyAndClassify
  BY <1>16 DEF VerifyAndClassify, classifyLabResult
<1>17. CASE Finalize
  <2>1. file' \in {NoFile, file}
    BY <1>17 DEF Finalize
  <2> QED
    BY <1>17, <2>1, FilesTyped DEF Finalize
<1>18. CASE BuildResult
  BY <1>18 DEF BuildResult
<1>19. CASE PersistResult
  <2>1. file' \in {Ours(TRUE), Ours(FALSE), NoFile, file}
    BY <1>19 DEF PersistResult
  <2>2. file \in Outcomes
    OBVIOUS
  <2>3. Ours(TRUE) \in Outcomes /\ Ours(FALSE) \in Outcomes /\ NoFile \in Outcomes
    BY <2>2, FilesTyped, OursTyped
  <2>4. file' \in Outcomes
    BY <2>1, <2>2, <2>3, Zenon
  <2> QED
    BY <1>19, <2>4 DEF PersistResult
<1>20. CASE WriteResult
  <2>1. file' \in {Ours(FALSE), Torn, file}
    BY <1>20 DEF WriteResult
  <2>2. file \in Outcomes
    OBVIOUS
  <2>3. Ours(FALSE) \in Outcomes /\ Torn \in Outcomes
    BY <2>2, FilesTyped, OursTyped
  <2>4. file' \in Outcomes
    BY <2>1, <2>2, <2>3, Zenon
  <2> QED
    BY <1>20, <2>4 DEF WriteResult
<1>21. CASE DrainReceives
  BY <1>21 DEF DrainReceives
<1>22. CASE DrainSeesEnd
  BY <1>22 DEF DrainSeesEnd
<1>23. CASE ObservationEnds
  BY <1>23 DEF ObservationEnds
<1>24. CASE PollCompletes
  BY <1>24 DEF PollCompletes
<1>25. CASE PollGivesUp
  BY <1>25 DEF PollGivesUp
<1>26. CASE PollExits
  BY <1>26 DEF PollExits
<1>27. ASSUME NEW p \in Procs, ProcessGone(p) PROVE OutcomeOK'
  BY <1>27 DEF ProcessGone
<1>28. ASSUME NEW p \in Procs, SamplingFails(p) PROVE OutcomeOK'
  BY <1>28 DEF SamplingFails
<1>29. ASSUME NEW p \in Procs, Sample(p) PROVE OutcomeOK'
  BY <1>29 DEF Sample
<1>30. ASSUME NEW p \in Procs, FetchGoroutineCount(p) PROVE OutcomeOK'
  BY <1>30 DEF FetchGoroutineCount
<1>31. ASSUME NEW p \in Procs, CollectorStops(p) PROVE OutcomeOK'
  BY <1>31 DEF CollectorStops
<1>32. ASSUME NEW p \in Procs, Dies(p) PROVE OutcomeOK'
  BY <1>32 DEF Dies
<1>33. ASSUME NEW p \in Procs, Monitor(p) PROVE OutcomeOK'
  BY <1>33 DEF Monitor
<1>34. CASE UNCHANGED runVars
  BY <1>34
<1> QED
  BY <1>1, <1>2, <1>3, <1>4, <1>5, <1>6, <1>7, <1>8, <1>9, <1>10, <1>11, <1>12, <1>13, 
     <1>14, <1>15, <1>16, <1>17, <1>18, <1>19, <1>20, <1>21, <1>22, <1>23, <1>24, <1>25, 
     <1>26, <1>27, <1>28, <1>29, <1>30, <1>31, <1>32, <1>33, <1>34
     DEF RunNext, Main, Cleanup, Collect, Finished

\* Nothing runs before its start.
LEMMA NotYetStep ==
    RunTypeOK /\ NotYet /\ [RunNext]_runVars => NotYet'
<1> SUFFICES ASSUME RunTypeOK, NotYet, [RunNext]_runVars PROVE NotYet'
  OBVIOUS
<1> USE DEF RunTypeOK, PhasesOK, PartsOK, NotYet,
            GoesToFinalizer, ReturnsFailed, NextChild,
            Starting, Collecting, Stopping, Ending, Gone, Procs,
            mainVars, procVars, pollVars, drainVars, collVars, cleanFrame,
            collFrame, procFrame, runVars
<1>1. CASE PublishConfig
  BY <1>1 DEF PublishConfig
<1>2. CASE ValidateIdentity
  BY <1>2 DEF ValidateIdentity
<1>3. CASE StartTovarisch
  BY <1>3 DEF StartTovarisch
<1>4. CASE AwaitTovarisch
  BY <1>4 DEF AwaitTovarisch
<1>5. CASE StartUvb76
  BY <1>5 DEF StartUvb76
<1>6. CASE CheckUvb76
  BY <1>6 DEF CheckUvb76, Following
<1>7. CASE BeginCollection
  BY <1>7 DEF BeginCollection
<1>8. CASE Capture
  <2>1. pc \in Collecting /\ pc' \in Collecting
    BY <1>8 DEF Capture, CaptureRound
  <2>2. UNCHANGED <<mainVars, procVars, fake, collVars, mode>>
    BY <1>8 DEF Capture, CaptureRound
  <2> QED
    BY <2>1, <2>2
<1>9. CASE DrainEnds
  BY <1>9 DEF DrainEnds
<1>10. CASE Snapshot
  BY <1>10 DEF Snapshot
<1>11. CASE StopFake
  BY <1>11 DEF StopFake
<1>12. CASE Terminate
  BY <1>12 DEF Terminate
<1>13. CASE WaitForExit
  BY <1>13 DEF WaitForExit
<1>14. CASE ForceKill
  BY <1>14 DEF ForceKill
<1>15. CASE AwaitKilled
  BY <1>15 DEF AwaitKilled
<1>16. CASE VerifyAndClassify
  BY <1>16 DEF VerifyAndClassify, classifyLabResult
<1>17. CASE Finalize
  BY <1>17 DEF Finalize, NoFile
<1>18. CASE BuildResult
  BY <1>18 DEF BuildResult
<1>19. CASE PersistResult
  BY <1>19 DEF PersistResult, Ours, NoFile
<1>20. CASE WriteResult
  BY <1>20 DEF WriteResult, Ours, Torn
<1>21. CASE DrainReceives
  BY <1>21 DEF DrainReceives
<1>22. CASE DrainSeesEnd
  BY <1>22 DEF DrainSeesEnd
<1>23. CASE ObservationEnds
  BY <1>23 DEF ObservationEnds
<1>24. CASE PollCompletes
  BY <1>24 DEF PollCompletes
<1>25. CASE PollGivesUp
  BY <1>25 DEF PollGivesUp
<1>26. CASE PollExits
  BY <1>26 DEF PollExits
<1>27. ASSUME NEW p \in Procs, ProcessGone(p) PROVE NotYet'
  BY <1>27 DEF ProcessGone
<1>28. ASSUME NEW p \in Procs, SamplingFails(p) PROVE NotYet'
  BY <1>28 DEF SamplingFails
<1>29. ASSUME NEW p \in Procs, Sample(p) PROVE NotYet'
  BY <1>29, ZenonT(60) DEF Sample
<1>30. ASSUME NEW p \in Procs, FetchGoroutineCount(p) PROVE NotYet'
  BY <1>30 DEF FetchGoroutineCount
<1>31. ASSUME NEW p \in Procs, CollectorStops(p) PROVE NotYet'
  BY <1>31 DEF CollectorStops
<1>32. ASSUME NEW p \in Procs, Dies(p) PROVE NotYet'
  BY <1>32 DEF Dies
<1>33. ASSUME NEW p \in Procs, Monitor(p) PROVE NotYet'
  BY <1>33 DEF Monitor
<1>34. CASE UNCHANGED runVars
  BY <1>34
<1> QED
  BY <1>1, <1>2, <1>3, <1>4, <1>5, <1>6, <1>7, <1>8, <1>9, <1>10, <1>11, <1>12, <1>13, 
     <1>14, <1>15, <1>16, <1>17, <1>18, <1>19, <1>20, <1>21, <1>22, <1>23, <1>24, <1>25, 
     <1>26, <1>27, <1>28, <1>29, <1>30, <1>31, <1>32, <1>33, <1>34
     DEF RunNext, Main, Cleanup, Collect, Finished

(* Nothing runs after its stop: Snapshot waits for the collectors, StopFake *)
(* stops the fake, and the cleanup leaves a child only when it is reaped.  *)
LEMMA NoLongerStep ==
    RunTypeOK /\ NotYet /\ NoLonger /\ [RunNext]_runVars => NoLonger'
<1> SUFFICES ASSUME RunTypeOK, NotYet, NoLonger, [RunNext]_runVars PROVE NoLonger'
  OBVIOUS
<1> USE DEF RunTypeOK, PhasesOK, PartsOK, NotYet, NoLonger,
            GoesToFinalizer, ReturnsFailed, NextChild,
            Starting, Collecting, Stopping, Ending, Gone, Procs,
            mainVars, procVars, pollVars, drainVars, collVars, cleanFrame,
            collFrame, procFrame, runVars
<1>1. CASE PublishConfig
  BY <1>1 DEF PublishConfig
<1>2. CASE ValidateIdentity
  BY <1>2 DEF ValidateIdentity
<1>3. CASE StartTovarisch
  BY <1>3 DEF StartTovarisch
<1>4. CASE AwaitTovarisch
  BY <1>4 DEF AwaitTovarisch
<1>5. CASE StartUvb76
  BY <1>5 DEF StartUvb76
<1>6. CASE CheckUvb76
  BY <1>6 DEF CheckUvb76, Following
<1>7. CASE BeginCollection
  BY <1>7 DEF BeginCollection
<1>8. CASE Capture
  <2>1. pc \in Collecting /\ pc' \in Collecting
    BY <1>8 DEF Capture, CaptureRound
  <2>2. UNCHANGED <<mainVars, procVars, fake, collVars, mode>>
    BY <1>8 DEF Capture, CaptureRound
  <2> QED
    BY <2>1, <2>2
<1>9. CASE DrainEnds
  BY <1>9 DEF DrainEnds
<1>10. CASE Snapshot
  BY <1>10 DEF Snapshot
<1>11. CASE StopFake
  BY <1>11 DEF StopFake
<1>12. CASE Terminate
  BY <1>12 DEF Terminate
<1>13. CASE WaitForExit
  BY <1>13 DEF WaitForExit
<1>14. CASE ForceKill
  BY <1>14 DEF ForceKill
<1>15. CASE AwaitKilled
  BY <1>15 DEF AwaitKilled
<1>16. CASE VerifyAndClassify
  BY <1>16 DEF VerifyAndClassify, classifyLabResult
<1>17. CASE Finalize
  BY <1>17 DEF Finalize, NoFile
<1>18. CASE BuildResult
  BY <1>18 DEF BuildResult
<1>19. CASE PersistResult
  BY <1>19 DEF PersistResult, Ours, NoFile
<1>20. CASE WriteResult
  BY <1>20 DEF WriteResult, Ours, Torn
<1>21. CASE DrainReceives
  BY <1>21 DEF DrainReceives
<1>22. CASE DrainSeesEnd
  BY <1>22 DEF DrainSeesEnd
<1>23. CASE ObservationEnds
  BY <1>23 DEF ObservationEnds
<1>24. CASE PollCompletes
  BY <1>24 DEF PollCompletes
<1>25. CASE PollGivesUp
  BY <1>25 DEF PollGivesUp
<1>26. CASE PollExits
  BY <1>26 DEF PollExits
<1>27. ASSUME NEW p \in Procs, ProcessGone(p) PROVE NoLonger'
  BY <1>27 DEF ProcessGone
<1>28. ASSUME NEW p \in Procs, SamplingFails(p) PROVE NoLonger'
  BY <1>28 DEF SamplingFails
<1>29. ASSUME NEW p \in Procs, Sample(p) PROVE NoLonger'
  BY <1>29 DEF Sample
<1>30. ASSUME NEW p \in Procs, FetchGoroutineCount(p) PROVE NoLonger'
  BY <1>30 DEF FetchGoroutineCount
<1>31. ASSUME NEW p \in Procs, CollectorStops(p) PROVE NoLonger'
  BY <1>31 DEF CollectorStops
<1>32. ASSUME NEW p \in Procs, Dies(p) PROVE NoLonger'
  BY <1>32 DEF Dies
<1>33. ASSUME NEW p \in Procs, Monitor(p) PROVE NoLonger'
  BY <1>33 DEF Monitor
<1>34. CASE UNCHANGED runVars
  BY <1>34, SMTT(60)
<1> QED
  BY <1>1, <1>2, <1>3, <1>4, <1>5, <1>6, <1>7, <1>8, <1>9, <1>10, <1>11, <1>12, <1>13, 
     <1>14, <1>15, <1>16, <1>17, <1>18, <1>19, <1>20, <1>21, <1>22, <1>23, <1>24, <1>25, 
     <1>26, <1>27, <1>28, <1>29, <1>30, <1>31, <1>32, <1>33, <1>34
     DEF RunNext, Main, Cleanup, Collect, Finished

\* A run without an error has passed every phase as it should.
LEMMA UntroubledStep ==
    RunTypeOK /\ NotYet /\ NoLonger /\ Untroubled /\ [RunNext]_runVars => Untroubled'
<1> SUFFICES ASSUME RunTypeOK, NotYet, NoLonger, Untroubled, [RunNext]_runVars
             PROVE  Untroubled'
  OBVIOUS
<1> USE DEF RunTypeOK, PhasesOK, PartsOK, NotYet, NoLonger, Untroubled, Stopped,
            GoesToFinalizer, ReturnsFailed, NextChild,
            Starting, Collecting, Stopping, Ending, Gone, Procs,
            mainVars, procVars, pollVars, drainVars, collVars, cleanFrame,
            collFrame, procFrame, runVars
<1>1. CASE PublishConfig
  BY <1>1 DEF PublishConfig
<1>2. CASE ValidateIdentity
  BY <1>2 DEF ValidateIdentity
<1>3. CASE StartTovarisch
  BY <1>3 DEF StartTovarisch
<1>4. CASE AwaitTovarisch
  BY <1>4 DEF AwaitTovarisch
<1>5. CASE StartUvb76
  BY <1>5 DEF StartUvb76
<1>6. CASE CheckUvb76
  BY <1>6 DEF CheckUvb76, Following
<1>7. CASE BeginCollection
  BY <1>7 DEF BeginCollection
<1>8. CASE Capture
  BY <1>8 DEF Capture, CaptureRound
<1>9. CASE DrainEnds
  BY <1>9 DEF DrainEnds
<1>10. CASE Snapshot
  BY <1>10 DEF Snapshot
<1>11. CASE StopFake
  BY <1>11 DEF StopFake
<1>12. CASE Terminate
  BY <1>12 DEF Terminate
<1>13. CASE WaitForExit
  BY <1>13 DEF WaitForExit
<1>14. CASE ForceKill
  BY <1>14 DEF ForceKill
<1>15. CASE AwaitKilled
  BY <1>15 DEF AwaitKilled
<1>16. CASE VerifyAndClassify
  BY <1>16 DEF VerifyAndClassify, classifyLabResult
<1>17. CASE Finalize
  BY <1>17 DEF Finalize, NoFile
<1>18. CASE BuildResult
  BY <1>18 DEF BuildResult
<1>19. CASE PersistResult
  BY <1>19 DEF PersistResult, Ours, NoFile
<1>20. CASE WriteResult
  BY <1>20 DEF WriteResult, Ours, Torn
<1>21. CASE DrainReceives
  BY <1>21 DEF DrainReceives
<1>22. CASE DrainSeesEnd
  BY <1>22 DEF DrainSeesEnd
<1>23. CASE ObservationEnds
  BY <1>23 DEF ObservationEnds
<1>24. CASE PollCompletes
  BY <1>24 DEF PollCompletes
<1>25. CASE PollGivesUp
  BY <1>25 DEF PollGivesUp
<1>26. CASE PollExits
  BY <1>26 DEF PollExits
<1>27. ASSUME NEW p \in Procs, ProcessGone(p) PROVE Untroubled'
  BY <1>27 DEF ProcessGone
<1>28. ASSUME NEW p \in Procs, SamplingFails(p) PROVE Untroubled'
  BY <1>28 DEF SamplingFails
<1>29. ASSUME NEW p \in Procs, Sample(p) PROVE Untroubled'
  BY <1>29 DEF Sample
<1>30. ASSUME NEW p \in Procs, FetchGoroutineCount(p) PROVE Untroubled'
  BY <1>30 DEF FetchGoroutineCount
<1>31. ASSUME NEW p \in Procs, CollectorStops(p) PROVE Untroubled'
  BY <1>31 DEF CollectorStops
<1>32. ASSUME NEW p \in Procs, Dies(p) PROVE Untroubled'
  BY <1>32 DEF Dies
<1>33. ASSUME NEW p \in Procs, Monitor(p) PROVE Untroubled'
  BY <1>33 DEF Monitor
<1>34. CASE UNCHANGED runVars
  BY <1>34
<1> QED
  BY <1>1, <1>2, <1>3, <1>4, <1>5, <1>6, <1>7, <1>8, <1>9, <1>10, <1>11, <1>12, <1>13, 
     <1>14, <1>15, <1>16, <1>17, <1>18, <1>19, <1>20, <1>21, <1>22, <1>23, <1>24, <1>25, 
     <1>26, <1>27, <1>28, <1>29, <1>30, <1>31, <1>32, <1>33, <1>34
     DEF RunNext, Main, Cleanup, Collect, Finished

(* The verdict: classifyLabResult says OBSERVED only without an error, and  *)
(* what Untroubled adds is the rest of Seen.                               *)
LEMMA ConcludedStep ==
    RunTypeOK /\ NotYet /\ NoLonger /\ Untroubled /\ Concluded /\ [RunNext]_runVars => Concluded'
<1> SUFFICES ASSUME RunTypeOK, NotYet, NoLonger, Untroubled, Concluded, [RunNext]_runVars
             PROVE  Concluded'
  OBVIOUS
<1> USE DEF RunTypeOK, PhasesOK, PartsOK, Concluded, Seen,
            GoesToFinalizer, ReturnsFailed, NextChild,
            Starting, Collecting, Stopping, Ending, Gone, Procs,
            mainVars, procVars, pollVars, drainVars, collVars, cleanFrame,
            collFrame, procFrame, runVars
<1>1. CASE PublishConfig
  BY <1>1 DEF PublishConfig
<1>2. CASE ValidateIdentity
  BY <1>2 DEF ValidateIdentity
<1>3. CASE StartTovarisch
  BY <1>3 DEF StartTovarisch
<1>4. CASE AwaitTovarisch
  BY <1>4 DEF AwaitTovarisch
<1>5. CASE StartUvb76
  BY <1>5 DEF StartUvb76
<1>6. CASE CheckUvb76
  BY <1>6 DEF CheckUvb76, Following
<1>7. CASE BeginCollection
  BY <1>7 DEF BeginCollection
<1>8. CASE Capture
  BY <1>8 DEF Capture, CaptureRound
<1>9. CASE DrainEnds
  BY <1>9 DEF DrainEnds
<1>10. CASE Snapshot
  BY <1>10 DEF Snapshot
<1>11. CASE StopFake
  BY <1>11 DEF StopFake
<1>12. CASE Terminate
  BY <1>12 DEF Terminate
<1>13. CASE WaitForExit
  BY <1>13 DEF WaitForExit
<1>14. CASE ForceKill
  BY <1>14 DEF ForceKill
<1>15. CASE AwaitKilled
  BY <1>15 DEF AwaitKilled
<1>16. CASE VerifyAndClassify
  <2> SUFFICES ASSUME verdict' = "OBSERVED"
               PROVE  pc' = "persist" /\ ~failing' /\ Seen'
    BY <1>16 DEF VerifyAndClassify
  <2>1. PICK removed \in BOOLEAN :
           verdict' = classifyLabResult(errors' \/ ~removed,
                          got = "completed" /\ sampled = Procs)
    BY <1>16 DEF VerifyAndClassify
  <2>2. errors' = FALSE /\ got = "completed" /\ sampled = Procs
    BY <2>1, <1>16 DEF classifyLabResult, VerifyAndClassify
  <2>3. ~errors /\ ~failing /\ pc = "verify"
    BY <1>16, <2>2 DEF VerifyAndClassify
  <2>4. /\ terminated /\ ~profileErr /\ killed = {}
        /\ Stopped("uvb76") /\ Stopped("tovarisch")
        /\ proc["uvb76"] # "none"
        /\ mode = "fake" \/ proc["tovarisch"] # "none"
    BY <2>3 DEF Untroubled
  <2>5. Seen
    BY <2>2, <2>4 DEF Stopped
  <2> QED
    BY <1>16, <2>5 DEF VerifyAndClassify
<1>17. CASE Finalize
  BY <1>17 DEF Finalize, NoFile
<1>18. CASE BuildResult
  BY <1>18 DEF BuildResult
<1>19. CASE PersistResult
  BY <1>19 DEF PersistResult, Ours, NoFile
<1>20. CASE WriteResult
  BY <1>20 DEF WriteResult, Ours, Torn
<1>21. CASE DrainReceives
  BY <1>21 DEF DrainReceives
<1>22. CASE DrainSeesEnd
  BY <1>22 DEF DrainSeesEnd
<1>23. CASE ObservationEnds
  BY <1>23 DEF ObservationEnds
<1>24. CASE PollCompletes
  BY <1>24 DEF PollCompletes
<1>25. CASE PollGivesUp
  BY <1>25 DEF PollGivesUp
<1>26. CASE PollExits
  BY <1>26 DEF PollExits
<1>27. ASSUME NEW p \in Procs, ProcessGone(p) PROVE Concluded'
  BY <1>27 DEF ProcessGone
<1>28. ASSUME NEW p \in Procs, SamplingFails(p) PROVE Concluded'
  BY <1>28 DEF SamplingFails
<1>29. ASSUME NEW p \in Procs, Sample(p) PROVE Concluded'
  BY <1>29 DEF Sample
<1>30. ASSUME NEW p \in Procs, FetchGoroutineCount(p) PROVE Concluded'
  BY <1>30 DEF FetchGoroutineCount
<1>31. ASSUME NEW p \in Procs, CollectorStops(p) PROVE Concluded'
  BY <1>31 DEF CollectorStops
<1>32. ASSUME NEW p \in Procs, Dies(p) PROVE Concluded'
  BY <1>32 DEF Dies
<1>33. ASSUME NEW p \in Procs, Monitor(p) PROVE Concluded'
  BY <1>33 DEF Monitor
<1>34. CASE UNCHANGED runVars
  BY <1>34
<1> QED
  BY <1>1, <1>2, <1>3, <1>4, <1>5, <1>6, <1>7, <1>8, <1>9, <1>10, <1>11, <1>12, <1>13, 
     <1>14, <1>15, <1>16, <1>17, <1>18, <1>19, <1>20, <1>21, <1>22, <1>23, <1>24, <1>25, 
     <1>26, <1>27, <1>28, <1>29, <1>30, <1>31, <1>32, <1>33, <1>34
     DEF RunNext, Main, Cleanup, Collect, Finished

\* The publication: only the last two phases write the result.
LEMMA PublishedStep ==
    RunTypeOK /\ NotYet /\ NoLonger /\ Concluded /\ Published /\ [RunNext]_runVars => Published'
<1> SUFFICES ASSUME RunTypeOK, NotYet, NoLonger, Concluded, Published, [RunNext]_runVars
             PROVE  Published'
  OBVIOUS
<1> USE DEF RunTypeOK, PhasesOK, PartsOK, Concluded, Seen, Observed, Published,
            GoesToFinalizer, ReturnsFailed, NextChild,
            Starting, Collecting, Stopping, Ending, Gone, Procs,
            mainVars, procVars, pollVars, drainVars, collVars, cleanFrame,
            collFrame, procFrame, runVars
<1>1. CASE PublishConfig
  BY <1>1 DEF PublishConfig
<1>2. CASE ValidateIdentity
  BY <1>2 DEF ValidateIdentity
<1>3. CASE StartTovarisch
  BY <1>3 DEF StartTovarisch
<1>4. CASE AwaitTovarisch
  BY <1>4 DEF AwaitTovarisch
<1>5. CASE StartUvb76
  BY <1>5 DEF StartUvb76
<1>6. CASE CheckUvb76
  BY <1>6 DEF CheckUvb76, Following
<1>7. CASE BeginCollection
  BY <1>7 DEF BeginCollection
<1>8. CASE Capture
  BY <1>8 DEF Capture, CaptureRound
<1>9. CASE DrainEnds
  BY <1>9 DEF DrainEnds
<1>10. CASE Snapshot
  BY <1>10 DEF Snapshot
<1>11. CASE StopFake
  BY <1>11 DEF StopFake
<1>12. CASE Terminate
  BY <1>12 DEF Terminate
<1>13. CASE WaitForExit
  BY <1>13 DEF WaitForExit
<1>14. CASE ForceKill
  BY <1>14 DEF ForceKill
<1>15. CASE AwaitKilled
  BY <1>15 DEF AwaitKilled
<1>16. CASE VerifyAndClassify
  BY <1>16 DEF VerifyAndClassify, classifyLabResult
<1>17. CASE Finalize
  BY <1>17 DEF Finalize, NoFile
<1>18. CASE BuildResult
  BY <1>18 DEF BuildResult
<1>19. CASE PersistResult
  <2>1. verdict = "OBSERVED" => Observed'
    BY <1>19 DEF PersistResult
  <2>2. file' \in {Ours(TRUE), Ours(FALSE), NoFile, file}
    BY <1>19 DEF PersistResult
  <2>3. NoFile.by # "this" /\ file.by # "this"
    BY <1>19 DEF PersistResult, NoFile
  <2>4. (file').by = "this" /\ (file').ok => Observed'
    BY <2>1, <2>2, <2>3, OursSays
  <2>5. exit' = exit /\ exit = "none" /\ pc' = "write"
    BY <1>19 DEF PersistResult
  <2> QED
    BY <2>4, <2>5
<1>20. CASE WriteResult
  <2>1. verdict = "OBSERVED" => Observed'
    BY <1>20 DEF WriteResult
  <2>2. file' \in {Ours(FALSE), Torn, file}
    BY <1>20 DEF WriteResult
  <2>3. Torn.by # "this" /\ (file.by = "this" /\ file.ok => Observed')
    BY <1>20 DEF WriteResult, Torn
  <2>4. (file').by = "this" /\ (file').ok => Observed'
    BY <2>1, <2>2, <2>3, OursSays
  <2>5. /\ exit' = "success" => verdict = "OBSERVED"
        /\ exit' # "none" /\ pc' = "done"
    BY <1>20 DEF WriteResult
  <2> QED
    BY <2>1, <2>4, <2>5
<1>21. CASE DrainReceives
  BY <1>21 DEF DrainReceives
<1>22. CASE DrainSeesEnd
  BY <1>22 DEF DrainSeesEnd
<1>23. CASE ObservationEnds
  BY <1>23 DEF ObservationEnds
<1>24. CASE PollCompletes
  BY <1>24 DEF PollCompletes
<1>25. CASE PollGivesUp
  BY <1>25 DEF PollGivesUp
<1>26. CASE PollExits
  BY <1>26 DEF PollExits
<1>27. ASSUME NEW p \in Procs, ProcessGone(p) PROVE Published'
  BY <1>27 DEF ProcessGone
<1>28. ASSUME NEW p \in Procs, SamplingFails(p) PROVE Published'
  BY <1>28 DEF SamplingFails
<1>29. ASSUME NEW p \in Procs, Sample(p) PROVE Published'
  BY <1>29 DEF Sample
<1>30. ASSUME NEW p \in Procs, FetchGoroutineCount(p) PROVE Published'
  BY <1>30 DEF FetchGoroutineCount
<1>31. ASSUME NEW p \in Procs, CollectorStops(p) PROVE Published'
  BY <1>31 DEF CollectorStops
<1>32. ASSUME NEW p \in Procs, Dies(p) PROVE Published'
  BY <1>32 DEF Dies
<1>33. ASSUME NEW p \in Procs, Monitor(p) PROVE Published'
  BY <1>33 DEF Monitor
<1>34. CASE UNCHANGED runVars
  BY <1>34
<1> QED
  BY <1>1, <1>2, <1>3, <1>4, <1>5, <1>6, <1>7, <1>8, <1>9, <1>10, <1>11, <1>12, <1>13, 
     <1>14, <1>15, <1>16, <1>17, <1>18, <1>19, <1>20, <1>21, <1>22, <1>23, <1>24, <1>25, 
     <1>26, <1>27, <1>28, <1>29, <1>30, <1>31, <1>32, <1>33, <1>34
     DEF RunNext, Main, Cleanup, Collect, Finished

LEMMA RunStepKeeps == RunInv /\ [RunNext]_runVars => RunInv'
BY PhasesOKStep, PartsOKStep, FlagsOKStep, OutcomeOKStep, NotYetStep, NoLongerStep,
   UntroubledStep, ConcludedStep, PublishedStep DEF RunInv, RunTypeOK

LEMMA RunInvAlways == RunSpec => []RunInv
BY RunInitInv, RunStepKeeps, PTL DEF RunSpec

-----------------------------------------------------------------------------
(* The lab implements LabRun: the parts that live and those that were used *)
(* follow the children, the collectors and the fake.                       *)

LEMMA LiveWasUsed == Live \subseteq Used
BY DEF Live, Used

LEMMA LiveShrinks ==
    ASSUME \A p \in Procs : proc'[p] \in {"running", "zombie"} => proc[p] \in {"running", "zombie"},
           \A p \in Procs : coll'[p] \in {"running", "fetch"} => coll[p] \in {"running", "fetch"},
           fake' = "serving" => fake = "serving"
    PROVE  Live' \subseteq Live
BY DEF Live

LEMMA UsedKept ==
    ASSUME \A p \in Procs : proc'[p] = "none" <=> proc[p] = "none",
           \A p \in Procs : coll'[p] = "idle" <=> coll[p] = "idle",
           fake' = "none" <=> fake = "none"
    PROVE  Used' = Used
BY DEF Used

LEMMA NothingLeft ==
    ASSUME \A p \in Procs : proc[p] \in Gone,
           \A p \in Procs : coll[p] \in {"idle", "ended"},
           fake # "serving"
    PROVE  Live = {}
BY DEF Live, Gone

\* a step that starts the parts begun, and one that starts none
LEMMA PartsBegin ==
    ASSUME NEW begun, begun # {}, begun \cap Used = {},
           Live' = Live \cup begun, Used' = Used \cup begun,
           exit = "none", exit' = exit, file.by # "this", file' = file
    PROVE  Lab!Begin
BY LiveWasUsed DEF Lab!Begin

LEMMA PartsEnd ==
    ASSUME Live' \subseteq Live, Used' = Used, exit' = exit,
           (file'.by = "this") = (file.by = "this")
    PROVE  Lab!End
BY DEF Lab!End

\* a run begins as a run of LabRun does
LEMMA RunStartsAsLab == RunInit => Lab!LabInit
<1> SUFFICES ASSUME RunInit PROVE Lab!LabInit
  OBVIOUS
<1>1. Live = {}
  BY DEF RunInit, Live, Procs
<1>2. Used = {}
  BY DEF RunInit, Used, Procs
<1>3. file.by # "this" /\ exit = "none"
  BY DEF RunInit, NoFile, Earlier
<1> QED
  BY <1>1, <1>2, <1>3 DEF Lab!LabInit

\* the steps the promise of LabRun does not see
LEMMA QuietSteps ==
    RunNext =>
        \/ UNCHANGED <<proc, coll, fake, exit, file>>
        \/ PublishConfig \/ StartTovarisch \/ StartUvb76 \/ BeginCollection
        \/ StopFake \/ ForceKill \/ Finalize \/ PersistResult \/ WriteResult
        \/ \E p \in Procs : \/ ProcessGone(p) \/ Sample(p) \/ FetchGoroutineCount(p)
                            \/ CollectorStops(p) \/ Dies(p) \/ Monitor(p)
<1> DEFINE Quiet == UNCHANGED <<proc, coll, fake, exit, file>>
<1> USE DEF mainVars, procVars, pollVars, drainVars, collVars,
            cleanFrame, collFrame, procFrame, runVars
<1>1. ValidateIdentity => Quiet
  BY DEF ValidateIdentity
<1>2. AwaitTovarisch => Quiet
  BY DEF AwaitTovarisch
<1>3. CheckUvb76 => Quiet
  BY DEF CheckUvb76
<1>4. Capture => Quiet
  BY DEF Capture, CaptureRound
<1>5. DrainEnds => Quiet
  BY DEF DrainEnds
<1>6. Snapshot => Quiet
  BY DEF Snapshot
<1>7. Terminate => Quiet
  BY DEF Terminate
<1>8. WaitForExit => Quiet
  BY DEF WaitForExit
<1>9. AwaitKilled => Quiet
  BY DEF AwaitKilled
<1>10. VerifyAndClassify => Quiet
  BY DEF VerifyAndClassify
<1>11. BuildResult => Quiet
  BY DEF BuildResult
<1>12. DrainReceives => Quiet
  BY DEF DrainReceives
<1>13. DrainSeesEnd => Quiet
  BY DEF DrainSeesEnd
<1>14. ObservationEnds => Quiet
  BY DEF ObservationEnds
<1>15. PollCompletes => Quiet
  BY DEF PollCompletes
<1>16. PollGivesUp => Quiet
  BY DEF PollGivesUp
<1>17. PollExits => Quiet
  BY DEF PollExits
<1>18. \A p \in Procs : SamplingFails(p) => Quiet
  BY DEF SamplingFails
<1>19. Finished => Quiet
  BY DEF Finished
<1> HIDE DEF Quiet, mainVars, procVars, pollVars, drainVars, collVars,
            cleanFrame, collFrame, procFrame, runVars
<1>20. RunNext =>
        \/ Quiet
        \/ PublishConfig \/ StartTovarisch \/ StartUvb76 \/ BeginCollection
        \/ StopFake \/ ForceKill \/ Finalize \/ PersistResult \/ WriteResult
        \/ \E p \in Procs : \/ ProcessGone(p) \/ Sample(p) \/ FetchGoroutineCount(p)
                            \/ CollectorStops(p) \/ Dies(p) \/ Monitor(p)
  BY <1>1, <1>2, <1>3, <1>4, <1>5, <1>6, <1>7, <1>8, <1>9, <1>10, <1>11, <1>12, <1>13, 
     <1>14, <1>15, <1>16, <1>17, <1>18, <1>19
     DEF RunNext, Main, Cleanup, Collect
<1> QED
  BY <1>20 DEF Quiet

\* the three starts begin parts that were never used
LEMMA StartsBegin ==
    RunInv /\ (StartTovarisch \/ StartUvb76 \/ BeginCollection)
        => Lab!Begin \/ UNCHANGED <<proc, coll, fake, exit, file>>
<1> SUFFICES ASSUME RunInv, StartTovarisch \/ StartUvb76 \/ BeginCollection,
                    ~UNCHANGED <<proc, coll, fake, exit, file>>
             PROVE  Lab!Begin
  OBVIOUS
<1> USE DEF mainVars, procVars, collVars
<1>1. PartsOK /\ NotYet /\ Published
  BY DEF RunInv, RunTypeOK
<1>2. exit = "none" /\ file.by # "this" /\ UNCHANGED <<exit, file>>
  <2>1. pc \in Starting /\ UNCHANGED <<exit, file>>
    BY DEF StartTovarisch, StartUvb76, BeginCollection, Starting
  <2> QED
    BY <1>1, <2>1 DEF Published, Starting
<1>3. CASE StartTovarisch
  <2>1. proc["tovarisch"] = "none" /\ fake = "none"
    BY <1>1, <1>3 DEF StartTovarisch, NotYet
  <2>2. CASE mode = "fake"
    <3> DEFINE begun == {<<"server", "tovarisch">>}
    <3>1. fake' = "serving" /\ UNCHANGED <<proc, coll>>
      BY <1>3, <2>2 DEF StartTovarisch, ReturnsFailed
    <3>2. begun # {} /\ begun \cap Used = {}
      BY <2>1 DEF Used, Procs
    <3>3. Live' = Live \cup begun /\ Used' = Used \cup begun
      BY <2>1, <3>1 DEF Live, Used
    <3> QED
      BY <1>2, <3>2, <3>3, PartsBegin
  <2>3. CASE mode # "fake"
    <3> DEFINE begun == {<<"child", "tovarisch">>}
    <3>1. proc' = [proc EXCEPT !["tovarisch"] = "running"] /\ UNCHANGED <<fake, coll>>
      BY <1>3, <2>3 DEF StartTovarisch, ReturnsFailed
    <3>2. begun # {} /\ begun \cap Used = {}
      BY <2>1 DEF Used, Procs
    <3>3. Live' = Live \cup begun /\ Used' = Used \cup begun
      BY <1>1, <2>1, <3>1 DEF Live, Used, PartsOK, Procs
    <3> QED
      BY <1>2, <3>2, <3>3, PartsBegin
  <2> QED
    BY <2>2, <2>3
<1>4. CASE StartUvb76
  <2> DEFINE begun == {<<"child", "uvb76">>}
  <2>1. proc["uvb76"] = "none"
    BY <1>1, <1>4 DEF StartUvb76, NotYet
  <2>2. proc' = [proc EXCEPT !["uvb76"] = "running"] /\ UNCHANGED <<fake, coll>>
    BY <1>4 DEF StartUvb76, GoesToFinalizer
  <2>3. begun # {} /\ begun \cap Used = {}
    BY <2>1 DEF Used, Procs
  <2>4. Live' = Live \cup begun /\ Used' = Used \cup begun
    BY <1>1, <2>1, <2>2 DEF Live, Used, PartsOK, Procs
  <2> QED
    BY <1>2, <2>3, <2>4, PartsBegin
<1>5. CASE BeginCollection
  <2> DEFINE begun == {<<"collector", c>> : c \in Procs}
  <2>1. \A c \in Procs : coll[c] = "idle"
    BY <1>1, <1>5 DEF BeginCollection, NotYet, Starting
  <2>2. coll' = [c \in Procs |-> "running"] /\ UNCHANGED <<fake, proc>>
    BY <1>5 DEF BeginCollection, GoesToFinalizer
  <2>3. \A c \in Procs : <<"collector", c>> \notin Used
    BY <2>1 DEF Used
  <2>4. begun # {} /\ begun \cap Used = {}
    BY <2>3 DEF Procs
  <2>5. Live' = Live \cup begun /\ Used' = Used \cup begun
    BY <2>1, <2>2 DEF Live, Used, Procs
  <2> QED
    BY <1>2, <2>4, <2>5, PartsBegin
<1> QED
  BY <1>3, <1>4, <1>5

\* these steps start nothing, and may end a part
LEMMA StopsEnd ==
    RunInv /\ (\/ StopFake \/ ForceKill \/ Finalize
               \/ \E p \in Procs : \/ ProcessGone(p) \/ Sample(p) \/ FetchGoroutineCount(p)
                                   \/ CollectorStops(p) \/ Dies(p) \/ Monitor(p))
        => Lab!End
<1> USE DEF mainVars, procVars, collVars, cleanFrame, collFrame, procFrame
<1> SUFFICES ASSUME RunInv,
                    \/ StopFake \/ ForceKill \/ Finalize
                    \/ \E p \in Procs : \/ ProcessGone(p) \/ Sample(p) \/ FetchGoroutineCount(p)
                                        \/ CollectorStops(p) \/ Dies(p) \/ Monitor(p)
             PROVE  Lab!End
  OBVIOUS
<1>1. PhasesOK /\ PartsOK /\ Published
  BY DEF RunInv, RunTypeOK
<1>2. CASE StopFake
  <2>1. UNCHANGED <<proc, coll, exit, file>> /\ (fake' = "none" <=> fake = "none")
        /\ fake' # "serving"
    BY <1>2 DEF StopFake
  <2> QED
    BY <2>1, LiveShrinks, UsedKept, PartsEnd
<1>3. CASE ForceKill
  <2>1. \A p \in Procs : /\ proc'[p] \in {"running", "zombie"} => proc[p] \in {"running", "zombie"}
                         /\ proc'[p] = "none" <=> proc[p] = "none"
    BY <1>1, <1>3 DEF ForceKill, PartsOK, PhasesOK
  <2>2. UNCHANGED <<coll, fake, exit, file>>
    BY <1>3 DEF ForceKill
  <2> QED
    BY <2>1, <2>2, LiveShrinks, UsedKept, PartsEnd
<1>4. CASE Finalize
  <2>1. file.by # "this" /\ file'.by # "this"
    BY <1>1, <1>4 DEF Finalize, Published, NoFile
  <2>2. UNCHANGED <<proc, coll, fake, exit>>
    BY <1>4 DEF Finalize
  <2> QED
    BY <2>1, <2>2, LiveShrinks, UsedKept, PartsEnd
<1>5. ASSUME NEW p \in Procs, ProcessGone(p) \/ Sample(p) \/ FetchGoroutineCount(p) \/ CollectorStops(p)
      PROVE  Lab!End
  <2>1. \A c \in Procs : /\ coll'[c] \in {"running", "fetch"} => coll[c] \in {"running", "fetch"}
                         /\ coll'[c] = "idle" <=> coll[c] = "idle"
    BY <1>1, <1>5 DEF ProcessGone, Sample, FetchGoroutineCount, CollectorStops, PartsOK
  <2>2. UNCHANGED <<proc, fake, exit, file>>
    BY <1>5 DEF ProcessGone, Sample, FetchGoroutineCount, CollectorStops
  <2> QED
    BY <2>1, <2>2, LiveShrinks, UsedKept, PartsEnd
<1>6. ASSUME NEW p \in Procs, Dies(p) \/ Monitor(p)
      PROVE  Lab!End
  <2>1. \A q \in Procs : /\ proc'[q] \in {"running", "zombie"} => proc[q] \in {"running", "zombie"}
                         /\ proc'[q] = "none" <=> proc[q] = "none"
    BY <1>1, <1>6 DEF Dies, Monitor, PartsOK
  <2>2. UNCHANGED <<coll, fake, exit, file>>
    BY <1>6 DEF Dies, Monitor
  <2> QED
    BY <2>1, <2>2, LiveShrinks, UsedKept, PartsEnd
<1> QED
  BY <1>2, <1>3, <1>4, <1>5, <1>6

\* whoever returns or writes the result does so when no part is left
LEMMA ResultsPublish ==
    RunInv /\ (PublishConfig \/ PersistResult \/ WriteResult) => Lab!Publish
<1> SUFFICES ASSUME RunInv, PublishConfig \/ PersistResult \/ WriteResult PROVE Lab!Publish
  OBVIOUS
<1> USE DEF mainVars, procVars, collVars
<1>1. PhasesOK /\ PartsOK /\ NotYet /\ NoLonger /\ Concluded /\ Published
  BY DEF RunInv, RunTypeOK
<1>2. UNCHANGED <<Live, Used>>
  <2>1. UNCHANGED <<proc, coll, fake>>
    BY DEF PublishConfig, PersistResult, WriteResult
  <2> QED
    BY <2>1 DEF Live, Used
<1>3. Live = {}
  <2>1. CASE PublishConfig
    <3>1. /\ proc["tovarisch"] = "none" /\ proc["uvb76"] = "none" /\ fake = "none"
          /\ \A c \in Procs : coll[c] = "idle"
      BY <1>1, <2>1 DEF PublishConfig, NotYet, Starting
    <3> QED
      BY <3>1, NothingLeft DEF Gone, Procs
  <2>2. CASE PersistResult \/ WriteResult
    <3>1. pc \in Ending /\ pc \notin Starting \cup Collecting
      BY <2>2 DEF PersistResult, WriteResult, Ending, Starting, Collecting
    <3>2. /\ proc["tovarisch"] \in Gone /\ proc["uvb76"] \in Gone /\ fake # "serving"
          /\ \A c \in Procs : coll[c] \in {"idle", "ended"}
      BY <1>1, <3>1 DEF NoLonger
    <3> QED
      BY <3>2, NothingLeft DEF Procs
  <2> QED
    BY <2>1, <2>2
<1>4. exit = "none" /\ exit' \in {"none", "success", "failure"}
  BY <1>1 DEF PublishConfig, PersistResult, WriteResult, Published
<1>5. exit' = "success" => file'.by = "this" /\ {"child", "collector"} \X Procs \subseteq Used
  <2> SUFFICES ASSUME exit' = "success"
               PROVE  file'.by = "this" /\ {"child", "collector"} \X Procs \subseteq Used
    OBVIOUS
  <2>1. file' = Ours(FALSE) /\ verdict = "OBSERVED"
    BY <1>4 DEF PublishConfig, PersistResult, WriteResult
  <2>2. pc = "write"
    BY <1>4 DEF PublishConfig, PersistResult, WriteResult
  <2>3. \A p \in Procs : proc[p] = "recorded" /\ coll[p] # "idle"
    BY <1>1, <2>1, <2>2 DEF Concluded, Seen, NotYet
  <2>4. \A p \in Procs : <<"child", p>> \in Used /\ <<"collector", p>> \in Used
    BY <2>3 DEF Used
  <2>5. file'.by = "this"
    BY <2>1, OursSays
  <2>6. {"child", "collector"} \X Procs \subseteq Used
    <3> SUFFICES ASSUME NEW part \in {"child", "collector"} \X Procs
                 PROVE  part \in Used
      OBVIOUS
    <3>1. PICK kind \in {"child", "collector"}, p \in Procs : part = <<kind, p>>
      OBVIOUS
    <3> QED
      BY <2>4, <3>1
  <2> QED
    BY <2>5, <2>6
<1> QED
  BY <1>2, <1>3, <1>4, <1>5 DEF Lab!Publish

LEMMA RunStepsAsLab ==
    RunInv /\ [RunNext]_runVars
        => [Lab!Begin \/ Lab!End \/ Lab!Publish]_(Lab!labvars)
<1>1. UNCHANGED <<proc, coll, fake, exit, file>> => UNCHANGED Lab!labvars
  BY DEF Lab!labvars, Live, Used
<1>2. UNCHANGED runVars => UNCHANGED Lab!labvars
  BY DEF Lab!labvars, Live, Used, runVars, mainVars, procVars, collVars
<1> QED
  BY <1>1, <1>2, QuietSteps, StartsBegin, StopsEnd, ResultsPublish

(* The state of a run has its type throughout. *)
THEOREM RunTypeCorrect == RunSpec => []RunTypeOK
<1>1. RunInv => RunTypeOK
  BY DEF RunInv
<1> QED
  BY <1>1, RunInvAlways, PTL

(* runMain returns success, and result.json says OK, only after a run with *)
(* two real children that stopped when asked, a scrape that completed,     *)
(* samples of both and every round of profiles (classifyLabResult).        *)
THEOREM OutcomeAlwaysProven == RunSpec => []OutcomeProven
<1>1. RunInv => OutcomeProven
  BY DEF RunInv, Published, OutcomeProven
<1> QED
  BY <1>1, RunInvAlways, PTL

(* Every part runs at most once, the result is published and the run ends  *)
(* only when no child or collector is left and a fake server was shut      *)
(* down, though that may have failed, and a success had all its parts      *)
(* (cleanup, cleanupOwnedProcesses, CollectAndSnapshot).                   *)
THEOREM LabImplemented == RunSpec => LabKept
BY RunStartsAsLab, RunStepsAsLab, RunInvAlways, PTL DEF RunSpec, LabKept, Lab!LabSpec
=============================================================================
