-------------------------------- MODULE Bfd --------------------------------
(***************************************************************************)
(* The BFD session of tovarisch (bfd/session.zig) and the two threads that *)
(* step it without a lock: the receive loop (bfd/receive.zig) and the      *)
(* transmit loop (bfd/transmit.zig, bfd/runtime.zig), with the shutdown    *)
(* that joins them (cli/bfd_serve.zig).  The peer is BIRD, a system that   *)
(* follows RFC 5880 and may stop and start again with a new discriminator. *)
(* Packets are lost, and those to the daemon may be late and overtake each *)
(* other; BIRD receives at once or never.                                  *)
(*                                                                         *)
(* Steps of the two threads are as fine as their accesses to the session   *)
(* can interfere.  Time is counted in transmit intervals.                  *)
(***************************************************************************)
EXTENDS Naturals, FiniteSets

CONSTANTS
    Multiplier,         \* detect_mult of both ends: intervals until a timeout
    Restarts,           \* bound: times the peer starts again
    MaxFlight           \* bound: packets under way to the daemon

ASSUME MultiplierAssumption == Multiplier \in Nat \ {0}
ASSUME BoundsAssumption == Restarts \in Nat /\ MaxFlight \in Nat \ {0}

VARIABLES
    state, remote_discr,    \* the session, as both threads see it
    age,                    \* now - last_packet_recv_time
    sent,                   \* stats.packets_sent > 0
    due,                    \* now >= next_transmit_time
    rpc, pkt, new_state,    \* receive thread: step, received state, local variable
    tpc, elapsed,           \* transmit thread: step, local variable
    mpc,                    \* main thread: progress of cleanupBfdBundle
    p_state, p_discr, p_remote, p_age,  \* the peer's session
    to_local,               \* packets under way
    calm,                   \* from here on nothing is lost, nobody restarts and
                            \* the threads do not read the clock at odds
    quiet,                  \* time since a packet was accepted
    overtaken,              \* a packet is accepted while the transmit thread tests the timer
    heard                   \* the peer has received a packet of this daemon

session == <<state, remote_discr, age, sent, due>>
rx == <<rpc, pkt, new_state>>
tx == <<tpc, elapsed, overtaken>>
peer == <<p_state, p_discr, p_remote, p_age>>
net == <<to_local, calm>>
vars == <<session, rx, tx, mpc, peer, net, quiet, heard>>

None == 0                           \* discriminator not known
PeerDiscrs == 1 .. Restarts + 1     \* one for each start of the peer
Here == Restarts + 2                \* this daemon's discriminator
Before == Restarts + 3              \* that of the daemon before it

States == {"down", "init", "up"}
Wrapped == Multiplier + 1           \* what a negative difference wraps to

PeerPackets ==
    [state : States \cup {"admin_down"}, my : PeerDiscrs, your : {None, Here, Before}]

TypeOK ==
    /\ state \in States /\ remote_discr \in {None} \cup PeerDiscrs
    /\ age \in 0 .. Multiplier /\ quiet \in 0 .. Multiplier
    /\ sent \in BOOLEAN /\ due \in BOOLEAN
    /\ rpc \in {"recv", "stamp", "decide", "write", "done"}
    /\ pkt \in States \cup {"admin_down"} /\ new_state \in States \cup {"kept"}
    /\ tpc \in {"top", "elapsed", "timeout", "forget", "transmit", "done"}
    /\ elapsed \in 0 .. Wrapped /\ overtaken \in BOOLEAN
    /\ mpc \in {"serving", "join_rx", "join_tx", "freed"}
    /\ p_state \in States \cup {"admin_down", "stopped"} /\ p_discr \in PeerDiscrs
    /\ p_remote \in {None, Here, Before}
    /\ p_age \in 0 .. Multiplier
    /\ to_local \subseteq PeerPackets
    /\ calm \in BOOLEAN
    /\ heard \in BOOLEAN

\* loadConfigAndBfd has started the session; the peer may still be in a
\* session with the daemon that ran before
Init ==
    /\ state = "down" /\ remote_discr = None
    /\ age = Multiplier /\ quiet = Multiplier /\ sent = FALSE /\ due = TRUE
    /\ rpc = "recv" /\ pkt = "down" /\ new_state = "kept"
    /\ tpc = "top" /\ elapsed = 0 /\ overtaken = FALSE
    /\ mpc = "serving"
    /\ p_discr = 1 /\ p_age = 0
    /\ \/ p_state = "down" /\ p_remote \in {None, Before}
       \/ p_state \in {"init", "up"} /\ p_remote = Before
    /\ to_local = {} /\ calm = FALSE
    /\ heard = FALSE

-----------------------------------------------------------------------------
(* What the peer makes of a packet (RFC 5880, 6.8.6) *)

PeerNext(received) ==
    CASE p_state = "down" /\ received = "down"              -> "init"
      [] p_state = "down" /\ received = "init"              -> "up"
      [] p_state = "init" /\ received \in {"init", "up"}    -> "up"
      [] p_state = "up" /\ received = "down"                -> "down"
      [] OTHER                                              -> p_state

PeerReceives(p) ==
    IF p_state \in States /\ (p.your = p_discr \/ (p.your = None /\ p.state = "down"))
    THEN /\ p_state' = PeerNext(p.state)
         /\ p_remote' = Here /\ p_age' = 0 /\ heard' = TRUE
         /\ UNCHANGED p_discr
    ELSE UNCHANGED <<peer, heard>>

-----------------------------------------------------------------------------
(* bfdReceiveLoop and handlePacketReceived *)

nextState(current, received) ==
    CASE current = "down" /\ received \in {"init", "up"} -> received
      [] current = "init" /\ received \in {"init", "up"} -> "up"
      [] current = "init" /\ received = "down"           -> "down"
      [] current = "up" /\ received \in {"down", "init"} -> received
      [] OTHER                                           -> current

\* the loop tests the flag before it polls, and may receive once more
RxStops ==
    /\ rpc = "recv" /\ mpc /= "serving"
    /\ rpc' = "done"
    /\ UNCHANGED <<session, pkt, new_state, tx, mpc, peer, net, quiet, heard>>

\* a packet has been accepted
Accept(p) ==
    /\ pkt' = p.state /\ rpc' = "stamp" /\ quiet' = 0
    /\ overtaken' = (tpc \in {"elapsed", "timeout"})

\* variant: a packet for another discriminator is taken
RxReceive_AnyDiscr(p) ==
    /\ rpc = "recv" /\ p \in to_local
    /\ to_local' = to_local \ {p}
    /\ remote_discr' = IF remote_discr = None THEN p.my ELSE remote_discr
    /\ Accept(p)
    /\ UNCHANGED <<state, age, sent, due, new_state, tpc, elapsed, mpc, peer, calm, heard>>

\* the discriminator is learned before the packet is looked at
RxReceive(p) ==
    /\ rpc = "recv" /\ p \in to_local
    /\ to_local' = to_local \ {p}
    /\ remote_discr' = IF remote_discr = None THEN p.my ELSE remote_discr
    /\ IF p.your \in {None, Here}
       THEN Accept(p)
       ELSE rpc' = "recv" /\ UNCHANGED <<pkt, quiet, overtaken>>
    /\ UNCHANGED <<state, age, sent, due, new_state, tpc, elapsed, mpc, peer, calm, heard>>

\* a transmit thread that has read the clock before the packet came may
\* subtract a later time from it
Differences ==
    IF tpc /= "elapsed" THEN {elapsed} ELSE IF calm THEN {0} ELSE {0, Wrapped}

\* variant: the time is taken when a session comes up, not at every packet
RxStamp_OnceUp ==
    /\ rpc = "stamp"
    /\ IF state = "up" THEN UNCHANGED <<age, elapsed>>
       ELSE age' = 0 /\ elapsed' \in Differences
    /\ rpc' = "decide"
    /\ UNCHANGED <<state, remote_discr, sent, due, pkt, new_state, tpc, overtaken, mpc, peer, net,
                   quiet, heard>>

\* last_packet_recv_time
RxStamp ==
    /\ rpc = "stamp"
    /\ age' = 0
    /\ elapsed' \in Differences
    /\ rpc' = "decide"
    /\ UNCHANGED <<state, remote_discr, sent, due, pkt, new_state, tpc, overtaken, mpc, peer, net,
                   quiet, heard>>

\* whether sess.state is read once or again for the comparison is up to the
\* compiler: an equal state is written back or not
RxDecide ==
    /\ rpc = "decide"
    /\ new_state' \in {nextState(state, pkt)}
                        \cup (IF nextState(state, pkt) = state THEN {"kept"} ELSE {})
    /\ pkt' = "down" /\ rpc' = "write"
    /\ UNCHANGED <<session, tx, mpc, peer, net, quiet, heard>>

RxWrite ==
    /\ rpc = "write"
    /\ state' = IF new_state = "kept" THEN state ELSE new_state
    /\ new_state' = "kept" /\ rpc' = "recv"
    /\ UNCHANGED <<remote_discr, age, sent, due, pkt, tx, mpc, peer, net, quiet, heard>>

-----------------------------------------------------------------------------
(* bfdTransmitLoop and tick *)

Watched == state \in {"init", "up"} /\ remote_discr /= None

\* variant: only a session that is up is watched
TxTop_OnlyUp ==
    /\ tpc = "top"
    /\ tpc' = IF mpc /= "serving" THEN "done"
              ELSE IF state = "up" /\ remote_discr /= None THEN "elapsed" ELSE "transmit"
    /\ elapsed' = IF tpc' = "elapsed" THEN age ELSE 0
    /\ overtaken' = (tpc' = "elapsed" /\ rpc = "stamp")
    /\ UNCHANGED <<session, rx, mpc, peer, net, quiet, heard>>

\* isDetectionExpired reads the clock ...
TxTop ==
    /\ tpc = "top"
    /\ tpc' = IF mpc /= "serving" THEN "done" ELSE IF Watched THEN "elapsed" ELSE "transmit"
    /\ elapsed' = IF tpc' = "elapsed" THEN age ELSE 0
    /\ overtaken' = (tpc' = "elapsed" /\ rpc = "stamp")
    /\ UNCHANGED <<session, rx, mpc, peer, net, quiet, heard>>

\* ... and then the time of the last packet
TxElapsed ==
    /\ tpc = "elapsed"
    /\ tpc' = IF elapsed >= Multiplier THEN "timeout" ELSE "transmit"
    /\ elapsed' = 0
    /\ overtaken' = (tpc' = "timeout" /\ overtaken)
    /\ UNCHANGED <<session, rx, mpc, peer, net, quiet, heard>>

\* handleDetectionTimeout looks at the state again, but not at the time
TxTimeout ==
    /\ tpc = "timeout"
    /\ IF state \in {"init", "up"}
       THEN state' = "down" /\ tpc' = "forget"
       ELSE tpc' = "transmit" /\ UNCHANGED state
    /\ overtaken' = FALSE
    /\ UNCHANGED <<remote_discr, age, sent, due, rx, elapsed, mpc, peer, net, quiet, heard>>

TxForget ==
    /\ tpc = "forget"
    /\ remote_discr' = None
    /\ tpc' = "transmit"
    /\ UNCHANGED <<state, age, sent, due, rx, elapsed, overtaken, mpc, peer, net, quiet, heard>>

\* a session that is down and has not heard its peer sends one packet only
isTransmitDue == due /\ ~(state = "down" /\ sent /\ remote_discr = None)

TxNotDue ==
    /\ tpc = "transmit" /\ ~isTransmitDue
    /\ tpc' = "top"
    /\ UNCHANGED <<session, rx, elapsed, overtaken, mpc, peer, net, quiet, heard>>

\* variant: the peer's discriminator is left out of the packet
TxTransmit_NoYour ==
    /\ tpc = "transmit" /\ isTransmitDue
    /\ PeerReceives([state |-> state, your |-> None]) \/ (~calm /\ UNCHANGED <<peer, heard>>)
    /\ sent' = TRUE /\ due' = FALSE
    /\ tpc' = "top"
    /\ UNCHANGED <<state, remote_discr, age, rx, elapsed, overtaken, mpc, net, quiet>>

TxTransmit ==
    /\ tpc = "transmit" /\ isTransmitDue
    /\ PeerReceives([state |-> state, your |-> remote_discr]) \/ (~calm /\ UNCHANGED <<peer, heard>>)
    /\ sent' = TRUE /\ due' = FALSE
    /\ tpc' = "top"
    /\ UNCHANGED <<state, remote_discr, age, rx, elapsed, overtaken, mpc, net, quiet>>

\* sendPacket fails: the packet counts as sent, and the next tick tries again
TxTransmitFails ==
    /\ tpc = "transmit" /\ isTransmitDue /\ ~calm
    /\ sent' = TRUE
    /\ tpc' = "top"
    /\ UNCHANGED <<state, remote_discr, age, due, rx, elapsed, overtaken, mpc, peer, net, quiet, heard>>

-----------------------------------------------------------------------------
(* cleanupBfdBundle *)

\* what the peer and the network do from here on is left out: it does not
\* affect the joins
MainStop ==
    /\ mpc = "serving"
    /\ mpc' = "join_rx"
    /\ p_state' = "stopped" /\ p_remote' = None /\ p_age' = 0 /\ calm' = FALSE
    /\ UNCHANGED <<session, rx, tx, p_discr, to_local, quiet, heard>>

MainJoinReceive ==
    /\ mpc = "join_rx" /\ rpc = "done"
    /\ mpc' = "join_tx"
    /\ UNCHANGED <<session, rx, tx, peer, net, quiet, heard>>

\* the bundle, with the session in it, is destroyed
MainJoinTransmit ==
    /\ mpc = "join_tx" /\ tpc = "done"
    /\ mpc' = "freed"
    /\ UNCHANGED <<session, rx, tx, peer, net, quiet, heard>>

-----------------------------------------------------------------------------
(* The peer, the network and time, while the daemon serves *)

PeerExpired == p_age = Multiplier

PeerTimesOut ==
    /\ mpc = "serving" /\ PeerExpired
    /\ p_state' = IF p_state \in {"init", "up"} THEN "down" ELSE p_state
    /\ p_remote' = None /\ p_age' = 0
    /\ UNCHANGED <<session, rx, tx, mpc, p_discr, net, quiet, heard>>

PeerPacket == [state |-> p_state, my |-> p_discr, your |-> p_remote]

\* in a calm network once an interval, see Prompt
PeerTransmits ==
    /\ mpc = "serving" /\ ~calm /\ p_state /= "stopped"
    /\ Cardinality(to_local) < MaxFlight /\ to_local' = to_local \cup {PeerPacket}
    /\ UNCHANGED <<session, rx, tx, mpc, peer, calm, quiet, heard>>

\* a packet under way may be lost
Lose ==
    /\ mpc = "serving" /\ ~calm
    /\ \E p \in to_local : to_local' = to_local \ {p}
    /\ UNCHANGED <<session, rx, tx, mpc, peer, calm, quiet, heard>>

\* the operator disables the session, or the peer stops without a word
PeerStops ==
    /\ mpc = "serving" /\ ~calm
    /\ \/ p_state \in States /\ p_state' = "admin_down"
       \/ p_state /= "stopped" /\ p_state' = "stopped"
    /\ p_remote' = None /\ p_age' = 0
    /\ UNCHANGED <<session, rx, tx, mpc, p_discr, net, quiet, heard>>

PeerStarts ==
    /\ mpc = "serving" /\ p_state \in {"admin_down", "stopped"} /\ p_discr <= Restarts
    /\ p_state' = "down" /\ p_discr' = p_discr + 1 /\ p_remote' = None /\ p_age' = 0
    /\ UNCHANGED <<session, rx, tx, mpc, net, quiet, heard>>

\* from here on nothing is lost or late, the peer stays, and no packet comes between
\* the two reads of isDetectionExpired in such a way that the difference wraps
CalmDown ==
    /\ mpc = "serving" /\ ~calm /\ p_state \in States /\ to_local = {}
    /\ calm' = TRUE
    /\ UNCHANGED <<session, rx, tx, mpc, peer, to_local, quiet, heard>>

Up(t) == IF t < Multiplier THEN t + 1 ELSE t

\* in a calm network all that is due in an interval is done in it, and the
\* peer transmits in each
Prompt ==
    /\ to_local = {} /\ ~PeerExpired /\ rpc = "recv" /\ tpc = "top"
    /\ ~isTransmitDue /\ ~(Watched /\ age = Multiplier)
    /\ to_local' = {PeerPacket}

Tick ==
    /\ mpc = "serving"
    /\ IF calm THEN Prompt ELSE UNCHANGED to_local
    /\ age' = Up(age) /\ quiet' = Up(quiet)
    /\ p_age' = IF p_remote = None THEN 0 ELSE Up(p_age)
    /\ due' = TRUE
    /\ UNCHANGED <<state, remote_discr, sent, rx, tx, mpc, p_state, p_discr, p_remote, calm, heard>>

-----------------------------------------------------------------------------
Receiver ==
    \/ RxStops \/ RxStamp \/ RxDecide \/ RxWrite
    \/ \E p \in to_local : RxReceive(p)

Transmitter ==
    \/ TxTop \/ TxElapsed \/ TxTimeout \/ TxForget
    \/ TxNotDue \/ TxTransmit \/ TxTransmitFails

Joins == MainJoinReceive \/ MainJoinTransmit

Peer == PeerTimesOut \/ PeerTransmits \/ Lose \/ PeerStops \/ PeerStarts

Next ==
    \/ Receiver \/ Transmitter
    \/ MainStop \/ Joins
    \/ Peer \/ CalmDown \/ Tick
    \/ mpc = "freed" /\ UNCHANGED vars     \* the daemon has shut down

Spec == Init /\ [][Next]_vars

(* Both threads run and time passes; a packet that stays under way arrives, *)
(* the receive thread heeds the flag, and a peer keeps its timers.         *)
Fairness ==
    /\ WF_vars(Receiver) /\ SF_vars(RxStops)
    /\ WF_vars(Transmitter)
    /\ WF_vars(Joins)
    /\ WF_vars(PeerTimesOut)
    /\ SF_vars(Tick)

FairSpec == Spec /\ Fairness

-----------------------------------------------------------------------------
(* The session leaves down only if the peer has heard this daemon, and not *)
(* the one before it: packets that were meant for the old one, or crossed  *)
(* its end, do not count (the discriminator check of handlePacketReceived).*)
HeardBeforeInit == state \in {"init", "up"} => heard

(* When handleDetectionTimeout takes the session down, no packet has been  *)
(* accepted for the detection time - unless the receive thread was         *)
(* accepting one between the transmit thread's reading of the clock and    *)
(* this step.  Such a packet is stamped too late for the test, or makes    *)
(* its difference wrap, or comes between the test and the act: in each     *)
(* case a session that has just been heard goes down.                      *)
NoFalseAlarm ==
    [][tpc = "timeout" /\ tpc' = "forget" => quiet = Multiplier \/ overtaken]_vars

(* The session is freed only when neither thread can touch it any more     *)
(* ("Threads are joinable to prevent use-after-free during cleanup").      *)
FreedLast == mpc = "freed" => rpc = "done" /\ tpc = "done"

(* The session is moved by the peer it has, and only while it exists.      *)
SessionSafe == HeardBeforeInit /\ FreedLast

(* A peer that has stopped is noticed - unless its last packet was being   *)
(* accepted while the timeout of an earlier silence was: the session may   *)
(* then be up with no discriminator, and is not watched.                   *)
SilenceDetected ==
    p_state = "stopped" ~> p_state /= "stopped" \/ ~Watched \/ mpc /= "serving"

Stale == remote_discr \notin {None, p_discr}

(* Once nothing disturbs it the session comes up at both ends, unless it   *)
(* keeps the discriminator of a peer that has gone.                        *)
BothUp == state = "up" /\ p_state = "up"
RecoversWhenCalm == calm ~> BothUp \/ Stale \/ mpc /= "serving"

(* cleanupBfdBundle terminates.                                            *)
CleanupTerminates == mpc = "join_rx" ~> mpc = "freed"

(* Both threads do their work and end it: the session comes up once        *)
(* nothing disturbs it, and the shutdown gets through both joins.          *)
ThreadsLive == RecoversWhenCalm /\ CleanupTerminates

(* smoke_test.zig: "Session recovery when packets resume".  The code does  *)
(* not have this property when the peer restarts within the detection      *)
(* time, so no run checks it.                                              *)
RecoversAfterRestart == calm ~> BothUp \/ mpc /= "serving"
=============================================================================
